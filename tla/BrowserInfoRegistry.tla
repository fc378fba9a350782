------------------------ MODULE BrowserInfoRegistry ------------------------
(***************************************************************************)
(* The list of CefBrowserInfo objects of the browser process               *)
(* (libcef/browser/content_browser_client.cc, browser_info.cc): which      *)
(* browser a render view or frame belongs to.  The UI thread creates and   *)
(* destroys browsers; the IO thread answers the renderers that ask for the *)
(* browser of a view they have just created (browser_message_filter.cc)    *)
(* and decides about popups, which the UI thread creates later.  The list  *)
(* and each of its objects have a lock of their own, held for one access.  *)
(***************************************************************************)
EXTENDS Integers, Sequences, FiniteSets, FiniteSetsExt

CONSTANTS
  Browser,      \* CefBrowserHostImpl objects, one for each WebContents
  View,         \* RenderViewHosts: (process, routing id), never used again
  None,         \* no browser, no view
  MaxInfos,     \* bound: ids when the last info is made for a question
  MaxId         \* bound: ids

ASSUME NoneAssumption == None \notin Browser \cup View
ASSUME InfosAssumption == MaxId \in Nat /\ MaxInfos \in 0 .. MaxId

VARIABLES
  list,         \* browser_info_list_, which is in the order of the ids
  lastId,       \* next_browser_id_
  info,         \* what the info with an id holds
  browser,      \* where each browser is in its life
  infoOf,       \* browser_info_ of a browser, 0 before its construction
  pending,      \* pending_popup_info_: the popup it is for
  home,         \* the browser whose WebContents a view belongs to
  view,         \* where each view is in its life
  frames,       \* what the browser was told of the main frame of a view
  asked,        \* how often the renderer of a view has asked
  told,         \* id of the CefBrowserImpl the renderer made for a view, or 0
  creating,     \* windows the UI thread is going to create
  ui, io,       \* what the UI thread and the IO thread are in the middle of
  shutdown      \* DestroyAllBrowsers: not yet, at the infos that are left, over

registry == <<list, lastId, info>>
content == <<home, view, frames>>
renderer == <<asked, told>>
vars == <<registry, browser, infoOf, pending, content, renderer, creating, ui, io, shutdown>>

Id == 1 .. MaxId

Info == [popup : BOOLEAN, views : SUBSET View, frames : SUBSET View,
         browser : Browser \cup {None}]

Blank == [popup |-> FALSE, views |-> {}, frames |-> {}, browser |-> None]

Window == [opener : View, popup : Browser, view : View]

UITask ==
  [at : {"idle"}] \cup
  [at : {"build"}, window : Window] \cup
  [at : {"unset"}, who : Browser]

IOTask ==
  [at : {"idle"}] \cup
  [at : {"found"}, opener : View, id : Id \cup {0}] \cup
  [at : {"ask"}, opener : View, browser : Browser]

Shutdown == [at : {"no", "over"}] \cup [at : {"sweep"}, left : SUBSET Id]

Idle == [at |-> "idle"]

TypeOK ==
  /\ list \subseteq Id
  /\ lastId \in Id \cup {0}
  /\ info \in [Id -> Info]
  /\ browser \in [Browser -> {"unused", "promised", "canceled", "live", "destroyed"}]
  /\ infoOf \in [Browser -> Id \cup {0}]
  /\ pending \in [Browser -> Browser \cup {None}]
  /\ home \in [View -> Browser \cup {None}]
  /\ view \in [View -> {"unused", "reserved", "routed", "hosted", "deleted"}]
  /\ frames \in [View -> {"none", "created", "deleted"}]
  /\ asked \in [View -> 0 .. 2]
  /\ told \in [View -> Id \cup {0}]
  /\ creating \in Seq(Window)
  /\ ui \in UITask
  /\ io \in IOTask
  /\ shutdown \in Shutdown

Init ==
  /\ list = {} /\ lastId = 0 /\ info = [n \in Id |-> Blank]
  /\ browser = [b \in Browser |-> "unused"]
  /\ infoOf = [b \in Browser |-> 0]
  /\ pending = [b \in Browser |-> None]
  /\ home = [v \in View |-> None]
  /\ view = [v \in View |-> "unused"]
  /\ frames = [v \in View |-> "none"]
  /\ asked = [v \in View |-> 0]
  /\ told = [v \in View |-> 0]
  /\ creating = <<>>
  /\ ui = Idle /\ io = Idle
  /\ shutdown = [at |-> "no"]

-----------------------------------------------------------------------------
(* The list: each operation holds its lock.                                *)

OfView(v) == {n \in list : v \in info[n].views}
OfFrame(v) == {n \in list : v \in info[n].frames}

(* Mutant: the first info of the list, whatever its views are.             *)
FirstOfAll(v) == IF list = {} THEN 0 ELSE Min(list)

(* GetBrowserInfoForView: the first one that matches.                      *)
InfoForView(v) == IF OfView(v) = {} THEN 0 ELSE Min(OfView(v))

(* GetOrCreateBrowserInfo walks the list once and takes the first info     *)
(* that matches the view or its frame.                                     *)
Matching(v) == OfView(v) \cup OfFrame(v)

(* Mutant: the UI thread and the IO thread make an info each.              *)
AlwaysNew(v) == lastId + 1

IdFor(v) == IF Matching(v) = {} THEN lastId + 1 ELSE Min(Matching(v))

(* Mutant: the frame is not registered.                                    *)
ViewOnly(v, b) ==
  LET n == IdFor(v)
  IN  [info EXCEPT ![n].popup = IF n \in list THEN @ ELSE TRUE,
                   ![n].views = @ \cup {v},
                   ![n].browser = IF b = None THEN @ ELSE b]

(* An info that is new can only be a popup's; whichever it is, it then     *)
(* matches the view and the frame, and belongs to b, unless that is None.  *)
Registered(v, b) ==
  LET n == IdFor(v)
  IN  [info EXCEPT ![n].popup = IF n \in list THEN @ ELSE TRUE,
                   ![n].views = @ \cup {v},
                   ![n].frames = @ \cup {v},
                   ![n].browser = IF b = None THEN @ ELSE b]

GetOrCreateBrowserInfo(v, b) ==
  /\ info' = Registered(v, b)
  /\ list' = list \cup {IdFor(v)}
  /\ lastId' = Max({lastId, IdFor(v)})

(* CreateBrowserInfo of a browser that is no popup; its constructor sets   *)
(* the browser and calls RenderViewCreated.                                *)
CreateBrowserInfo(v, b) ==
  /\ lastId' = lastId + 1
  /\ list' = list \cup {lastId + 1}
  /\ info' = [info EXCEPT ![lastId + 1] =
       [popup |-> FALSE, views |-> {v}, frames |-> {}, browser |-> b]]

-----------------------------------------------------------------------------
(* The UI thread.                                                          *)

UIReady == ui = Idle /\ shutdown.at = "no"

(* CreateBrowserSync, CreateBrowser: Create, CreateInternal.  When the     *)
(* window cannot be made the browser stays as it is, told to nobody.       *)
Create(b, v) ==
  /\ UIReady /\ browser[b] = "unused" /\ view[v] = "unused" /\ lastId < MaxId
  /\ CreateBrowserInfo(v, b)
  /\ browser' = [browser EXCEPT ![b] = "live"]
  /\ infoOf' = [infoOf EXCEPT ![b] = lastId + 1]
  /\ home' = [home EXCEPT ![v] = b]
  /\ view' = [view EXCEPT ![v] = "hosted"]
  /\ UNCHANGED <<pending, frames, renderer, creating, ui, io, shutdown>>

(* A window that was allowed is created unless the view that asked for it  *)
(* is gone: ShouldCreateWebContents, and WebContentsCreated until it has   *)
(* taken the settings of the popup.                                        *)
CreateWindow ==
  /\ UIReady /\ creating # <<>>
  /\ creating' = Tail(creating)
  /\ LET w == Head(creating) IN
     IF view[w.opener] = "hosted"
     THEN /\ pending' = [pending EXCEPT ![home[w.opener]] = None]
          /\ ui' = [at |-> "build", window |-> w]
          /\ UNCHANGED browser
     ELSE /\ browser' = [browser EXCEPT ![w.popup] = "canceled"]
          /\ UNCHANGED <<pending, ui>>
  /\ UNCHANGED <<registry, infoOf, content, renderer, io, shutdown>>

(* The rest of WebContentsCreated: the info, CreateInternal.               *)
BuildPopup ==
  /\ ui.at = "build"
  /\ LET p == ui.window.popup
         v == ui.window.view
     IN  /\ IdFor(v) <= MaxId
         /\ GetOrCreateBrowserInfo(v, p)
         /\ infoOf' = [infoOf EXCEPT ![p] = IdFor(v)]
         /\ browser' = [browser EXCEPT ![p] = "live"]
         /\ view' = [view EXCEPT ![v] = "hosted"]
  /\ ui' = Idle
  /\ UNCHANGED <<pending, home, frames, renderer, creating, io, shutdown>>

(* A navigation to another site gives a browser a second view, which the   *)
(* browser hears of before the renderer does.                              *)
RenderViewCreated(b, v) ==
  /\ UIReady /\ browser[b] = "live" /\ view[v] = "unused"
  /\ view' = [view EXCEPT ![v] = "hosted"]
  /\ home' = [home EXCEPT ![v] = b]
  /\ info' = [info EXCEPT ![infoOf[b]].views = @ \cup {v}]
  /\ UNCHANGED <<list, lastId, browser, infoOf, pending, frames, renderer,
                 creating, ui, io, shutdown>>

(* One of two views is no longer needed.                                   *)
RenderViewDeleted(v) ==
  /\ UIReady /\ view[v] = "hosted"
  /\ \E w \in View \ {v} : view[w] = "hosted" /\ home[w] = home[v]
  /\ view' = [view EXCEPT ![v] = "deleted"]
  /\ info' = [info EXCEPT ![infoOf[home[v]]].views = @ \ {v}]
  /\ UNCHANGED <<list, lastId, browser, infoOf, pending, home, frames, renderer,
                 creating, ui, io, shutdown>>

RenderFrameCreated(v) ==
  /\ UIReady /\ view[v] = "hosted" /\ frames[v] = "none"
  /\ frames' = [frames EXCEPT ![v] = "created"]
  /\ info' = [info EXCEPT ![infoOf[home[v]]].frames = @ \cup {v}]
  /\ UNCHANGED <<list, lastId, browser, infoOf, pending, home, view, renderer,
                 creating, ui, io, shutdown>>

(* A frame can outlive its view, not its browser.                          *)
RenderFrameDeleted(v) ==
  /\ UIReady /\ frames[v] = "created" /\ browser[home[v]] = "live"
  /\ frames' = [frames EXCEPT ![v] = "deleted"]
  /\ info' = [info EXCEPT ![infoOf[home[v]]].frames = @ \ {v}]
  /\ UNCHANGED <<list, lastId, browser, infoOf, pending, home, view, renderer,
                 creating, ui, io, shutdown>>

RemoveBrowserInfo(n) == list' = list \ {n}

(* Mutant: the info of a browser stays in the list.                        *)
DestroyUnlisted(b) ==
  /\ browser' = [browser EXCEPT ![b] = "destroyed"]
  /\ view' = [v \in View |-> IF home[v] = b /\ view[v] = "hosted" THEN "deleted"
                                                                  ELSE view[v]]
  /\ ui' = [at |-> "unset", who |-> b]
  /\ UNCHANGED <<registry, infoOf, pending, home, frames, renderer, creating, io>>

(* DestroyBrowser: the browser stops observing its WebContents and deletes *)
(* it, which the IO thread cannot see, and the info leaves the list; then  *)
(* the info forgets the browser.                                           *)
Destroy(b) ==
  /\ browser' = [browser EXCEPT ![b] = "destroyed"]
  /\ view' = [v \in View |-> IF home[v] = b /\ view[v] = "hosted" THEN "deleted"
                                                                  ELSE view[v]]
  /\ RemoveBrowserInfo(infoOf[b])
  /\ ui' = [at |-> "unset", who |-> b]
  /\ UNCHANGED <<lastId, info, infoOf, pending, home, frames, renderer, creating, io>>

DestroyBrowser(b) ==
  /\ UIReady /\ browser[b] = "live"
  /\ Destroy(b)
  /\ UNCHANGED shutdown

DestroyBrowserUnsets ==
  /\ ui.at = "unset"
  /\ info' = [info EXCEPT ![infoOf[ui.who]].browser = None]
  /\ ui' = Idle
  /\ UNCHANGED <<list, lastId, browser, infoOf, pending, content, renderer,
                 creating, io, shutdown>>

(* DestroyAllBrowsers copies the list and walks the copy.  No other task   *)
(* of the UI thread runs from then on.                                     *)
StartShutdown ==
  /\ UIReady
  /\ shutdown' = [at |-> "sweep", left |-> list]
  /\ UNCHANGED <<registry, browser, infoOf, pending, content, renderer, creating,
                 ui, io>>

SweepInfo ==
  /\ ui = Idle /\ shutdown.at = "sweep" /\ shutdown.left # {}
  /\ LET n == Min(shutdown.left) IN
     /\ shutdown' = [shutdown EXCEPT !.left = @ \ {n}]
     /\ \/ /\ info[n].browser # None
           /\ Destroy(info[n].browser)
        \/ /\ info[n].browser = None
           /\ RemoveBrowserInfo(n)
           /\ UNCHANGED <<lastId, info, browser, infoOf, pending, content, renderer,
                          creating, ui, io>>

EndShutdown ==
  /\ ui = Idle /\ shutdown.at = "sweep" /\ shutdown.left = {}
  /\ shutdown' = [at |-> "over"]
  /\ UNCHANGED <<registry, browser, infoOf, pending, content, renderer, creating,
                 ui, io>>

-----------------------------------------------------------------------------
(* The IO thread.                                                          *)

(* BrowserCreated, in the renderer: the first answer gives the view a      *)
(* browser object of the renderer's own, later ones change nothing.        *)
BrowserCreated(v, id) == told' = [told EXCEPT ![v] = IF @ = 0 THEN id ELSE @]

(* OnGetNewBrowserInfo: a renderer tells the ids of a view and of its main *)
(* frame, once when it has created the frame and once for the view.        *)
GetNewBrowserInfo(v) ==
  /\ io = Idle
  /\ view[v] \in {"routed", "hosted", "deleted"} /\ asked[v] < 2
  /\ Matching(v) # {} \/ lastId < MaxInfos
  /\ GetOrCreateBrowserInfo(v, None)
  /\ asked' = [asked EXCEPT ![v] = @ + 1]
  /\ BrowserCreated(v, IdFor(v))
  /\ UNCHANGED <<browser, infoOf, pending, content, creating, ui, io, shutdown>>

(* A script of a view opens a window: OnCreateWindow, CanCreateWindow and  *)
(* in it GetBrowserForView, whose two accesses have each their lock.       *)
OpenWindow(v) ==
  /\ io = Idle /\ told[v] # 0
  /\ io' = [at |-> "found", opener |-> v, id |-> InfoForView(v)]
  /\ UNCHANGED <<registry, browser, infoOf, pending, content, renderer, creating,
                 ui, shutdown>>

ReadBrowser ==
  /\ io.at = "found"
  /\ io' = IF io.id = 0 \/ info[io.id].browser = None
           THEN Idle
           ELSE [at |-> "ask", opener |-> io.opener, browser |-> info[io.id].browser]
  /\ UNCHANGED <<registry, browser, infoOf, pending, content, renderer, creating,
                 ui, shutdown>>

(* OnBeforePopup, or SetPendingPopupInfo, says no.                         *)
DenyPopup ==
  /\ io.at = "ask"
  /\ io' = Idle
  /\ UNCHANGED <<registry, browser, infoOf, pending, content, renderer, creating,
                 ui, shutdown>>

(* Mutant: a popup that is pending is replaced.                            *)
NoPopupPending == TRUE

(* Is no popup of the browser pending?                                     *)
NonePending == pending[io.browser] = None

(* SetPendingPopupInfo.  The popup's view is one the renderer makes at     *)
(* once, or, in a new process, one it hears of when the popup exists.      *)
AllowPopup(p, v) ==
  /\ io.at = "ask" /\ NonePending
  /\ browser[p] = "unused" /\ view[v] = "unused"
  /\ pending' = [pending EXCEPT ![io.browser] = p]
  /\ browser' = [browser EXCEPT ![p] = "promised"]
  /\ home' = [home EXCEPT ![v] = p]
  /\ \E where \in {"routed", "reserved"} : view' = [view EXCEPT ![v] = where]
  /\ creating' = Append(creating, [opener |-> io.opener, popup |-> p, view |-> v])
  /\ io' = Idle
  /\ UNCHANGED <<registry, infoOf, frames, renderer, ui, shutdown>>

-----------------------------------------------------------------------------
UINext ==
  \/ \E b \in Browser, v \in View : Create(b, v) \/ RenderViewCreated(b, v)
  \/ \E v \in View : RenderViewDeleted(v) \/ RenderFrameCreated(v) \/ RenderFrameDeleted(v)
  \/ \E b \in Browser : DestroyBrowser(b)
  \/ CreateWindow \/ BuildPopup
  \/ DestroyBrowserUnsets
  \/ StartShutdown \/ SweepInfo \/ EndShutdown

IONext ==
  \/ \E v \in View : GetNewBrowserInfo(v) \/ OpenWindow(v)
  \/ ReadBrowser \/ DenyPopup
  \/ \E p \in Browser, v \in View : AllowPopup(p, v)

Next == UINext \/ IONext

Spec == Init /\ [][Next]_vars

-----------------------------------------------------------------------------
(* However the IO thread's answer and the creation on the UI thread        *)
(* follow each other (the race content_browser_client.h:49 speaks of), a   *)
(* view has one info in the list, that of its browser once there is one;   *)
(* its frame leads nowhere else, and leads there once the renderer has     *)
(* asked (network requests look their browser up by frame).                *)
OneInfoPerView ==
  \A v \in View :
    /\ view[v] = "hosted" =>
         /\ OfView(v) = {infoOf[home[v]]}
         /\ OfFrame(v) \subseteq OfView(v)
         /\ asked[v] > 0 /\ frames[v] # "deleted" => OfFrame(v) = OfView(v)
    /\ view[v] = "routed" => Cardinality(OfView(v)) <= 1

(* The id a renderer has for the browser of a view is the id of the        *)
(* browser, also when it asked before the browser was created: messages    *)
(* between the two name the browser the view belongs to.  A renderer that  *)
(* asks for the first time after the browser let the view go is told       *)
(* something else, and talks to nobody.                                    *)
RendererKnowsItsBrowser ==
  \A v \in View : view[v] = "hosted" /\ told[v] # 0 => told[v] = infoOf[home[v]]

(* A popup is built over an info no other browser has (the DCHECK in the   *)
(* constructor) and which says that it is a popup (the one in              *)
(* WebContentsCreated).                                                    *)
PopupGetsInfoOfItsOwn ==
  ui.at = "build" =>
    \A n \in Matching(ui.window.view) :
      info[n].browser = None /\ info[n].popup

(* The browser the IO thread asks about a popup is the one whose view      *)
(* opens it, for all that the list, the info and the browser can change    *)
(* between its two looks; it may have been destroyed meanwhile.            *)
LookupFindsTheOpener ==
  io.at = "ask" => io.browser = home[io.opener]

(* When the UI thread creates a popup for a browser, the settings the IO   *)
(* thread left there are those of this popup: ShouldCreateWebContents uses *)
(* them without a test.                                                    *)
PopupFindsItsSettings ==
  \A i \in DOMAIN creating :
    view[creating[i].opener] = "hosted" =>
      pending[home[creating[i].opener]] = creating[i].popup

(* So what the IO thread prepared for a popup is there, and for no other.  *)
PopupIsPrepared == PopupGetsInfoOfItsOwn /\ PopupFindsItsSettings

(* Only a popup's info can be without a browser when DestroyAllBrowsers    *)
(* comes to it (content_browser_client.cc:509); RemoveBrowserInfo, which   *)
(* must find what it removes, is called for infos of the list only; and    *)
(* the sweep reaches every browser.                                        *)
ShutdownReachesEveryBrowser ==
  /\ \A n \in list : info[n].browser = None => info[n].popup
  /\ \A b \in Browser : browser[b] = "live" => infoOf[b] \in list
  /\ shutdown.at = "sweep" => shutdown.left \subseteq list
  /\ shutdown.at = "over" => \A b \in Browser : browser[b] # "live"
=============================================================================
