# A verification development for the Chromium Embedded Framework

The Chromium Embedded Framework (CEF, `src/cef3`) puts a Chromium browser inside another
application. One browser process runs the application, the browser hosts and the resource handling;
several renderer processes run the pages. In the browser process a handful of named threads (UI, IO,
FILE, ...) post tasks to each other; between the processes travel messages; and at almost every step
the library calls back into application code, which may call the library again. These modules model
the parts of it where that concurrency, and the failures that come with it, decide whether the code
is correct.

1. [The system](#1-the-system)
2. [Modules and plan](#2-modules-and-plan)
3. [The message router](#3-the-message-router)
4. [The life of a browser](#4-the-life-of-a-browser)
5. [URL requests](#5-url-requests)
6. [Resource handlers](#6-resource-handlers)
7. [Cookie managers](#7-cookie-managers)
8. [Values](#8-values)
9. [The registry of browsers](#9-the-registry-of-browsers)
10. [Off-screen rendering](#10-off-screen-rendering)
11. [Runs, bounds, symmetry](#11-runs-bounds-symmetry)
12. [Fairness](#12-fairness)
13. [What disagrees](#13-what-disagrees)
14. [What is proved](#14-what-is-proved)
15. [What is not modelled](#15-what-is-not-modelled)

How to run things: `tlc -config MCMessageRouter_requests.cfg MCMessageRouter.tla` (and so on: a
configuration is named after the MC module it belongs to), `tlapm MessageRouterProofs.tla`.

## 1. The system

| Component | Source (under `src/cef3`) | State it keeps | Operations |
|---|---|---|---|
| Message router, browser side | `libcef_dll/wrapper/cef_message_router.cc` | registered handlers, pending queries, callbacks in the hands of handlers, tasks posted to the UI thread | AddHandler, RemoveHandler, CancelPending, GetPendingCount, OnProcessMessageReceived, OnBeforeBrowse, OnBeforeClose, OnRenderProcessTerminated, Callback::Success/Failure |
| Message router, renderer side | the same file | ids of JavaScript contexts, pending requests, id generators, posted callback tasks | `cefQuery`, `cefQueryCancel`, OnContextCreated/Released, OnProcessMessageReceived |
| Browser host | `libcef/browser/browser_host_impl.cc`, `_win.cc` | destruction state, window, WebContents, queue of undelivered messages, frames, dialogs | CloseBrowser, CloseContents, WindowDestroyed, DestroyBrowser, Send, RenderViewReady, RenderProcessGone, navigation and input |
| Browser-info registry | `libcef/browser/content_browser_client.cc`, `browser_info.cc` | which render views belong to which browser, popups under creation | CreateBrowserInfo, GetOrCreateBrowserInfo, RemoveBrowserInfo, DestroyAllBrowsers, OnGetNewBrowserInfo |
| Embedder response manager | `libcef/common/response_manager.cc` | handlers waiting for an acknowledgement | RegisterHandler, RunHandler, RunAckHandler |
| Values | `libcef/common/value_base.{h,cc}`, `values_impl.cc` | owner, references and lock of a tree of values | attach, detach, TakeFrom, Invalidate |
| Off-screen rendering | `libcef/browser/render_widget_host_view_osr.cc`, `software_output_device_osr.cc` | damage on its way to the client, copies of the layer, size and who holds it, popup widgets | OnSwapCompositorFrame, GenerateCopyFrame, EndPaint, OnPaint, WasResized, HoldResize/ReleaseResize, Invalidate, Show/Hide, InitAsPopup, CancelPopupWidget, Destroy |
| URL requests, browser process | `libcef/browser/browser_urlrequest_impl.cc` | fetcher, status, response, reference to the request | Start, Cancel, the fetcher's notices, OnComplete |
| URL requests, renderer process | `libcef/renderer/render_urlrequest_impl.cc` | loader, status, response | Start, Cancel, the loader's notices, OnComplete |
| Resource handlers | `libcef/browser/resource_request_job.cc` | handler, headers sent, pending read | Start, SendHeaders, ReadRawData, Kill, Continue/Cancel |
| Cookie manager, request contexts | `libcef/browser/cookie_manager_impl.cc`, `request_context_impl.cc` | storage path, cookie monster | SetStoragePath, VisitAllCookies, SetCookie, FlushStore |
| Process context | `libcef/browser/context.cc` | initialised / shutting down | CefInitialize, CefShutdown, message loops |
| Dialogs and permissions | `javascript_dialog_manager.cc`, `download_manager_delegate.cc` | running dialog, downloads awaiting an answer | RunJavaScriptDialog, RunBeforeUnloadDialog, download callbacks |
| Renderer objects | `libcef/renderer/*.cc` | browsers, frames, V8 handles per context | V8 wrapping, frame notifications |
| Others | printing, DevTools, geolocation, C glue, stream/XML/ZIP helpers, samples | | |

How they interact. The router sits in the application: the application forwards
`OnProcessMessageReceived`, `OnBeforeBrowse`, `OnBeforeClose` and `OnRenderProcessTerminated` to it
from the client callbacks the browser host makes. Its messages travel through the browser host
(`Send`, `RenderViewReady`) and the renderer's browser object. A browser host is destroyed through
its window, its page, its client or the registry. URL requests are used by the client and use
Chromium's `URLFetcher` on the IO thread.

Hard behaviours, and what would be correct:

* **Router.** Two processes that can both cancel, FIFO streams in both directions, tasks posted to
  the own thread, crashes and navigations to another process after which ids start again at 1, while the
  process left behind may still send. Correct: no query the embedder was told to cancel outlives its
  renderer process, JavaScript is told exactly once, no handler keeps a query nobody waits for, nothing is
  pending for a handler that was removed.
* **Life of a browser.** Five parties can close it, most of them asynchronously, and a state of four
  values must make them agree. Correct: `OnBeforeClose` is called once, the reference held for the
  window is released once, a refused close is forgotten, a pending close cannot get lost.
* **URL requests.** In the browser process three threads and a fetcher that can be deleted under the
  notices it posted; in a renderer one thread, but a loader that may report a cancel from inside the
  `Cancel` itself; in both a client that calls `Cancel` from inside the callbacks. Correct: one contract
  for both, one completion with the status that was decided, and a bound on what is still told after it.
* **Resource handlers.** A handler that continues and cancels from any thread while the request is read,
  redirected and destroyed. Correct: no callback reaches a job that is gone, no waiting read is lost, a
  canceled handler is left alone, no more bytes than announced, the end is told.
* **Cookie managers.** Methods of any thread that may have to wait for a request context of another
  thread. Correct: no call lost or answered twice, the order of a thread's calls kept, the store and its
  schemes those asked for last, no callback from inside the call.
* **Values.** Objects that are detached when the value they stand for goes, found by its address.
  Correct: no attached object without a value, everything that hangs on a value known, no tree owned
  twice or by nobody.
* **Registry.** The IO thread answers renderers about browsers the UI thread may not have built yet.
  Correct: one info for each view, a renderer knows the id its browser will have, a popup finds the
  settings made for it, the shutdown reaches every browser.
* **Off-screen rendering.** One thread, but a client that calls the view from inside its `OnPaint`, copies
  that fail, posted tasks, and one flag for two reasons to hold the size. Correct: no damage is forgotten,
  one copy is made at a time, the size does not change under a paint and a resize that was put off is made,
  the client is shown one popup at a time.

Every hazard met is listed, at its line, in `PROJECT.json` with the properties that watch it, or with
the reason why none does.

## 2. Modules and plan

| Module | What it is |
|---|---|
| `RouterTransport` | processes, process messages and the browser host's message queue |
| `MessageRouterBrowserSide`, `MessageRouterRendererSide` | the two sides, each EXTENDS the transport |
| `MessageRouter` | both sides with the embedder; invariants, fairness, refinement mapping |
| `QueryContract` | abstract specification: what the router promises of a single query |
| `BrowserLifetime` | the life of one browser host |
| `URLRequestContract` | abstract specification: what a `CefURLRequest` promises its client |
| `BrowserURLRequest`, `RenderURLRequest` | its two implementations, each with its refinement mapping |
| `ResourceRequestJob` | a request answered by a `CefResourceHandler` |
| `CookieManager` | a cookie manager with its own store, or that of a request context |
| `Values` | dictionaries, lists and binary values in memory, and the objects clients use |
| `BrowserInfoRegistry` | which browser a view belongs to, between the UI and the IO thread |
| `OffScreenView` | the frames, the size and the popups of a windowless browser's view |
| `...Proofs` | theorems about the module they are named after; `BrowserHostProofs` about `BrowserLifetime` and `OffScreenView`, the two parts of a browser host on the UI thread |
| `MC...` | instances for TLC |

The modules stand side by side; the two compositions are the router (two sides, transport, embedder) and
the contract both kinds of URL requests are mapped to. The life of a browser and the registry meet in the
shutdown, which each of them has as its own action: the registry decides whom it reaches
(`ShutdownReachesEveryBrowser`), the life of a browser what it does there (`Shutdown`).

What the plan has left, in this order:

1. **ResponseManager** between the browser host and the renderer's browser object, with the frames of the
   browser host: an acknowledgement reaches the handler it was registered for, once, also when the
   renderer is replaced meanwhile; the focused frame is a frame of the browser.
2. **Context** and the sharing of request contexts, composed with the registry for shutdown.
3. **Dialogs, downloads and permission requests**: callbacks that outlive the dialog or the browser.

## 3. The message router

**State.** `RouterTransport` has, for every browser, `proc` (its renderer process), `epoch` (how many
it had; ids restart with each), the two streams `toBrowser` and `toRenderer`, `late` (what processes the
browser has left sent and what still arrives), and `queueing` /
`queued`, the `queue_messages_` and `queued_messages_` of `CefBrowserHostImpl`. The browser side has
`handlers` (`handler_set_`), `queries` (`browser_query_info_map_`), `attached` (the callbacks that
still have their `router_`) and `uiTasks` (tasks posted to the UI thread). The renderer side has
`ctx` (`context_map_` together with the `context_id_` of each `V8HandlerImpl`), `requests`
(`browser_request_info_map_`), the two generators, and `jsTasks` (posted callback executions). History
variables only remember: `issued`, `received`, `answered`; `dropped`, the queries that were canceled while a
renderer may still wait for them; `misled`, the requests ended by the answer to a request of another process;
`unheard`, the queries whose cancel hit another one instead; `unreported`, the processes that exited
normally. So do the `epoch` of an answer and of a query, and whether a query is `unguarded` (it came after the
`OnBeforeBrowse` of the navigation that may leave its page): the code's messages and `QueryInfo` do not say,
and no guard reads them.

**Actions.** Each is one task of one thread. `ReceiveQuery` (`TakeQuery`) is the whole query branch of
`OnProcessMessageReceived`: the handlers of the copied set are asked until one returns TRUE (in the order of
their addresses, so any of them can be the one that takes the query), handlers may be removed from inside
`OnQuery` (`ReentrantRemoval`), and an unhandled query is failed. `ReceiveCancel` (`CancelPendingRequest`) is the cancel
branch; the visitor stops after one match when a request is named, and compares the browser but not the
process. `ReceiveLate` is both branches for a message of a process the browser has left. `CallbackSuccess` / `CallbackFailure` post
`OnCallbackSuccess` / `OnCallbackFailure` and detach; calls from other threads are posted first
(`AnswerOffUI`). `CancelPendingFor` tells the renderer, `CancelSilently` (navigation, process death, browser
destruction) does not. On the renderer side `CefQuery`, `CefQueryCancel` and `OnContextReleased` send,
`ReceiveAnswer` posts, and `ExecuteSuccessCallback` / `ExecuteFailureCallback` apply the answer if a
request with its ids is still pending (`EndRequests`), whichever process it was meant for. `Crash` loses
everything on its way to the renderer and a suffix of what came from it; `RenderProcessGone` follows the last
message and tells the router unless the exit was normal. `CommitElsewhere` (`SwapProcess`) is a navigation that
commits in another renderer process: from then on `Send` writes to the new view, and nobody tells the
embedder of the old process.

A payload is abstracted away: a message keeps the ids, `persistent`, and whether it is a success.
Which handler takes a query, when it answers and what JavaScript does are free choices.

**Assumed of Chromium.** A channel delivers in order and its error comes after its last message; the
renderer announces its view before it runs scripts; frames are detached before the context of the main
frame is released. Of what a process left by a navigation has sent, and sends when its last context is released,
any prefix reaches the browser, at any time, since messages of a view that is swapped out are dropped at some
point; what was on its way to that process has no effect in this browser any more. A process of the model
shows one browser, once.

**Properties.** They are about the code as it is, also when messages of two processes of one browser meet;
where that goes wrong (section 13) the properties say exactly which queries it can go wrong for.

* `NoOrphans`: `NoOrphanQuery` (no handler keeps a query of the present process nobody waits for; except when
  the answer of another process ended its request, or its cancel ended another query) and `NoOrphanRequest` (no
  JavaScript waits for an answer that was lost; the answer must be that of its own process, unless its query
  was dropped).
* `QueriesEndWithProcess`: a pending query whose process the browser has no more is unguarded or its process
  unreported, so what `OnBeforeBrowse` and `OnRenderProcessTerminated` were called for is gone; and no query
  outlives its browser.
* `CallbackUsedOnce`, `RemovedHandlerIsIdle`, as they are named.
* Liveness: `HandlerIsReleased` (a handler is told when JavaScript stops waiting, unless the browser left the
  process with the query, or another process's query was canceled instead) and `EveryQueryIsAnswered`.
* `KeepsContract`: seen query by query (`JsView`, `HdView`), the router is an implementation of
  `QueryContract`. There a query is offered to handlers at most once and ends once; JavaScript is told only of
  a query that has ended, never of one that was dropped; and it can be misled only while there is a query
  that handlers have seen and whose own page does not wait for it any more.

## 4. The life of a browser

**State.** `destruction_state` (the four values of the code), `window` (its state and the `WM_CLOSE`
messages posted to it; `"offscreen"` is a browser without one), `contents` (the WebContents),
`beforeUnload` / `unloading` (where the page is), `posted` (CloseBrowser calls from other threads),
`shutdown`, `references` (the reference `PlatformCreateWindow` takes for the window), and two history
variables: `closings` counts calls of `OnBeforeClose`, `warrant` says why the browser may be closed.

**Actions.** `CloseBrowser(force, w, agrees)` and `CloseContents(state, w, u, agrees)` are operators,
as they are functions in the code: the state and the window their caller has just set are parameters.
They are used by `CallCloseBrowser`, `RunPosted`, the close messages of the window (`UserClosesWindow`,
`CloseMessage`), the destruction of a parent window (`ParentDestroyed`, through `WindowDestroyed`), by
`window.close()` (`ScriptCloses`) and by the page that has unloaded (`Unloaded`). The client's answer in
`DoClose` is `agrees`. `RunBeforeUnloadDialog`, `AnswerPrompt` and `BeforeUnloadFired` are the prompt.
`Shutdown` is `DestroyAllBrowsers`.

The window is that of the Windows port; the Linux and Mac ports follow the same calls with other
window systems.

**Properties.** `EndsOnce` (`ClosedOnce`: one `OnBeforeClose`, when the browser is destroyed;
`ReferenceIsWindows`: the reference is the window's and goes with it), `AcceptedIsWarranted` (the state is
ACCEPTED just while somebody wants the browser closed), `AttemptInProgress` (an attempt that makes the
others return early really is on its way), and the liveness properties `WindowTakesBrowserAlong` and
`ForcedCloseProceeds`. The last one holds only if prompts are answered: a forced close made while a
`beforeunload` prompt is on screen does not take the prompt away, it waits for the answer and then closes
whatever the answer is.

## 5. URL requests

**The contract.** `URLRequestContract` is what `include/cef_urlrequest.h` promises of a `CefURLRequest`,
whichever process it works in: the status leaves `UR_IO_PENDING` once and stays, `OnRequestComplete` is
called once and with that status, the end of an upload is told before any success, and the request lives
until it was told. The end of the upload is told at most once on a notice of the network (`noticed`) and at
most once in its place (`stoodIn`), never in place of a notice that came, and never after the completion; a
notice that comes after it was told in its place tells it again. Both implementations are mapped to it (`KeepsContract`).

**Browser process, state.** The fields of `CefBrowserURLRequest::Context` (`fetcher`, `url_request`,
`status`, `response`, `got_upload_progress_complete`), the `tasks` of the originating thread, the tasks it
posted to the IO thread (`ioTasks`), the work of the fetcher there (`fetch`), and `callbacks`, the stack of
client callbacks being run: `OnRequestComplete` can be called by a `Cancel` from inside another callback.
`completions`, `told` and `raced` are history; `told` counts how often the end of the upload was told in each
of the two ways and the data that was told too late, `raced` says that a `Cancel` came when the request's own
completion had begun.

**Actions.** A task up to the client callback it makes, and a callback's return up to the next one:
`OnComplete` is cut in `OnComplete`, `CompleteAfterUpload` (after `OnUploadProgress`) and `Completed`
(after `OnRequestComplete`), because the client may call `Cancel` at both cuts. `Cancel` can also come
as a task of its own. The fetcher's notices are posted by `FetchUploads` (a timer: at any time
before the fetch ends, also behind parts of the response), `FetchReads` and `FetchEnds`
and run by `OnURLFetchUploadProgress`, `OnURLFetchDownloadProgress` and `OnURLFetchComplete`, or dropped
when the fetcher is gone (`DropNotice`). Response data takes another way: the writer posts
`WriteOnClientThread`, which no deletion stops. `OnComplete` uses a reference into the fetcher
(`status`) after the callback that may have deleted it; what it reads then is any status.

**Properties.** `CompletedTwiceAtMost` is the strongest bound that holds: one completion, or two if
`Cancel` raced with the first. `KeepsContract` holds of everything the client sees as long as no `Cancel`
raced, and of the first completion from then on. `LateDataBounded`: one part of the data at most after a
completion, none after a success. `EndIsReported`: a fetch that ended is reported and the reference that
keeps the request alive given up.

**Renderer process.** `RenderURLRequest` has the same fields with `loader` in the place of the fetcher, and
one thread. Its actions are cut the same way. `Cancel` looks at the loader and the status and calls
`loader_->cancel()`, "which will result in a call to `OnError()`": in the model the loader reports the
error either before `cancel()` returns or when it is next run (`LoaderCancel`, `didFail`), since the code
that decides it is Blink's. `didReceiveData` goes on after each of the callbacks it makes, whatever the
client did in them. Here one completion is all there is and the `Cancel` decides its status
(`CompletedAsDecided`), and what may still be told afterwards is the rest of one `didReceiveData`: a
progress notice and a part of the data (`LateNoticesBounded`).

The difference the contract makes visible: a completion that is posted (browser process) can be overtaken
by a `Cancel`, one that is made in the notice itself (renderer process) cannot.

## 6. Resource handlers

**State.** `ResourceRequestJob` is `CefResourceRequestJob` with as much of `net::URLRequestJob` and
`net::URLRequest` as it uses (`status`, `is_done`, `response_started`; external). `stage` says what the job
waits for, `callback` is `callback_`, `linked` the callbacks whose `job_` is set, `given` those the handler
holds, `dest` whether `dest_` of the callback is set, `tasks` the tasks posted to the IO thread, `reading`
whether the owner waits for a read.

**Actions.** `Start`, `CheckCookiePolicyAndLoad` and `OnCookiesLoaded` lead to `DoStartTransaction`, which
looks whether the request was canceled meanwhile. `Continue` and `Cancel` of a callback only post
(`HandlerCalls`); their tasks are `ContinueHeaders` (with `SendHeaders` and the saving of cookies, which
goes on in `OnCookieSaved`), `ContinueBytes` and `CancelOnIOThread`, or `RunDetached` when the callback lost
its job. `Read` is `URLRequest::Read` down to `ReadRawData`: the handler has bytes, has no more, will have
some later, or returns more than it should. `Cancel` and `Destroy` are the owner's; a redirect destroys the
job as well. `NotifyCanceled` posts the task that tells the owner (`RunCompleteNotifyDone`).

**Assumed.** A handler that refuses a request in `ProcessRequest` does not use that callback any more; an
owner that was told the end does nothing but destroy the request. A canceled job may still ask the handler
about cookies (`CanGetCookie`): `LeftAloneOnceCanceled` speaks of the request, the headers and the bytes.

**Properties.** `NoDanglingCallback` (a callback that can reach the job is the one `Kill` detaches),
`WaitingReadIsKnown` (a read that waits has its buffer remembered and a callback that reaches the job, and
nothing else has), `LeftAloneOnceCanceled`, `LengthKept`, and the liveness property `OwnerIsTold`: a cancel
is reported (`CancelIsReported`) and a `Continue` heard (`ContinueIsHeard`). That no step replaces the
status of a canceled request is a theorem only (`CanceledForGood`).

## 7. Cookie managers

**State.** `context` tells which of the two kinds the manager is, `ready` whether the request context's
`request_context_impl_` exists and `impl` whether the manager has it; `storage` is `storage_path_`,
`supported_schemes_`, the current store (`store`) and the `older` ones that still have calls to answer; a
store has its place, its schemes, whether it is loaded, and the calls that wait for it: `asking`, answered
right there when it is loaded, and `waiting`, whose callbacks are then posted. `calls` numbers the calls
made so far, `io` and `ui` are the task queues, `flushing` the calls of `FlushStore` under way.

**Actions.** `CreateManager` and `GetDefaultCookieManager` create it, from any thread. `CallMethod` is
`SetStoragePath`, `SetSupportedSchemes`, `SetCookie` / `DeleteCookies`, the two `Visit` methods or
`FlushStore`: from another thread it posts itself to the IO thread, there it works at once or waits for the
context by way of the UI thread (`Method`, `RunUI`, `RunWithContext`). A directory that cannot be created
leaves its store in memory and is remembered all the same (`WithPath`). A store loads its cookies when it is
first asked (`StoreLoaded`). `RequestCookies` is a network request that goes through
`cookie_store_proxy.cc`.

**Properties.** `OncePlaced` (a call is in exactly one place: no call is lost, none answered twice),
`OnlyEarlyGoAstray` (the calls of a thread take effect in their order, except those made on the manager of
a context before its creation was reported; a call that finds no store was made on the IO thread before
then), `StoreAsAsked` (path and schemes are those asked for last) and the liveness property
`EveryCallAnswered`: every call is answered, a call that is given up is not, and only one made on the IO thread
before the creation was reported may be given up (`CameTooEarly`).

## 8. Values

**State.** `parent` is the memory: for each address the value it is in, `"top"` or `"free"`. An object has
a value, a mode (owner or reference) and a controller; objects and the controllers they bring along have
the same names. A controller has its owner, `references` (`reference_map_`) and `dependencies`
(`dependency_map_`). `lock` and `threads` are the two steps of every call: look whether the object is
attached (`Begin`), then wait for the lock of its controller and work. A call that stores a value waits for
a second lock while it holds the first (`Set`, `FinishSet`). `fault` is the use of something that is not
there; nothing is known of the program afterwards and the model stops.

**Actions.** `Create`, `Get` (`GetOrCreateRef`), `Remove`, `Clear`, `Copy`, `Set` (`SetDictionary` and the
like: `CopyOrDetachValue`, then `SetInternal`), `Release` and `Delete`, the destructor, and `Use` for every
call that only reads or writes a primitive value. What hangs on a removed value is found through the
dependencies (`Dependents`, `RemovedWith`); addresses are used again.

**Properties.** `NoDangling` (an attached object has a value in memory, in the tree of its controller) and
`TreesAreKnown`: the controller knows every object attached to it, one for each value (`AttachedIsKnown`),
between an object and the top of its tree every step is in the dependency map, so removing anything above
finds it (`DependenciesKnown`), and a tree has one owner (`OneOwner`).

That `TakeFrom` clears nothing (section 13) is what keeps these properties true: the references it copied
are then told that they are removed, and detached. Passed on attached they would break `AttachedIsKnown`,
because nobody tells the objects their new controller.

The runs have room for three values; that both properties hold of trees of any depth is proved (section 14).

## 9. The registry of browsers

**State.** `list`, `lastId` and `info` are `browser_info_list_`, `next_browser_id_` and what each
`CefBrowserInfo` holds: whether it is a popup's, its views, its frames, its browser. `browser`, `infoOf` and
`pending` are the `CefBrowserHostImpl` objects with `browser_info_` and `pending_popup_info_`. `home`,
`view` and `frames` are what content knows of views; `asked` and `told` what their renderers asked and know.
`creating` are the windows that were allowed and not yet made; `ui` and `io` what each thread is in the
middle of.

**Actions.** An action is one access under a lock, or what the UI thread does between two accesses:
`CreateWindow` (`ShouldCreateWebContents`) and `BuildPopup` (the rest of `WebContentsCreated`) are apart, so
that the renderer's question can come between them; `OpenWindow` and `ReadBrowser` are the two looks of
`GetBrowserForView`, each with its own lock; `DestroyBrowserUnsets` follows `DestroyBrowser`. On the IO
thread `GetNewBrowserInfo` answers a renderer and `AllowPopup` / `DenyPopup` decide about a popup. The part
of `DestroyBrowser` the IO thread cannot see is merged with `RemoveBrowserInfo`. `StartShutdown`,
`SweepInfo` and `EndShutdown` are `DestroyAllBrowsers`.

**Assumed.** The ids of views are never used again; a browser hears of a view for another site before its
renderer asks; a renderer asks twice for a view, with its main frame and as a view; the UI thread runs no
other task once `DestroyAllBrowsers` has started.

**Properties.** `OneInfoPerView`, `RendererKnowsItsBrowser`, `PopupIsPrepared` (the info of a popup is its own
and still free, and `ShouldCreateWebContents`, which dereferences `pending_popup_info_` without a test, finds
the settings made for it), `LookupFindsTheOpener` (between the two looks the browser can be destroyed, but
never become another one's) and `ShutdownReachesEveryBrowser`.

## 10. Off-screen rendering

**State.** `OffScreenView` is `CefRenderWidgetHostViewOSR` on the UI thread. `mode` is the way frames come,
which a view never changes: copied from the GPU, drawn by the compositor whenever it likes, or drawn while
the renderer asks for BeginFrame. `generator` has the fields of `CefCopyFrameGenerator` (`damage` is
`pending_damage_rect_`), `delayed` the calls it put off to keep to the frame rate, `copies` the damage of each
copy that was requested; `device` is the `CefSoftwareOutputDeviceOSR` and `swapped` the damage of frames the
compositor has not drawn yet. `painting` counts the calls of the client's `OnPaint` under way.
`hold_resize`, `pending_resize`, `layer` (the bounds of `root_layer_`), `rect` (what the client's
`GetViewRect` says) and `lock` (the `CefResizeLock` of content) are the size; `popups` is `popup_host_view_`
with what became of each popup widget and what the client was told. `tasks` are the posted tasks. Damage is a
set of regions. `owed` is the damage the client was not shown, `missed` what was drawn while the device was
inactive, `wish` whether a resize was asked for and not made, and `meddled` whether the client painted or
hid the view in its `OnPaint`: they are history.

**Actions.** A call of the client's `OnPaint` and the return from it are apart (`OnPaint` in `CaptureSucceeds`
and `DevicePaints`, then `PaintReturns`), because the client may call `WasResized`, `WasHidden` and
`Invalidate` in between. `OnSwapCompositorFrame` brings a frame; `GenerateCopyFrame` makes a copy of it now,
later (`RunInternalGenerateCopyFrame`) or after the copy in progress; a copy ends in `CaptureFails` or
`CaptureSucceeds`, with the task of `OnCopyFrameCaptureCompletion` (`RunGenerate`). `Draw` is `BeginPaint` and
`EndPaint`, `OnSetNeedsBeginFrames` turns the device on and off. `WasResized` resizes the layer
(`ResizeRootLayer`, where content may take its resize lock) or puts that off, for `ReleaseResize` to post
(`RunWasResized`); the lock ends in `LockTimesOut`, `ResizeLockReleased` or `Hide`. Popups are opened
(`InitAsPopup`), closed by the page (`DestroyPopup`) or canceled later by the mouse wheel
(`SendMouseWheelEvent`, `RunCancelPopup`).

**Assumed.** The software device is there and has its size from the start; the view has a browser, its client
a render handler; the view is not destroyed from inside `OnPaint`; content takes one resize lock at a time.

**Properties.** `FrameKept`: a frame is in progress just while one copy of it is delayed, requested or painted
(`OneCopyAtATime`: if a copy were forgotten, no frame would be copied any more), and the damage the client was
not shown is in the generator, a copy, the device or the compositor, or was drawn while the device was
inactive (`DamageIsCopied`, `DamageIsDrawn`); a device that is turned off keeps none. `PopupShownOnce`: the
popup the view knows is the one that is open, and the client was told once that it is shown and not yet that
it is gone: `popups.shown` counts the calls of `OnPopupShow`, so one call too many is seen. `NoResizeDuringPaint`, an action property: the layer keeps
its size while the client paints, as the comment in `OnPaint` says, unless the client meddled. `AskedIsDone`:
a resize that was asked for is made, and a frame that is pending is copied.

## 11. Runs, bounds, symmetry

| Run | Instance | Shows |
|---|---|---|
| `router_requests` | 1 browser, 2 frames, 2 requests, 2 queries, answers from other threads | `NoOrphans`, `RemovedHandlerIsIdle`, `CallbackUsedOnce` |
| `router_processes` | 1 browser, 2 renderer processes, the second after a crash or by a navigation, with messages of the first still to come | `QueriesEndWithProcess`, `KeepsContract`, `HandlerIsReleased`, `EveryQueryIsAnswered` |
| `life` | a browser in a window, off screen, or whose window could not be created | all properties of section 4 |
| `url_requests` | all kinds of requests, 2 parts of the response | the properties of section 5, browser process |
| `render_requests` | all kinds of requests, 2 parts of the response | the properties of section 5, renderer process |
| `job` | responses of up to 3 bytes, read 2 at a time, 2 cookies | all properties of section 6 |
| `cookies` | both kinds of manager, a directory and memory, 3 calls | all properties of section 7 |
| `values` | 3 values, 3 objects, 2 threads | all properties of section 8 |
| `registry` | 3 browsers, 3 views | all properties of section 9 |
| `view` | the 3 ways frames come, 2 sizes, 2 popups | all properties of section 10 |
| `url_twice`, `values_move` | the smallest that show it | see section 13 |

Each module has a type invariant, `TypeOK` (`LifetimeTypeOK` in `BrowserLifetime`, which is proved about
together with `OffScreenView`). There is a theorem for each of them (section 14), so no run repeats it.

Bounds (all are CONSTANTS and all are in guards):

* `MaxRequests` (calls of `cefQuery` per renderer process), `MaxQueries` (queries handed to handlers).
  Two of each give a second request that could be confused with the first, in the same context or in
  another one, and a cancel of one, both or none.
* `MaxEpochs`: two renderer processes, the second reusing the ids of the first, whether that crashed, exited or
  was left by a navigation. It is 1 where two frames are the question; that `NoOrphans`, `CallbackUsedOnce` and
  `RemovedHandlerIsIdle` hold with more processes is proved (section 14).
* `MaxUiTasks`: how many tasks may wait when another thread posts one. With 1, two calls of a callback
  from another thread and the tasks they post follow each other. It is 0 where two processes
  are the question; a call on the UI thread posts its task in every run.
* `MaxAnswers`: how far a persistent query may run ahead of the renderer. It has no end to its answers.
* `MaxCloses`, `MaxPosted` (close messages and posted calls): 2, so that an attempt can overtake another.
* `MaxChunks`: 2 parts, one on its way to the client and the next one still with the fetcher.
* `MaxBytes` and `BufSize`: 3 and 2, so that a response ends in the middle of a buffer, and a handler can
  return more than it was asked for and more than is left. `MaxCookies`: 2, so that a cookie is followed by
  one that is saved, by one that is refused, or by none. `MaxTasks`: 3 tasks may wait when the handler posts
  one, so a `Continue` and a `Cancel` of both callbacks can overtake the notice of the end.
* `MaxCalls`: 3 calls, the creation and two that can overtake each other or change what the other needs.
  `Directory` has one member: with memory there are two places to move between.
* `Address`, `Object`, `Thread`: three values make a chain of a top, a value inside and one inside that, and
  leave addresses to be used again; three objects stand for all of them, or for two owners and a reference.
* `MaxInfos`: questions make an info only while fewer than 2 ids are handed out, `MaxId`: 5 ids. Three
  browsers are an opener, a popup, and another browser they could be confused with.

* `Region` has one member: damage is remembered or forgotten as a whole, and the theorems are for any
  number. `Size`: two sizes, one the layer has and one the client wants. `Popups`: a second popup cancels
  the first. `MaxTasks` of the view: one posted task of each kind waits, so that a resize, a frame and the
  end of a popup can follow each other in any order; `OnPaint` is entered twice at most, a third time would
  be like the second.

The router's runs have one browser: that renderers of two browsers hand out the same ids is covered by the
theorems `NothingOrphaned`, `QueriesEnd` and `RemovedIsIdle`, which are for any number of them.

Symmetry: `registry` permutes browsers and views, `values` and `values_move`
addresses, objects and threads; nothing distinguishes the members of these sets. `registry` numbers its
infos in the order of their creation, which is why ids are not permuted. Handlers are not permuted either:
the instances have one. Runs with liveness properties use no symmetry.

Deadlock is checked in the router's runs, since a router never stops: handlers can always be added and
removed. It is not in the others: a browser that was destroyed, a request that was completed or destroyed, a
manager whose calls were all answered, a registry that was shut down and a view that was deleted have nothing
left to do, and in
`values` a fault ends the behaviour, and two threads can wait for each other's locks (section 13).

## 12. Fairness

* Router (`SystemFairness`): a posted UI task is run, a message received, a callback executed, a process
  that died is reported, a render view becomes ready. Each is a task in the queue of a thread that runs
  its queue. Nothing is assumed of JavaScript, of crashes or of navigation. That handlers complete
  their queries (`HandlersComplete`) is the antecedent of `EveryQueryIsAnswered` and not an assumption of
  `HandlerIsReleased`: a handler is told that nobody waits even if it would never answer.
* Life (`FairLifetimeSpec`): posted tasks and window messages are handled, the page answers and unloads
  (Chromium has a timeout for pages that do not), the prompt is answered.
* URL requests of the browser process (`FairSpec`): the UI and the originating thread run their tasks,
  client callbacks return, the IO thread runs its tasks. The fetcher itself has no fairness: the network
  may hang.
* URL requests of the renderer process: client callbacks return, and a load that was canceled says so, as
  the comment in `Cancel` relies on. A load that was not canceled may hang.
* Resource handlers: the job is started, the IO thread runs its tasks, the cookie store answers. The last is an
  assumption: `cookie_store_proxy.cc:37-41` and `53-55` do not run the callback when the manager has no store,
  and the job then waits for ever (section 13). Nothing is assumed of the handler, which may never continue, nor
  of the owner, which may never read.
* Cookie managers: both threads run their tasks, stores load and flush.
* Off-screen rendering: the UI thread gets to each of its tasks, although a paint may come first (strong
  fairness, because no task runs while the client paints); the client returns from `OnPaint` and does not
  paint from inside it for ever; the time-out of a resize lock fires; a request for a copy is answered while
  the view is showing, since the compositor draws only then.
* Values and the registry are checked for safety only.

## 13. What disagrees

Two are runs that TLC must find violated; `PROJECT.json` quotes the lines:

* `url_twice`: a `Cancel` between the end of the fetch and the task that reports it makes the request
  complete twice, the second time with a NULL request, past a `DCHECK`.
* `values_move`: `TakeFrom` calls `reference_map_.empty()`, which does nothing, where the comment in the
  header says the references are removed. A dictionary with an object for a value inside is stored in
  another one: the object is detached and stays in the map, and the next `GetDictionary` returns it
  although it is not valid.

Others were met while modelling. The properties are stated around them, as narrowly as they hold. These break
what a comment, a header or an assertion of the code says:

* Router, condition C of `cef_message_router.h:87-93`: a query whose context is released by navigation or
  the end of its process is over, and its handler's `OnQueryCanceled` is called. A query that reaches the
  browser between `OnBeforeBrowse` and the commit of a navigation in another process stays pending, unless the
  cancel the old page sends at its end still arrives; so does a query of a process that exits with code 0, which
  is not reported to the client.
* The new process hands out the same ids. A late cancel of the old one ends queries of the new one
  (`cef_message_router.cc:544-578` compare the browser and not the process), whose JavaScript then waits for
  ever, while the query it meant may stay pending; an answer to a query that is still pending goes to the new
  process and ends the request with the same ids there (`misled`).
* `AddHandler(handler, first)` passes `first` as a hint to `std::set::insert`, which does not decide the
  order: handlers are asked in the order of their addresses, whatever `cef_message_router.h:291-292` says of the
  first and the last. No property depends on who is asked first.
* `CloseBrowser(true)` sets the state to ACCEPTED before the client was asked; a close message that comes
  meanwhile closes the window without the `DoClose` that `cef_browser.h:291-293` speaks of.
* URL requests: `OnUploadProgress` (`browser_urlrequest_impl.cc:412-418`) does not look whether
  `NotifyUploadProgressIfNecessary` has told the end of the upload already, so a notice of the timer that comes
  late tells it again, where the comment at 438-440 means to tell it only when no notice comes.
* In a renderer, the rest of one `didReceiveData` goes on after a `Cancel` made inside its first callback has
  completed the request: `OnDownloadProgress` and `OnDownloadData` are called with a NULL request, past
  `DCHECK(url_request_.get())` at `render_urlrequest_impl.cc:187` and `198`. `LateNoticesBounded` says that it is
  no more than that.
* Cookie managers: a call made on the IO thread before the store was created returns without its callback,
  which `cef_cookie.h:119-120` promises for a manager that may be used on any thread (49-50), past the `DCHECK`s
  at `cookie_manager_impl.cc:158` and `205`; a network request comes to `cookie_store_proxy.cc:127` in the same
  way, and the proxy never runs its callback (37-41, 53-55): the request waits for ever (`RequestFindsStore`
  does not hold).
* The hold a paint has on the size ends when the client calls `Invalidate` or `WasHidden` from inside
  `OnPaint`, where the comment says "Don't execute WasResized while the OnPaint callback is pending.":
  `NoResizeDuringPaint` leaves these paints out (`meddled`). The hold of a resize lock (`CefResizeLock`, "Used
  to prevent further resizes while a resize is pending.") ends with the next paint, which releases the same
  flag.
* A capture that failed is tried again only if another frame was asked for while it was in progress, whatever
  the comment "Retry with the same |damage_rect|." says: the `force_frame` that `OnCopyFrameCaptureFailure`
  counts its retries for goes to a task that is posted only if a frame is pending already, where it makes
  no difference. The damage is kept for the next frame (`FrameKept`), which comes when the page changes.
* A renderer's question answered during the shutdown leaves an info behind, which the `DCHECK` at its end finds.
  A popup that opens a window before its own browser is built is denied one, past a `DCHECK`.

Of these the code says nothing:

* Queries dropped by `OnBeforeBrowse` are never answered if the navigation is then stopped
  (`EveryQueryIsAnswered` leaves them out).
* A handler removed from inside `OnQuery` can still take the query (`ReentrantRemoval`, a constant, FALSE in the
  runs and an assumption of the theorem `RemovedIsIdle`).
* A `Cancel` before the fetcher exists is forgotten.
* A directory that cannot be created is remembered all the same, so a second attempt is taken for unchanged.
* An object can be detached between the look whether it is attached and the lock, by another thread, and by
  its own call when a value is moved into itself (`UsesAttached` does not hold). Two threads that store two
  containers in each other hold a lock each and wait for ever.
* `SetSize(0)` of a list that is not empty counts an unsigned index down to `i >= 0`
  (`values_impl.cc:560`), which is always true: the loop goes on after the last value. The model removes
  the values with `Clear`.
* A popup that was allowed and whose opener view is gone when it should be created leaves
  `pending_popup_info_` set: later popups of that browser are denied.
* A frame that the compositor draws after BeginFrame was turned off is neither painted nor remembered by
  `EndPaint` (`missed`); the next frame paints only its own damage.
* `is_scroll_offset_changed_pending_` is never set to true: a task is posted for every frame that scrolls.
* `RenderProcessGone` assigns members after `Destroy` has deleted the view.

## 14. What is proved

For every value of the constants, from the assumptions the modules name:

| Theorems | State | Along |
|---|---|---|
| `TypeCorrect` | `Spec => []TypeOK` of the router | `TypeInv == TypeOK /\ Started`: messages and requests exist only while a process does, which is what makes the epoch in a new query a number of `1 .. MaxEpochs`. `Failures` lists queries in ascending order; that such a list exists for every finite set is `AscendingExists`, by taking a minimal counterexample. |
| `QueriesEnd` | `Spec => []QueriesEndWithProcess` | one lemma per action that adds or keeps queries, on top of `TypeInv` |
| `RemovedIsIdle` | `~ReentrantRemoval => (Spec => []RemovedHandlerIsIdle)` | `Registered`: the handler of a pending query is in `handlers`; the count of the property is then the cardinality of the empty set |
| `NothingOrphaned` | `Spec => []NoOrphans` | `Linked(b)` for each browser `b` whose process lives, with the facts both sides need of each other: ids are handed out once (`IdsKnown`), a request has one message or one pending query (`AskedOnce`), both sides describe it alike (`BothAgree`), nobody waits for what is being canceled (`CancelsMeant`), what was answered for good is not pending (`AnswersMeant`), and the two halves of `NoOrphans`. Queued answers and pending queries of earlier processes are there as well: what counts is what is of the present process (`Own`), and nothing is of one yet to come (`EpochsPast`). One lemma for each thing that can happen between a browser and its process (`Settles`, `Takes`, `Adopts`, `Cancels`, `Asks`, `Withdraws`, `Applies`, `Arrives`) and one for each action that says which of them it is for its own browser and that it is nothing or `Settles` for the others. |
| `AnsweredOnce` | `Spec => []CallbackUsedOnce` | `Counted`: the set of the positions at which an answer that ends the query is posted is empty or has one member, through posting (`AppendPosted`) and running (`TailPosted`) tasks; ids of queries ascend (`IdsAscend`), so nothing is posted for a new one |
| `RouterKeepsContract` | `Spec => KeepsContract`: the router implements `QueryContract` | `Recorded` on top of the invariant of `NothingOrphaned`: what the history variables (`issued`, `received`, `dropped`, `answered`) say of what is there (`HistoryKnown`; each request has one message, of the present process or of an earlier one, which was not received before: `MessagesFresh`; a pending query was received, and not dropped: `QueriesReceived`; what JavaScript waits for was asked and is not answered: `RequestsIssued`; an answer that ends a request of its own process is to a query that has ended and was not dropped: `AnswersKept`), and `SentReceived`: every answer, of whichever process, is to a query that was received, so what misleads is one (`MayMislead`). Every step is a `JsStep` and an `HdStep`, which say when a query may enter a history; `JsMoves` and `HdMoves` turn them into the moves of the contract. |
| `LifetimeTypeCorrect`, `BrowserEndsOnce`, `RefusalStands`, `NoLockOut` | the invariants of `BrowserLifetime` | one inductive invariant `LifetimeInv`: they need each other, and two facts more, that the page lives as long as the browser (`PageLives`) and who has a window (`WindowKnown`). `CloseContentsStep` and `CloseBrowserStep` are proved for the operators once and used for every action that calls them. |
| `RequestTypeCorrect`, `CompletionsBounded` | `TypeOK` and `CompletedTwiceAtMost` of `BrowserURLRequest` | `Nesting` (at most two callbacks are nested, and two only after the fetcher was deleted), `EndsOnce` (at most one of the tasks Fetched and OnComplete is queued, and only when the fetch has ended) and `Phases`, which says for each state of the fetcher how many completions there have been and how many are to come |
| `LateDataIsBounded`, `RequestKeepsContract` | `LateDataBounded`, and that `BrowserURLRequest` implements `URLRequestContract` | a second invariant `JInv` on top of the first: `Parts` (a part of the response is in one place between writer and client), `Stops` (the fetcher is stopped once), `Late` (what may still follow a completion), `Upload` (who told the end of the upload and who may still tell it) and `Answer` (what the client was told, and what it reads as the status). Each action's lemma proves `JInv'` and the step of the contract together. |
| `RenderTypeCorrect`, `RenderCompletesOnce`, `LateNotices`, `RenderKeepsContract` | the invariants of `RenderURLRequest`, and that it implements `URLRequestContract` | `Life` (what the status, the loader and the answer say of each other in each state of the load), `Upload` (what was told of the upload and who is about to tell it) and `Late` (what may still follow a completion). Each action's lemma proves the invariant and the step of the contract together. |
| `JobTypeCorrect`, `CallbacksDetached`, `ReadsAreKnown`, `CanceledIsLeftAlone`, `NothingBeyondLength`, `CanceledForGood` | the invariants and the action property of `ResourceRequestJob` | `Working`, `Ended` and `Told` tie the stage of the job to what the owner was told and to who is canceled; `Length` counts the bytes; `Posted` and `Given` say that tasks name only callbacks the handler was given |
| `RegistryTypeCorrect`, `OneInfoForEachView`, `RendererIdIsRight`, `PopupIsReady`, `LookupFindsOpener`, `ShutdownIsComplete` | all invariants of `BrowserInfoRegistry` | `Numbered` (no id beyond `lastId` is in use), `Homes` and `OneHome` (whose a view is, and that an info matches the views of one browser; a popup that is not built yet has one view), `Infos` (a browser's info is its own and lists its hosted views), `Promises` (what waits for the UI thread), `Looking` (what the IO thread found, or the browser was destroyed) and `Sweeping`, `Answers`, `PopupFindsItsSettings`. `Found` and `Left` are the facts about walking the list that every action uses. |
| `ViewTypeCorrect`, `NoFrameLost`, `OnePopup`, `SizeHeldByPaint` | the invariants and the action property of `OffScreenView` | `Frames`, `Sizes` and `View`, each inductive by itself: with `FrameKept` go that a copy takes all the damage there is (`CopyTakesDamage`) and which way of drawing uses which variables (`DrawnByDevice`), with `NoResizeDuringPaint` that the size is held during a paint nobody meddled with (`PaintHolds`) |
| `CookiesTypeCorrect`, `StoreIsAsAsked`, `CallsTakeTurns` | `TypeOK`, `StoreAsAsked` and `OnlyEarlyGoAstray` of `CookieManager` | `AsAsked` (what the storage says of what was asked for, also while there is no store), `Known` (what is answered, waits for a store or is flushed took effect), `Early` (the early calls are the first ones), `Queues` (methods wait for the IO thread in the order of their calls), `Placed` (a call that has not taken effect waits there, unless it may go astray) and `Created` (the store is there once the creation took effect, or its task is the first in the queue) |
| `NoCallIsLost` | `OncePlaced` of `CookieManager` | `OnceInv`, on top of the invariant above: for each call the places it has (positions in the queues of the two threads and among those that wait for a store, memberships in `asking`, `flushing`, `answered`, `dropped`) sum to one, and to none for a call that was not made. The stores that were replaced are a set of which no size is known, so the invariant also says that it is finite and that each of them still has something to do (else the action drops it: `Busy`). Lemmas say what appending, taking the head and concatenating do to a count; `StoreApart` says how the count over the older stores changes when one of them does; one lemma for each action moves the call it is about from one place to another. |
| `ValuesTypeCorrect`, `NothingDangles`, `ForestIsKnown` | `TypeOK`, `NoDangling` and `TreesAreKnown` of `Values` | `Trees`, over a memory, the objects and the controllers: the memory is a forest (`Forest`), each tree is owned by one controller (`Owned`), an attached object has a value in the tree of its controller, which refers to it for that value (`InItsTree`), the controller has every step above the value of a reference (`DependsOnAll`), and no controller refers to the owner of a tree (`OwnersNotReferred`). `Calls` says what a call that waits relies on: its object has the controller the call saw or none, it has the lock of its controller once it stores, and an object that dies is used by no other call (`DyingAlone`). Without it the invariant is not inductive: `FinishSet` works with what `Begin` saw. The lemmas go by what happens to a memory: values are freed (`PruneTrees`, `RemoveTrees`, `ClearTrees`) or a whole tree is (`DropTrees`), values are added (`ExtendsTrees`, `NewTopTrees`), an object refers to one (`NewReferenceTrees`), a tree moves into another (`MoveTrees`); then one lemma for each action. That `Remove` finds everything below (`DependentFound`) and that what is freed leaves a forest (`FreedIsForest`) follow from the definition of `Below` as the least set that is closed under containment, without induction (`ReachedLeast`, `BelowLeast`). |

The condition `~ReentrantRemoval` is the circumstance section 13 describes: without it the property is false.

Only model-checked: liveness under fairness and the deadlock freedom of the runs that check it, which is a
fact about ENABLED. Both are beyond the prover. Every other property of a passing run is a theorem.

## 15. What is not modelled

Inside the modelled components:

* Router: a renderer process that shows several browsers, or a browser's earlier page again after going back;
  frames in processes of their own; an answer to a page left behind that does not end the request it reaches (a
  success of a persistent query) is not tracked; the map iterators when `OnQueryCanceled` calls the router again (a handler of the model does
  not); the wrap-around of the 32 and 64 bit generators (it needs that many requests; the model's ids do
  not wrap); JavaScript that runs in a context after `OnContextReleased`.
* Browser host: frames, navigation entries, dialogs other than `beforeunload`, DevTools, input; the client
  calling `CloseBrowser` from inside `DoClose`; a browser whose window is a child of the application's
  window in the part where the application keeps its own closing flag; a renderer that crashes while it
  runs a `beforeunload` handler (Chromium decides whether that counts as an answer).
* URL requests: requests that `Start` refuses, `GetAuthCredentials`, and the setting up of the fetcher or
  the loader from the fields of the request; redirects and retries inside them.
* Resource handlers: header and MIME strings, the values of cookies, redirects other than as the end of the
  job.
* Cookie managers: the contents of cookies, the sharing of one request context by several managers, scheme
  handler factories.
* Values: objects a C++ caller owns or may not change (`kOwnerNoDelete`, read-only), positions in lists,
  primitive values; reference counts that drop to zero on another thread.
* Off-screen rendering: pixels, the frames and the sizes of popup widgets, the pace of BeginFrame (its timer,
  `SendBeginFrame`) beyond whether the device is active, scroll offsets, screen information, the cursor and
  input; the members that `RenderProcessGone` writes after the view was deleted.
* Registry: the windowless flag, frames below the main frame, the lookups that change nothing
  (`GetBrowserInfoForFrame`, `GetBrowserInfoForProcess`).

Whole components: those of the plan in section 2, and, for good, printing, DevTools, geolocation and
tracing (adapters around Chromium services, whose state it is), the C glue (generated), V8 wrapping
(memory management inside one thread), the stream, XML and ZIP helpers (sequential adapters), the copies
of the base library, the samples and the tools.
