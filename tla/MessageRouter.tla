----------------------------- MODULE MessageRouter -----------------------------
(***************************************************************************)
(* The message router whole: the browser side and the renderer sides, the  *)
(* transport between them, and the embedder that calls OnBeforeBrowse,     *)
(* OnRenderProcessTerminated and OnBeforeClose where the documentation of  *)
(* the router (include/wrapper/cef_message_router.h) says it must.         *)
(***************************************************************************)
EXTENDS MessageRouterBrowserSide, MessageRouterRendererSide

VARIABLES
  navigating,    \* navigating[b]: the main frame navigates, not committed
  unreported     \* history: unreported[b]: the processes of b whose end the
                 \* embedder was not told of

navigationVars == <<navigating, unreported>>
vars == <<transportVars, browserSideVars, rendererSideVars, navigationVars>>

Init ==
  /\ TransportInit
  /\ BrowserSideInit
  /\ RendererSideInit
  /\ navigating = [b \in Browser |-> FALSE]
  /\ unreported = [b \in Browser |-> {}]

-----------------------------------------------------------------------------
(* The steps of one side leave the other alone.                            *)
HandlerStep ==
  /\ \/ \E h \in Handler : AddHandler(h) \/ RemoveHandler(h)
     \/ \E B \in {Browser} \cup {{b} : b \in Browser},
           H \in {Handler} \cup {{h} : h \in Handler} :
              CancelPending(B, H) \/ CancelPendingOffUI(B, H)
     \/ \E q \in DOMAIN queries :
           \/ Succeed(q) \/ Fail(q)
           \/ \E op \in {"Success", "Failure"} : AnswerOffUI(q, op)
  /\ UNCHANGED <<rendererSideVars, navigationVars>>

UiTaskStep ==
  /\ RunSuccess \/ RunFailure \/ RunCancelPending \/ OnCallbackSuccess \/ OnCallbackFailure
  /\ UNCHANGED <<rendererSideVars, navigationVars>>

OnProcessMessageReceived(b) ==
  /\ \/ \E taker \in handlers \cup {NoHandler}, removed \in SUBSET handlers :
           ReceiveQuery(b, navigating[b], taker, removed)
     \/ ReceiveCancel(b)
  /\ UNCHANGED <<rendererSideVars, navigationVars>>

(* The same for a message of a process the browser has left.               *)
ReceiveLate(b) ==
  /\ \E e \in Epoch :
        \/ \E taker \in handlers \cup {NoHandler}, removed \in SUBSET handlers :
              ReceiveLateQuery(b, e, taker, removed)
        \/ ReceiveLateCancel(b, e)
  /\ UNCHANGED <<rendererSideVars, navigationVars>>

JavaScriptStep(b) ==
  /\ \E f \in Frame :
        \/ \E persistent \in BOOLEAN : CefQuery(b, f, persistent)
        \/ \E r \in Id : CefQueryCancel(b, f, r)
  /\ UNCHANGED <<browserSideVars, navigationVars>>

ReceiveAnswerStep(b) ==
  ReceiveAnswer(b) /\ UNCHANGED <<browserSideVars, navigationVars>>

ExecuteStep(b) ==
  /\ ExecuteSuccessCallback(b) \/ ExecuteFailureCallback(b)
  /\ UNCHANGED <<browserSideVars, navigationVars>>

-----------------------------------------------------------------------------
(* A main-frame navigation is allowed: CefRequestHandler::OnBeforeBrowse,  *)
(* from which the embedder calls the router's OnBeforeBrowse.              *)
OnBeforeBrowse(b) ==
  /\ proc[b] = "live" /\ ~navigating[b]
  /\ navigating' = [navigating EXCEPT ![b] = TRUE]
  /\ CancelSilently({b})
  /\ UNCHANGED <<handlers, nextQueryId, uiTasks, received, unheard>>
  /\ UNCHANGED <<transportVars, rendererSideVars, unreported>>

(* A context is released; that of the main frame only when a navigation    *)
(* commits in the same process, which ends the navigation.                 *)
ReleaseContext(b, f) ==
  /\ OnContextReleased(b, f)
  /\ navigating' = [navigating EXCEPT ![b] = @ /\ f # MainFrame]
  /\ UNCHANGED <<browserSideVars, unreported>>

(* CefBrowserHostImpl::StopLoad, or a navigation that becomes a download:  *)
(* it ends without a commit and the contexts stay.                         *)
StopLoad(b) ==
  /\ proc[b] = "live" /\ navigating[b]
  /\ navigating' = [navigating EXCEPT ![b] = FALSE]
  /\ UNCHANGED <<transportVars, browserSideVars, rendererSideVars, unreported>>

(* The navigation commits in another renderer process instead.  The frames *)
(* of the page left behind are detached, and its main context is the last  *)
(* to be released there.                                                   *)
LastCancel(b) ==
  LET c == ctx[b][MainFrame]
  IN  IF PendingRequests(b, c, kReservedId) = {} THEN <<>>
      ELSE <<CancelMsg(c, kReservedId)>>

CommitElsewhere(b) ==
  /\ navigating[b]
  /\ \A f \in Frame \ {MainFrame} : ctx[b][f] = kReservedId
  /\ SwapProcess(b, LastCancel(b))
  /\ ForgetProcess(b)
  /\ navigating' = [navigating EXCEPT ![b] = FALSE]
  /\ UNCHANGED <<browserSideVars, unreported>>

LaunchRenderer(b) ==
  /\ LaunchProcess(b)
  /\ UNCHANGED <<browserSideVars, rendererSideVars, navigationVars>>

RenderViewReady(b) ==
  /\ FlushQueue(b)
  /\ UNCHANGED <<browserSideVars, rendererSideVars, navigationVars>>

Crash(b) ==
  /\ ProcessDies(b)
  /\ ForgetProcess(b)
  /\ navigating' = [navigating EXCEPT ![b] = FALSE]
  /\ UNCHANGED <<browserSideVars, unreported>>

(* RenderProcessGone calls CefRequestHandler::OnRenderProcessTerminated,   *)
(* and with it the router, unless the process exited normally.             *)
RenderProcessGone(b, normal) ==
  /\ ChannelError(b)
  /\ IF normal THEN UNCHANGED <<queries, attached, dropped>> ELSE CancelSilently({b})
  /\ unreported' = [unreported EXCEPT ![b] = IF normal THEN @ \cup {epoch[b]} ELSE @]
  /\ UNCHANGED <<handlers, nextQueryId, uiTasks, received, unheard>>
  /\ UNCHANGED <<toRenderer, queued, rendererSideVars, navigating>>

(* DestroyBrowser: CefLifeSpanHandler::OnBeforeClose, and the browser's    *)
(* connection to its renderer process is gone.                             *)
OnBeforeClose(b) ==
  /\ DestroyChannel(b)
  /\ CancelSilently({b})
  /\ ForgetProcess(b)
  /\ navigating' = [navigating EXCEPT ![b] = FALSE]
  /\ UNCHANGED <<handlers, nextQueryId, uiTasks, received, unheard, unreported>>

-----------------------------------------------------------------------------
BrowserStep(b) ==
  \/ OnProcessMessageReceived(b)
  \/ ReceiveLate(b)
  \/ JavaScriptStep(b)
  \/ ReceiveAnswerStep(b)
  \/ ExecuteStep(b)
  \/ OnBeforeBrowse(b)
  \/ \E f \in Frame : ReleaseContext(b, f)
  \/ StopLoad(b)
  \/ CommitElsewhere(b)
  \/ LaunchRenderer(b)
  \/ RenderViewReady(b)
  \/ Crash(b)
  \/ \E normal \in BOOLEAN : RenderProcessGone(b, normal)
  \/ OnBeforeClose(b)

Next == HandlerStep \/ UiTaskStep \/ \E b \in Browser : BrowserStep(b)

Spec == Init /\ [][Next]_vars

-----------------------------------------------------------------------------
TypeOK ==
  /\ TransportTypeOK
  /\ BrowserSideTypeOK
  /\ RendererSideTypeOK
  /\ navigating \in [Browser -> BOOLEAN]
  /\ unreported \in [Browser -> SUBSET Epoch]

(* A pending query belongs to the renderer process its browser has now, or *)
(* came too late for the embedder's OnBeforeBrowse, or its process ended   *)
(* unreported: the documentation promises (condition C) that queries end   *)
(* with the page, its process and the browser, and those that are pending  *)
(* when the embedder is called do.                                         *)
QueriesEndWithProcess ==
  \A q \in DOMAIN queries :
     LET b == queries[q].browser
     IN  /\ proc[b] # "closed"
         /\ \/ proc[b] \in {"live", "dead"} /\ queries[q].epoch = epoch[b]
            \/ queries[q].unguarded
            \/ queries[q].epoch \in unreported[b]

(* The renderer still waits for request r of context c.                    *)
Waiting(b, c, r) == \E i \in requests[b] : i.ctx = c /\ i.req = r

(* Behind position n of the stream to the browser, a cancel of it.         *)
CancelBehind(b, c, r, n) ==
  \E j \in n + 1 .. Len(toBrowser[b]) :
     /\ toBrowser[b][j].kind = "cancel"
     /\ toBrowser[b][j].ctx = c
     /\ toBrowser[b][j].req \in {kReservedId, r}

(* A handler is never left with a query nobody waits for: while the        *)
(* query's renderer lives, either it still waits for the query's request   *)
(* or the cancel that will call OnQueryCanceled is on its way; and the     *)
(* same holds of a query on its way to the browser, the cancel being       *)
(* behind it.  Not so once a message of another process of this browser    *)
(* was taken for one of the request's.                                     *)
NoOrphanQuery ==
  /\ \A q \in DOMAIN queries :
        LET b == queries[q].browser
        IN  proc[b] = "live" /\ queries[q].epoch = epoch[b] =>
              \/ Waiting(b, queries[q].ctx, queries[q].req)
              \/ CancelBehind(b, queries[q].ctx, queries[q].req, 0)
              \/ UidOfQuery(q) \in misled \cup unheard
  /\ \A b \in Browser : \A n \in 1 .. Len(toBrowser[b]) :
        LET m == toBrowser[b][n]
        IN  proc[b] = "live" /\ m.kind = "query" =>
              \/ Waiting(b, m.ctx, m.req)
              \/ CancelBehind(b, m.ctx, m.req, n)
              \/ UidOf(b, m.req) \in misled

(* A request is on its way to the browser, pending there, on its way back  *)
(* answered by its own process's answer, or was canceled by a navigation   *)
(* or another process's cancel that said nothing: JavaScript never waits   *)
(* for an answer that was lost.                                            *)
Asked(b, i) ==
  \E n \in 1 .. Len(toBrowser[b]) :
     toBrowser[b][n].kind = "query" /\ toBrowser[b][n].req = i.req

Pending(b, i) ==
  \E q \in DOMAIN queries : UidOfQuery(q) = UidOf(b, i.req)

Ends(b, m, i) ==
  /\ m.epoch = epoch[b] /\ m.req = i.req /\ m.ctx = i.ctx
  /\ ~m.success \/ ~i.persistent

AnswerOnItsWay(b, i) ==
  \E s \in {jsTasks[b], toRenderer[b], queued[b]} :
     \E n \in 1 .. Len(s) : Ends(b, s[n], i)

NoOrphanRequest ==
  \A b \in Browser : \A i \in requests[b] :
     \/ Asked(b, i) \/ Pending(b, i) \/ AnswerOnItsWay(b, i)
     \/ UidOf(b, i.req) \in dropped

(* So the two sides agree, but for what is on its way: a handler has a     *)
(* query just while JavaScript waits for it.                               *)
NoOrphans == NoOrphanQuery /\ NoOrphanRequest

(* A callback cannot be used up without its answer: a pending query whose  *)
(* callback let go of the router has exactly one terminal answer posted,   *)
(* no other has one, and the callback of a query that ended is detached.   *)
Terminal(t, q) ==
  /\ t.query = q
  /\ \/ t.op = "OnCallbackFailure"
     \/ t.op = "OnCallbackSuccess" /\ ~queries[q].persistent

CallbackUsedOnce ==
  /\ attached \subseteq DOMAIN queries
  /\ \A q \in DOMAIN queries :
        Cardinality({n \in 1 .. Len(uiTasks) : Terminal(uiTasks[n], q)})
           = IF q \in attached THEN 0 ELSE 1

(* RemoveHandler cancels what the handler had pending, and nothing is      *)
(* pending for a handler that is not registered, so that the application   *)
(* may delete it.                                                          *)
RemovedHandlerIsIdle ==
  \A h \in Handler \ handlers : GetPendingCount(Browser, {h}) = 0

-----------------------------------------------------------------------------
(* The router as its users see it: the refinement mapping to QueryContract.*)
JsView(r) ==
  CASE r \in answered -> "told"
    [] r \in misled -> "misled"
    [] \E i \in requests[r.browser] : UidOf(r.browser, i.req) = r -> "waiting"
    [] r \notin issued -> "unused"
    [] OTHER -> "gone"

HdView(r) ==
  CASE \E q \in DOMAIN queries : UidOfQuery(q) = r -> "pending"
    [] r \in dropped -> "dropped"
    [] r \notin received -> "unseen"
    [] OTHER -> "ended"

Contract == INSTANCE QueryContract WITH
  Query <- Uid, js <- [r \in Uid |-> JsView(r)], hd <- [r \in Uid |-> HdView(r)]

(* The router implements the contract of a query.                          *)
KeepsContract == Contract!Spec

-----------------------------------------------------------------------------
(* What the threads and processes guarantee: a task posted or a message    *)
(* sent is eventually handled, a process that died eventually reported.    *)
SystemFairness ==
  /\ WF_vars(UiTaskStep)
  /\ \A b \in Browser :
        /\ WF_vars(RenderViewReady(b))
        /\ WF_vars(OnProcessMessageReceived(b))
        /\ WF_vars(ReceiveAnswerStep(b))
        /\ WF_vars(ExecuteStep(b))
        /\ WF_vars(RenderProcessGone(b, FALSE))

SystemSpec == Spec /\ SystemFairness

(* The handler's side of the bargain: having returned true from OnQuery it *)
(* completes the query, with Failure if it is persistent.                  *)
Complete(q) ==
  /\ q \in DOMAIN queries
  /\ Fail(q) \/ (~queries[q].persistent /\ Succeed(q))
  /\ UNCHANGED <<rendererSideVars, navigationVars>>

HandlersComplete == \A q \in QueryId : WF_vars(Complete(q))

(* A query whose JavaScript side is gone does not stay pending: its        *)
(* handler is told, whether or not it would ever have answered, unless the *)
(* browser left the query's process with the query, or the cancel ended a  *)
(* query of another process instead.                                       *)
Abandoned(r) == r.epoch # epoch[r.browser] \/ proc[r.browser] = "absent"

HandlerIsReleased ==
  \A r \in Uid :
     JsView(r) = "gone" /\ HdView(r) = "pending"
        ~> HdView(r) # "pending" \/ Abandoned(r) \/ r \in unheard

(* If handlers complete their queries, JavaScript does not wait for ever:  *)
(* it is told, loses interest, or the query was dropped by a navigation or *)
(* by another process's cancel.                                            *)
EveryQueryIsAnswered ==
  HandlersComplete =>
     \A r \in Uid : JsView(r) = "waiting" ~> JsView(r) # "waiting" \/ r \in dropped
=============================================================================
