---------------------- MODULE MessageRouterRendererSide ----------------------
(***************************************************************************)
(* CefMessageRouterRendererSideImpl (libcef_dll/wrapper/                   *)
(* cef_message_router.cc), the instance in the process that shows the page *)
(* of browser b (a process serves one browser once): the ids of            *)
(* the JavaScript contexts that used the router, the pending requests and  *)
(* the callback tasks posted to the render thread.                         *)
(*                                                                         *)
(* A frame has one context at a time; ctx[b][f] is the context_id_ of its  *)
(* V8HandlerImpl and, when not kReservedId, its entry in context_map_.     *)
(***************************************************************************)
EXTENDS RouterTransport

CONSTANTS Frame, MainFrame

ASSUME FrameAssumption == MainFrame \in Frame

VARIABLES
  ctx,         \* ctx[b][f]: the id of the frame's context, or kReservedId
  lastCtx,     \* context_id_generator_
  lastReq,     \* request_id_generator_
  requests,    \* requests[b]: browser_request_info_map_
  jsTasks,     \* jsTasks[b]: Execute*Callback tasks posted to TID_RENDERER
  issued,      \* history: the requests ever made
  answered,    \* history: the requests whose terminal answer was applied
  misled       \* history: the requests ended by another process's answer

rendererSideVars ==
  <<ctx, lastCtx, lastReq, requests, jsTasks, issued, answered, misled>>

RequestInfo == [ctx : Id, req : Id, persistent : BOOLEAN]
RequestUid(b, r) == [browser |-> b, epoch |-> epoch[b], req |-> r]

RendererSideTypeOK ==
  /\ ctx \in [Browser -> [Frame -> Id0]]
  /\ lastCtx \in [Browser -> Id0]
  /\ lastReq \in [Browser -> Id0]
  /\ requests \in [Browser -> SUBSET RequestInfo]
  /\ jsTasks \in [Browser -> Seq(Answer)]
  /\ issued \subseteq [browser : Browser, epoch : Epoch, req : Id]
  /\ answered \subseteq [browser : Browser, epoch : Epoch, req : Id]
  /\ misled \subseteq [browser : Browser, epoch : Epoch, req : Id]

NoContexts == [f \in Frame |-> kReservedId]

RendererSideInit ==
  /\ ctx = [b \in Browser |-> NoContexts]
  /\ lastCtx = [b \in Browser |-> kReservedId]
  /\ lastReq = [b \in Browser |-> kReservedId]
  /\ requests = [b \in Browser |-> {}]
  /\ jsTasks = [b \in Browser |-> <<>>]
  /\ issued = {}
  /\ answered = {}
  /\ misled = {}

(* The process's memory is lost with it, or left behind.                   *)
ForgetProcess(b) ==
  /\ ctx' = [ctx EXCEPT ![b] = NoContexts]
  /\ lastCtx' = [lastCtx EXCEPT ![b] = kReservedId]
  /\ lastReq' = [lastReq EXCEPT ![b] = kReservedId]
  /\ requests' = [requests EXCEPT ![b] = {}]
  /\ jsTasks' = [jsTasks EXCEPT ![b] = <<>>]
  /\ UNCHANGED <<issued, answered, misled>>

-----------------------------------------------------------------------------
(* V8HandlerImpl::GetIDForContext: the id is created on first use.         *)
ContextId(b, f) == IF ctx[b][f] = kReservedId THEN lastCtx[b] + 1 ELSE ctx[b][f]

UseContext(b, f) ==
  /\ proc[b] = "live"
  /\ ContextId(b, f) \in Id
  /\ ctx' = [ctx EXCEPT ![b][f] = ContextId(b, f)]
  /\ lastCtx' = [lastCtx EXCEPT ![b] =
                   IF ctx[b][f] = kReservedId THEN @ + 1 ELSE @]

(* window.cefQuery(): V8HandlerImpl::Execute and SendQuery.                *)
CefQuery(b, f, persistent) ==
  LET c == ContextId(b, f)
      r == lastReq[b] + 1
  IN
  /\ UseContext(b, f)
  /\ r \in Id
  /\ lastReq' = [lastReq EXCEPT ![b] = r]
  /\ requests' = [requests EXCEPT ![b] =
                    @ \cup {[ctx |-> c, req |-> r, persistent |-> persistent]}]
  /\ SendToBrowser(b, <<QueryMsg(c, r, persistent)>>)
  /\ issued' = issued \cup {RequestUid(b, r)}
  /\ UNCHANGED <<jsTasks, answered, misled, proc, epoch, late, toRenderer, queueing, queued>>

(* The requests of context c: request r, or all of them for kReservedId.   *)
PendingRequests(b, c, r) ==
  {i \in requests[b] : i.ctx = c /\ (r = kReservedId \/ i.req = r)}

(* Mutant: the cancel of a whole context is not sent.                      *)
SendCancelOne(b, c, r) ==
  LET P == PendingRequests(b, c, r)
  IN  /\ requests' = [requests EXCEPT ![b] = @ \ P]
      /\ SendToBrowser(b, IF P = {} \/ r = kReservedId THEN <<>> ELSE <<CancelMsg(c, r)>>)

(* SendCancel: forget the requests; tell the browser if there were any.    *)
SendCancel(b, c, r) ==
  LET P == PendingRequests(b, c, r)
  IN  /\ requests' = [requests EXCEPT ![b] = @ \ P]
      /\ SendToBrowser(b, IF P = {} THEN <<>> ELSE <<CancelMsg(c, r)>>)

CancelUnchanged ==
  /\ UNCHANGED <<lastReq, jsTasks, issued, answered, misled>>
  /\ UNCHANGED <<proc, epoch, late, toRenderer, queueing, queued>>

(* window.cefQueryCancel(r).                                               *)
CefQueryCancel(b, f, r) ==
  /\ r \in Id /\ r <= lastReq[b]
  /\ UseContext(b, f)
  /\ SendCancel(b, ContextId(b, f), r)
  /\ CancelUnchanged

(* OnContextReleased.  A frame is detached, and its context released,      *)
(* before the context of the main frame is.                                *)
OnContextReleased(b, f) ==
  /\ proc[b] = "live"
  /\ ctx[b][f] # kReservedId
  /\ f = MainFrame => \A g \in Frame \ {MainFrame} : ctx[b][g] = kReservedId
  /\ ctx' = [ctx EXCEPT ![b][f] = kReservedId]
  /\ SendCancel(b, ctx[b][f], kReservedId)
  /\ UNCHANGED lastCtx
  /\ CancelUnchanged

-----------------------------------------------------------------------------
(* OnProcessMessageReceived: the callback is executed in a task of its own.*)
ReceiveAnswer(b) ==
  /\ proc[b] = "live" /\ toRenderer[b] # <<>>
  /\ Len(jsTasks[b]) < MaxAnswers
  /\ jsTasks' = [jsTasks EXCEPT ![b] = Append(@, Head(toRenderer[b]))]
  /\ toRenderer' = [toRenderer EXCEPT ![b] = Tail(@)]
  /\ UNCHANGED <<ctx, lastCtx, lastReq, requests, issued, answered, misled>>
  /\ UNCHANGED <<proc, epoch, toBrowser, late, queueing, queued>>

(* GetRequestInfo: the request with these ids, if it is still pending.     *)
GetRequestInfo(b, m) == {i \in requests[b] : i.ctx = m.ctx /\ i.req = m.req}

(* The JavaScript callback runs only if the context is still in the map.   *)
GetContextByID(b, c) == {f \in Frame : ctx[b][f] = c}
Told(b, I) == {RequestUid(b, i.req) : i \in {j \in I : GetContextByID(b, j.ctx) # {}}}

(* The ids of an answer do not say which process it is for: one meant for  *)
(* another process ends the request that has the same ids in this one.     *)
EndRequests(b, m, done) ==
  /\ requests' = [requests EXCEPT ![b] = @ \ done]
  /\ IF m.epoch = epoch[b]
     THEN answered' = answered \cup Told(b, done) /\ UNCHANGED misled
     ELSE misled' = misled \cup Told(b, done) /\ UNCHANGED answered

(* ExecuteSuccessCallback keeps a persistent request; an answer to a       *)
(* request no longer pending is ignored.                                   *)
ExecuteSuccessCallback(b) ==
  LET m    == Head(jsTasks[b])
      done == {i \in GetRequestInfo(b, m) : ~i.persistent}
  IN
  /\ jsTasks[b] # <<>> /\ m.success
  /\ EndRequests(b, m, done)
  /\ jsTasks' = [jsTasks EXCEPT ![b] = Tail(@)]
  /\ UNCHANGED <<ctx, lastCtx, lastReq, issued>> /\ UNCHANGED transportVars

(* ExecuteFailureCallback always removes it.                               *)
ExecuteFailureCallback(b) ==
  LET m    == Head(jsTasks[b])
      done == GetRequestInfo(b, m)
  IN
  /\ jsTasks[b] # <<>> /\ ~m.success
  /\ EndRequests(b, m, done)
  /\ jsTasks' = [jsTasks EXCEPT ![b] = Tail(@)]
  /\ UNCHANGED <<ctx, lastCtx, lastReq, issued>> /\ UNCHANGED transportVars
=============================================================================
