----------------------- MODULE MessageRouterBrowserSide -----------------------
(***************************************************************************)
(* CefMessageRouterBrowserSideImpl and its CallbackImpl                    *)
(* (libcef_dll/wrapper/cef_message_router.cc): the handlers, the pending   *)
(* queries, the callbacks the handlers hold and the tasks posted to the UI *)
(* thread.  Every action below is one UI-thread task, except the two that  *)
(* model a call from another thread, which only posts.                     *)
(*                                                                         *)
(* Handlers are application code: which of them takes a query, and when it *)
(* answers, is a nondeterministic choice.                                  *)
(***************************************************************************)
EXTENDS RouterTransport

CONSTANTS
  Handler,            \* the application's Handler objects
  NoHandler,          \* no handler took the query
  ReentrantRemoval,   \* may OnQuery call RemoveHandler?
  MaxQueries,         \* bound: queries handed to handlers
  MaxUiTasks          \* bound: tasks waiting when another thread posts one

ASSUME HandlerAssumption ==
  /\ NoHandler \notin Handler
  /\ ReentrantRemoval \in BOOLEAN
  /\ MaxQueries \in Nat \ {0} /\ MaxUiTasks \in Nat

VARIABLES
  handlers,     \* handler_set_
  queries,      \* browser_query_info_map_: query id -> QueryInfo
  nextQueryId,  \* the id query_id_generator_ returns next
  attached,     \* the queries whose callback still has its router_
  uiTasks,      \* tasks posted to the UI thread by the router
  received,     \* history: the requests whose query message was handled
  dropped,      \* history: the requests whose query was canceled without
                \* telling a renderer that may still be waiting
  unheard       \* history: the requests whose cancel hit another's query

browserSideVars ==
  <<handlers, queries, nextQueryId, attached, uiTasks, received, dropped, unheard>>

QueryId == 1 .. MaxQueries
(* |epoch| and |unguarded| are not in the code's QueryInfo.  A query is     *)
(* unguarded when it came after the OnBeforeBrowse of the navigation that  *)
(* may leave its page.                                                     *)
QueryInfo == [browser : Browser, epoch : Epoch, ctx : Id, req : Id,
              persistent : BOOLEAN, handler : Handler, unguarded : BOOLEAN]

(* A request of the renderer, named for all time: ids restart with the     *)
(* process, so its number is part of the name.                             *)
Uid == [browser : Browser, epoch : Epoch, req : Id]
UidOf(b, r) == [browser |-> b, epoch |-> epoch[b], req |-> r]
UidOfQuery(q) == [browser |-> queries[q].browser, epoch |-> queries[q].epoch,
                  req |-> queries[q].req]

UiTask == [op : {"Success", "Failure", "OnCallbackSuccess",
                 "OnCallbackFailure", "CancelPendingFor"},
           query : QueryId \cup {kReservedId},
           browsers : SUBSET Browser, handlers : SUBSET Handler]
QueryTask(o, q) == [op |-> o, query |-> q, browsers |-> {}, handlers |-> {}]
CancelTask(B, H) == [op |-> "CancelPendingFor", query |-> kReservedId,
                     browsers |-> B, handlers |-> H]

BrowserSideTypeOK ==
  /\ handlers \subseteq Handler
  /\ DOMAIN queries \subseteq QueryId
  /\ queries \in [DOMAIN queries -> QueryInfo]
  /\ nextQueryId \in 1 .. (MaxQueries + 1)
  /\ attached \subseteq QueryId
  /\ uiTasks \in Seq(UiTask)
  /\ received \subseteq Uid
  /\ dropped \subseteq Uid
  /\ unheard \subseteq Uid

BrowserSideInit ==
  /\ handlers = {}
  /\ queries = [q \in {} |-> 0]
  /\ nextQueryId = 1
  /\ attached = {}
  /\ uiTasks = <<>>
  /\ received = {}
  /\ dropped = {}
  /\ unheard = {}

-----------------------------------------------------------------------------
(* The pending queries of the given browsers and handlers.  A NULL browser *)
(* or handler in the code is here the whole set Browser or Handler.        *)
Matching(B, H) ==
  {q \in DOMAIN queries : queries[q].browser \in B /\ queries[q].handler \in H}

GetPendingCount(B, H) == Cardinality(Matching(B, H))

(* The map is visited in the order of the query ids.                       *)
Ascending(Q) ==
  CHOOSE s \in [1 .. Cardinality(Q) -> Q] :
     \A i, j \in 1 .. Cardinality(Q) : i < j => s[i] < s[j]

(* SendQuerySuccess / SendQueryFailure for a pending query.                *)
AnswerFor(q, success) ==
  AnswerMsg(queries[q].epoch, queries[q].ctx, queries[q].req, success)
QueryOf(b, q) == queries[q].browser = b

(* CancelQuery with |notify_renderer|: an onFailure message per query.     *)
Failures(Q) ==
  [b \in Browser |-> LET order == Ascending({q \in Q : QueryOf(b, q)})
                     IN  [i \in DOMAIN order |-> AnswerFor(order[i], FALSE)]]

Without(Q) == [q \in DOMAIN queries \ Q |-> queries[q]]

(* CancelQuery for every query of Q: the QueryInfo leaves the map, the     *)
(* handler's OnQueryCanceled runs and the callback is detached.            *)
CancelQueries(Q) ==
  /\ queries' = Without(Q)
  /\ attached' = attached \ Q

(* Mutant: the silent cancel forgets to visit the map.                     *)
CancelSilentlyForgotten(B) == UNCHANGED <<queries, attached, dropped>>

(* CancelPendingFor on the UI thread, without and with notification.       *)
CancelSilently(B) ==
  LET Q == Matching(B, Handler)
  IN  /\ CancelQueries(Q)
      /\ dropped' = dropped \cup {UidOfQuery(q) : q \in Q}

CancelPendingFor(B, H) ==
  /\ CancelQueries(Matching(B, H))
  /\ SendAll(Failures(Matching(B, H)))
  /\ UNCHANGED dropped

-----------------------------------------------------------------------------
(* AddHandler.  |first| is the position hint of std::set::insert, which    *)
(* never changes where the element goes.                                   *)
AddHandler(h) ==
  /\ h \notin handlers
  /\ handlers' = handlers \cup {h}
  /\ UNCHANGED <<queries, nextQueryId, attached, uiTasks, received, dropped, unheard>>
  /\ UNCHANGED transportVars

(* Mutant: RemoveHandler leaves the handler's queries pending.             *)
RemoveHandlerOnly(h) ==
  /\ h \in handlers
  /\ handlers' = handlers \ {h}
  /\ UNCHANGED <<queries, attached, dropped, unheard, nextQueryId, uiTasks, received>>
  /\ UNCHANGED transportVars

RemoveHandler(h) ==
  /\ h \in handlers
  /\ handlers' = handlers \ {h}
  /\ CancelPendingFor(Browser, {h})
  /\ UNCHANGED <<nextQueryId, uiTasks, received, unheard>>
  /\ UNCHANGED <<proc, epoch, toBrowser, late, queueing>>

(* CancelPending called on the UI thread, and on any other one.            *)
CancelPending(B, H) ==
  /\ CancelPendingFor(B, H)
  /\ UNCHANGED <<handlers, nextQueryId, uiTasks, received, unheard>>
  /\ UNCHANGED <<proc, epoch, toBrowser, late, queueing>>

CancelPendingOffUI(B, H) ==
  /\ Len(uiTasks) < MaxUiTasks
  /\ uiTasks' = Append(uiTasks, CancelTask(B, H))
  /\ UNCHANGED <<handlers, queries, nextQueryId, attached, received, dropped, unheard>>
  /\ UNCHANGED transportVars

-----------------------------------------------------------------------------
(* Mutant: an unhandled query is not answered.                             *)
CancelUnhandledQuietly(e, m) == <<>>

(* CancelUnhandledQuery: the onFailure(-1) of a query nobody takes.        *)
CancelUnhandledQuery(e, m) == <<AnswerMsg(e, m.ctx, m.req, FALSE)>>

(* The query branch of OnProcessMessageReceived, for message m of b's      *)
(* process e.  A copy of handler_set_ is asked in order until |taker|      *)
(* returns true; the handlers asked may call RemoveHandler on those in     *)
(* |removed|.  A query nobody takes is failed at once.                     *)
TakeQuery(b, e, m, unguarded, taker, removed) ==
  LET gone == Matching(Browser, removed)
      info == [browser |-> b, epoch |-> e, ctx |-> m.ctx, req |-> m.req,
               persistent |-> m.persistent, handler |-> taker,
               unguarded |-> unguarded]
      fail == Failures(gone)
  IN
  /\ handlers # {} => nextQueryId <= MaxQueries
  /\ taker \in handlers \cup {NoHandler}
  /\ removed \subseteq handlers /\ (removed # {} => ReentrantRemoval)
  /\ handlers' = handlers \ removed
  /\ nextQueryId' = IF handlers = {} THEN nextQueryId ELSE nextQueryId + 1
  /\ IF taker \in handlers
     THEN /\ queries' = [q \in (DOMAIN queries \ gone) \cup {nextQueryId} |->
                           IF q = nextQueryId THEN info ELSE queries[q]]
          /\ attached' = (attached \ gone) \cup {nextQueryId}
          /\ SendAll(fail)
     ELSE /\ CancelQueries(gone)
          /\ SendAll([fail EXCEPT ![b] = @ \o CancelUnhandledQuery(e, m)])
  /\ received' = received \cup {[browser |-> b, epoch |-> e, req |-> m.req]}
  /\ UNCHANGED <<uiTasks, dropped, unheard, proc, epoch, queueing>>

ReceiveQuery(b, unguarded, taker, removed) ==
  /\ Arrived(b, "query")
  /\ TakeQuery(b, epoch[b], Head(toBrowser[b]), unguarded, taker, removed)
  /\ toBrowser' = [toBrowser EXCEPT ![b] = Tail(@)]
  /\ UNCHANGED late

ReceiveLateQuery(b, e, taker, removed) ==
  /\ LateArrived(b, e, "query")
  /\ TakeQuery(b, e, Head(late[b][e]), TRUE, taker, removed)
  /\ late' = [late EXCEPT ![b][e] = Tail(@)]
  /\ UNCHANGED toBrowser

(* Mutant: kReservedId is taken for a request id.                          *)
CanceledLiterally(b, c, r) ==
  {q \in DOMAIN queries : queries[q].browser = b /\ queries[q].ctx = c /\ queries[q].req = r}

(* The cancel branch, CancelPendingRequest: one request of a context, or   *)
(* every one when the id is kReservedId.                                   *)
Canceled(b, c, r) ==
  {q \in DOMAIN queries : /\ queries[q].browser = b
                          /\ queries[q].ctx = c
                          /\ r = kReservedId \/ queries[q].req = r}

(* With a request id the visitor stops after the first match.  The browser *)
(* is compared, its process is not: a cancel sent by process e may end     *)
(* queries of another one, in place of its own.                            *)
CancelPendingRequest(b, e, c, r) ==
  LET Q   == Canceled(b, c, r)
      hit == IF r = kReservedId THEN Q ELSE {q \in Q : \A p \in Q : q <= p}
  IN
  /\ CancelQueries(hit)
  /\ dropped' = dropped \cup {UidOfQuery(q) : q \in {p \in hit : queries[p].epoch # e}}
  /\ unheard' = unheard \cup
                  {UidOfQuery(q) : q \in {p \in Q \ hit : queries[p].epoch = e}}
  /\ UNCHANGED <<handlers, nextQueryId, uiTasks, received>>
  /\ UNCHANGED <<proc, epoch, toRenderer, queueing, queued>>

ReceiveCancel(b) ==
  LET m == Head(toBrowser[b])
  IN
  /\ Arrived(b, "cancel")
  /\ CancelPendingRequest(b, epoch[b], m.ctx, m.req)
  /\ toBrowser' = [toBrowser EXCEPT ![b] = Tail(@)]
  /\ UNCHANGED late

ReceiveLateCancel(b, e) ==
  LET m == Head(late[b][e])
  IN
  /\ LateArrived(b, e, "cancel")
  /\ CancelPendingRequest(b, e, m.ctx, m.req)
  /\ late' = [late EXCEPT ![b][e] = Tail(@)]
  /\ UNCHANGED toBrowser

-----------------------------------------------------------------------------
(* Mutant: a callback can be used again after a success.                   *)
CallbackSuccessAgain(q, rest) ==
  /\ uiTasks' = IF q \in attached THEN Append(rest, QueryTask("OnCallbackSuccess", q)) ELSE rest
  /\ UNCHANGED attached

(* CallbackImpl::Success and ::Failure on the UI thread: the answer is     *)
(* posted, and the callback lets go of the router unless it is a success   *)
(* of a persistent query.  A detached callback does nothing.               *)
CallbackSuccess(q, rest) ==
  IF q \in attached
  THEN /\ uiTasks' = Append(rest, QueryTask("OnCallbackSuccess", q))
       /\ attached' = IF queries[q].persistent THEN attached ELSE attached \ {q}
  ELSE uiTasks' = rest /\ UNCHANGED attached

CallbackFailure(q, rest) ==
  IF q \in attached
  THEN /\ uiTasks' = Append(rest, QueryTask("OnCallbackFailure", q))
       /\ attached' = attached \ {q}
  ELSE uiTasks' = rest /\ UNCHANGED attached

CallbackUnchanged ==
  /\ UNCHANGED <<handlers, queries, nextQueryId, received, dropped, unheard>>
  /\ UNCHANGED transportVars

(* Bounds the answers of a persistent query, which has no end to them: one *)
(* is volunteered when the tasks before it ran and the renderer keeps up.  *)
RoomFor(q) ==
  LET b == queries[q].browser
  IN  Len(toRenderer[b]) + Len(queued[b]) < MaxAnswers

(* The handler answers on the UI thread ...                                *)
Succeed(q) ==
  /\ q \in attached
  /\ queries[q].persistent => uiTasks = <<>> /\ RoomFor(q)
  /\ CallbackSuccess(q, uiTasks)
  /\ CallbackUnchanged

Fail(q) ==
  /\ q \in attached
  /\ CallbackFailure(q, uiTasks)
  /\ CallbackUnchanged

(* ... or on a thread of its own, for a query it was not told is canceled. *)
AnswerOffUI(q, op) ==
  /\ q \in DOMAIN queries
  /\ op \in {"Success", "Failure"}
  /\ Len(uiTasks) < MaxUiTasks /\ RoomFor(q)
  /\ uiTasks' = Append(uiTasks, QueryTask(op, q))
  /\ UNCHANGED attached
  /\ CallbackUnchanged

-----------------------------------------------------------------------------
(* The first posted task runs: a call from another thread ...              *)
NextTask(op) == uiTasks # <<>> /\ Head(uiTasks).op = op

RunSuccess ==
  /\ NextTask("Success")
  /\ CallbackSuccess(Head(uiTasks).query, Tail(uiTasks))
  /\ CallbackUnchanged

RunFailure ==
  /\ NextTask("Failure")
  /\ CallbackFailure(Head(uiTasks).query, Tail(uiTasks))
  /\ CallbackUnchanged

RunCancelPending ==
  /\ NextTask("CancelPendingFor")
  /\ CancelPendingFor(Head(uiTasks).browsers, Head(uiTasks).handlers)
  /\ uiTasks' = Tail(uiTasks)
  /\ UNCHANGED <<handlers, nextQueryId, received, unheard>>
  /\ UNCHANGED <<proc, epoch, toBrowser, late, queueing>>

(* Mutant: a failure, too, keeps a persistent query.                       *)
DeliverKeeping(q, success) ==
  IF q \in DOMAIN queries
  THEN /\ SendAll(To(queries[q].browser, <<AnswerFor(q, success)>>))
       /\ queries' = IF queries[q].persistent THEN queries ELSE Without({q})
  ELSE UNCHANGED <<queries, queued, toRenderer>>

(* ... or OnCallbackSuccess / OnCallbackFailure: the query may be gone by  *)
(* now (GetQueryInfo finds nothing); otherwise it is answered, and removed *)
(* unless this is a success of a persistent query.                         *)
Deliver(q, success) ==
  IF q \in DOMAIN queries
  THEN /\ SendAll(To(queries[q].browser, <<AnswerFor(q, success)>>))
       /\ queries' = IF success /\ queries[q].persistent THEN queries ELSE Without({q})
  ELSE UNCHANGED <<queries, queued, toRenderer>>

DeliverUnchanged ==
  /\ uiTasks' = Tail(uiTasks)
  /\ UNCHANGED <<handlers, nextQueryId, attached, received, dropped, unheard>>
  /\ UNCHANGED <<proc, epoch, toBrowser, late, queueing>>

OnCallbackSuccess ==
  /\ NextTask("OnCallbackSuccess")
  /\ Deliver(Head(uiTasks).query, TRUE)
  /\ DeliverUnchanged

OnCallbackFailure ==
  /\ NextTask("OnCallbackFailure")
  /\ Deliver(Head(uiTasks).query, FALSE)
  /\ DeliverUnchanged
=============================================================================
