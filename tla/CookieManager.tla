---------------------------- MODULE CookieManager ----------------------------
(***************************************************************************)
(* A CefCookieManager (libcef/browser/cookie_manager_impl.cc): one that    *)
(* owns its cookie store, or one that works on the store of a request      *)
(* context (request_context_impl.cc, url_request_context_getter_impl.cc).  *)
(* Its methods are called on any thread and work on the IO thread; the     *)
(* context it may need is created on the UI thread.  Network requests of   *)
(* the browsers whose handler returns the manager use its store through    *)
(* cookie_store_proxy.cc, on the IO thread.                                *)
(*                                                                         *)
(* Calls are numbered in the order in which they are made; the first one   *)
(* creates the manager.                                                    *)
(***************************************************************************)
EXTENDS Integers, Sequences, FiniteSets

CONSTANTS
  Directory,    \* directories cookies can be stored in
  MaxCalls      \* bound: calls

ASSUME CallsAssumption == MaxCalls \in Nat
ASSUME DirectoryAssumption == {"memory", "none"} \cap Directory = {}

VARIABLES
  context,      \* is the manager one of a request context? It never changes
  ready,        \* request_context_impl_ of the CefRequestContextImpl is set
  impl,         \* request_context_impl_ of the manager is set
  storage,      \* the stores and what is known about the current one
  calls,        \* the calls made so far
  io, ui,       \* tasks of the IO and the UI thread
  flushing,     \* calls of FlushStore the store works on
  answered,     \* calls that were answered
  applied,      \* history: calls that took effect
  dropped,      \* history: calls that were given up
  overtaken,    \* history: calls a later one of the same thread took effect before
  wanted        \* history: the directory and the schemes asked for last

queues == <<io, ui>>
history == <<applied, dropped, overtaken, wanted>>
vars == <<context, ready, impl, storage, calls, queues, flushing, answered, history>>

Place == Directory \cup {"memory"}
Schemes == {"none", "default", "custom"}

(* What is called: SetStoragePath, SetSupportedSchemes, SetCookie or       *)
(* DeleteCookies, VisitAllCookies or VisitUrlCookies, FlushStore; a        *)
(* network request that needs its cookies.                                 *)
Operation ==
  [op : {"create", "path"}, arg : Place] \cup
  [op : {"schemes"}, arg : {"none", "custom"}] \cup
  [op : {"change", "visit", "flush", "request"}, arg : {"none"}]

Caller == {"UI", "IO", "other"}

(* Was it called before the creation of the manager was reported?          *)
Call == [by : Caller, what : Operation, early : BOOLEAN]

Id == 1 .. MaxCalls

(* A method that starts again on the IO thread; one whose context is       *)
(* there; a callback.                                                      *)
Task == [kind : {"Method", "WithContext", "Complete"}, id : Id]

(* A cookie store: where it keeps the cookies, its schemes, whether the    *)
(* cookies on disk were loaded, and the calls that wait for them: those    *)
(* that are answered right there, and those whose callbacks are posted.    *)
Store == [place : Place, schemes : {"default", "custom"}, loaded : BOOLEAN,
          asking : SUBSET Id, waiting : Seq(Id)]

NoStore == [place |-> "none", schemes |-> "default", loaded |-> TRUE,
            asking |-> {}, waiting |-> <<>>]

(* cookie_monster_: the store that new calls use, and older ones, which    *)
(* finish theirs.                                                          *)
HasStore(st) == st.store.place # "none"
Stores(st) == {s \in st.older \cup {st.store} : s # NoStore}

TypeOK ==
  /\ context \in BOOLEAN /\ ready \in BOOLEAN /\ impl \in BOOLEAN
  /\ storage \in [path : Place, schemes : Schemes, store : Store \cup {NoStore},
                  older : SUBSET Store]
  /\ HasStore(storage) => storage.schemes # "none"
  /\ calls \in Seq(Call) /\ Len(calls) <= MaxCalls
  /\ io \in Seq(Task)
  /\ ui \in Seq(Id)
  /\ flushing \subseteq Id
  /\ answered \subseteq Id /\ applied \subseteq Id
  /\ dropped \subseteq Id /\ overtaken \subseteq Id
  /\ wanted \in [path : Place, schemes : {"default", "custom"}]

Init ==
  /\ context \in BOOLEAN
  /\ ready \in BOOLEAN /\ (ready => context)
  /\ impl = FALSE
  /\ storage = [path |-> "memory", schemes |-> "none", store |-> NoStore, older |-> {}]
  /\ calls = <<>>
  /\ io = <<>> /\ ui = <<>>
  /\ flushing = {} /\ answered = {} /\ applied = {} /\ dropped = {} /\ overtaken = {}
  /\ wanted \in [path : Place, schemes : {"default"}]
  /\ ~context => wanted.path = "memory"

-----------------------------------------------------------------------------
Effective(s) == IF s = "none" THEN "default" ELSE s

(* SetSupportedSchemes of a manager with a store.                          *)
WithSchemes(st, s) ==
  [st EXCEPT !.schemes = Effective(s), !.store.schemes = Effective(s)]

(* Mutant: a new store keeps the schemes it is created with.               *)
SchemesNotRestored(st) == st

(* "Restore the previously supported schemes."                             *)
Restored(st) == WithSchemes(st, st.schemes)

(* A directory that cannot be created leaves its store in memory, but is   *)
(* remembered.                                                             *)
NewStore(place) ==
  [place |-> place, schemes |-> "default", loaded |-> place = "memory",
   asking |-> {}, waiting |-> <<>>]

Busy(store) == store.asking # {} \/ store.waiting # <<>>

(* SetStoragePath: "The path has not changed so don't do anything."        *)
WithPath(st, dir) ==
  IF HasStore(st) /\ st.path = dir
  THEN {st}
  ELSE {Restored([st EXCEPT !.path = dir, !.store = NewStore(place),
                            !.older = @ \cup {s \in {st.store} : Busy(s)}])
          : place \in {dir, "memory"}}

(* GetURLRequestContext creates the context, with a store at its cache     *)
(* path, when it is needed first.                                          *)
WithURLRequestContext == IF HasStore(storage) THEN {storage} ELSE WithPath(storage, wanted.path)

-----------------------------------------------------------------------------
(* Mutant: the callback is forgotten.                                      *)
NoCompletion(id, rest) == io' = rest /\ UNCHANGED answered

(* RunAsyncCompletionOnIOThread: "always execute the callback              *)
(* asynchronously".                                                        *)
RunAsyncCompletion(id, rest) ==
  /\ io' = Append(rest, [kind |-> "Complete", id |-> id])
  /\ UNCHANGED answered

(* The store has done what was called: a visitor is called and a request   *)
(* gets its cookies right there, other callbacks are posted.               *)
AtOnce(c) == c.what.op \in {"visit", "request"}

StoreAnswers(id, c, rest) ==
  IF AtOnce(c)
  THEN answered' = answered \cup {id} /\ io' = rest
  ELSE RunAsyncCompletion(id, rest)

(* The current store is asked for or told of cookies; a store that is not  *)
(* loaded yet keeps the call.                                              *)
AskStore(id, c, st, rest) ==
  IF st.store.loaded
  THEN storage' = st /\ StoreAnswers(id, c, rest)
  ELSE /\ storage' = IF AtOnce(c) THEN [st EXCEPT !.store.asking = @ \cup {id}]
                                  ELSE [st EXCEPT !.store.waiting = Append(@, id)]
       /\ io' = rest /\ UNCHANGED answered

(* The call |id| takes effect on the storage |st|, while the tasks |rest|  *)
(* wait.                                                                   *)
Apply(id, c, st, rest) ==
  /\ applied' = applied \cup {id}
  /\ overtaken' = overtaken \cup
       {k \in 1 .. id - 1 : calls[k].by = c.by /\ k \notin applied \cup dropped}
  /\ UNCHANGED dropped
  /\ \/ /\ c.what.op = "create" /\ context
        /\ storage' = st /\ UNCHANGED wanted /\ flushing' = flushing
        /\ RunAsyncCompletion(id, rest)
     \/ /\ c.what.op = "path" \/ (c.what.op = "create" /\ ~context)
        /\ storage' \in WithPath(st, c.what.arg)
        /\ wanted' = [wanted EXCEPT !.path = c.what.arg] /\ flushing' = flushing
        /\ RunAsyncCompletion(id, rest)
     \/ /\ c.what.op = "schemes"
        /\ storage' = WithSchemes(st, c.what.arg)
        /\ wanted' = [wanted EXCEPT !.schemes = Effective(c.what.arg)] /\ flushing' = flushing
        /\ RunAsyncCompletion(id, rest)
     \/ /\ c.what.op \in {"change", "visit", "request"}
        /\ UNCHANGED wanted /\ flushing' = flushing
        /\ AskStore(id, c, st, rest)
     \/ /\ c.what.op = "flush"
        /\ storage' = st /\ UNCHANGED <<wanted, answered>> /\ flushing' = flushing \cup {id}
        /\ io' = rest

(* The manager has no store (yet), and nobody will hear of the call.       *)
Drop(id, rest) ==
  /\ dropped' = dropped \cup {id}
  /\ io' = rest
  /\ UNCHANGED <<storage, flushing, answered, applied, overtaken, wanted>>

(* A method on the IO thread: RunMethodWithContext for one of a context,   *)
(* which runs it now or after the UI thread has seen to the context.       *)
Method(id, c, rest) ==
  \/ /\ context
     /\ impl \/ ready
     /\ \E st \in WithURLRequestContext : Apply(id, c, st, rest)
     /\ ui' = ui
  \/ /\ context /\ ~impl /\ ~ready
     /\ ui' = Append(ui, id)
     /\ io' = rest
     /\ UNCHANGED <<storage, flushing, answered, history>>
  \/ /\ ~context
     /\ ui' = ui
     /\ IF HasStore(storage) \/ c.what.op \in {"create", "path"}
        THEN Apply(id, c, storage, rest)
        ELSE Drop(id, rest)

-----------------------------------------------------------------------------
NextId == Len(calls) + 1
Called(t, what) == [by |-> t, what |-> what, early |-> 1 \notin answered]
NewCall(t, what) == Len(calls) < MaxCalls /\ calls' = Append(calls, Called(t, what))

(* CreateManager: Initialize without a context is SetStoragePath.          *)
CreateManager(t, dir) ==
  LET what == [op |-> "create", arg |-> dir] IN
  /\ calls = <<>> /\ ~context
  /\ NewCall(t, what)
  /\ IF t = "IO"
     THEN Method(1, Called(t, what), io)
     ELSE /\ io' = Append(io, [kind |-> "Method", id |-> 1])
          /\ UNCHANGED <<storage, ui, flushing, answered, history>>
  /\ UNCHANGED <<context, ready, impl>>

(* InitWithContext, after which the manager needs nobody else.             *)
InitWithContext(c, rest) ==
  /\ impl' = TRUE
  /\ \E st \in WithURLRequestContext : Apply(1, c, st, rest)

(* GetDefaultCookieManager: Initialize and GetRequestContextImpl, which    *)
(* posts to the IO thread, at once or by way of the UI thread.             *)
GetDefaultCookieManager(t) ==
  LET what == [op |-> "create", arg |-> "memory"] IN
  /\ calls = <<>> /\ context
  /\ NewCall(t, what)
  /\ \/ /\ ready /\ t = "IO"
        /\ InitWithContext(Called(t, what), io)
        /\ UNCHANGED <<ready, ui>>
     \/ /\ IF t = "UI" THEN ready' = TRUE ELSE ready /\ UNCHANGED ready
        /\ t # "IO"
        /\ io' = Append(io, [kind |-> "WithContext", id |-> 1])
        /\ UNCHANGED <<impl, storage, ui, flushing, answered, history>>
     \/ /\ ~ready /\ t # "UI"
        /\ ui' = Append(ui, 1)
        /\ UNCHANGED <<ready, impl, storage, io, flushing, answered, history>>
  /\ UNCHANGED context

(* Mutant: SetStoragePath works on the thread it is called on.             *)
HopsUnlessPath(t, what) == t # "IO" /\ what.op # "path"

(* Every method starts again on the IO thread.                             *)
Hops(t, what) == t # "IO"

(* A method is called; the UI thread calls it as another one does.         *)
CallMethod(t, what) ==
  /\ calls # <<>> /\ what.op \in {"path", "schemes", "change", "visit", "flush"}
  /\ NewCall(t, what)
  /\ IF Hops(t, what)
     THEN /\ io' = Append(io, [kind |-> "Method", id |-> NextId])
          /\ UNCHANGED <<storage, ui, flushing, answered, history>>
     ELSE Method(NextId, Called(t, what), io)
  /\ UNCHANGED <<context, ready, impl>>

(* GetExistingCookieMonster: the store, if there is one already.           *)
HasExistingStore == IF context THEN impl ELSE HasStore(storage)

(* A network request asks CefCookieStoreProxy for its cookies; without a   *)
(* store it is told nothing.                                               *)
RequestCookies ==
  LET what == [op |-> "request", arg |-> "none"] IN
  /\ calls # <<>>
  /\ NewCall("IO", what)
  /\ IF HasExistingStore
     THEN Apply(NextId, Called("IO", what), storage, io)
     ELSE Drop(NextId, io)
  /\ UNCHANGED <<context, ready, impl, ui>>

-----------------------------------------------------------------------------
(* The IO thread runs its next task.                                       *)
RunIO(kind) ==
  /\ io # <<>> /\ Head(io).kind = kind
  /\ UNCHANGED <<context, ready, calls>>

RunMethod ==
  /\ RunIO("Method")
  /\ Method(Head(io).id, calls[Head(io).id], Tail(io))
  /\ UNCHANGED impl

(* GetRequestContextImplOnIOThread, for the creation or for a method.      *)
RunWithContext ==
  /\ RunIO("WithContext")
  /\ IF Head(io).id = 1
     THEN InitWithContext(calls[1], Tail(io))
     ELSE /\ \E st \in WithURLRequestContext :
               Apply(Head(io).id, calls[Head(io).id], st, Tail(io))
          /\ UNCHANGED impl
  /\ UNCHANGED ui

RunCallback ==
  /\ RunIO("Complete")
  /\ answered' = answered \cup {Head(io).id}
  /\ io' = Tail(io)
  /\ UNCHANGED <<impl, storage, ui, flushing, history>>

(* GetBrowserContextOnUIThread.                                            *)
RunUI ==
  /\ ui # <<>>
  /\ ui' = Tail(ui)
  /\ ready' = TRUE
  /\ io' = Append(io, [kind |-> "WithContext", id |-> Head(ui)])
  /\ UNCHANGED <<context, impl, storage, calls, flushing, answered, history>>

(* The context is used for something else, such as a browser.              *)
GetBrowserContext ==
  /\ context /\ ~ready
  /\ ready' = TRUE
  /\ UNCHANGED <<context, impl, storage, calls, queues, flushing, answered, history>>

-----------------------------------------------------------------------------
External == UNCHANGED <<context, ready, impl, calls, ui, history>>

(* Mutant: the calls that waited for the cookies are kept.                 *)
Kept(store) == [store EXCEPT !.loaded = TRUE]
Loaded(store) == [store EXCEPT !.loaded = TRUE, !.asking = {}, !.waiting = <<>>]

(* A store was asked for its cookies and has loaded them.  An older one    *)
(* has nothing left to do.                                                 *)
StoreLoaded(store) ==
  /\ Busy(store)
  /\ storage' = IF store = storage.store THEN [storage EXCEPT !.store = Loaded(store)]
                                         ELSE [storage EXCEPT !.older = @ \ {store}]
  /\ answered' = answered \cup store.asking
  /\ io' = io \o [k \in 1 .. Len(store.waiting) |-> [kind |-> "Complete", id |-> store.waiting[k]]]
  /\ UNCHANGED flushing /\ External

(* ... or has written them.                                                *)
StoreFlushed(id) ==
  /\ id \in flushing
  /\ flushing' = flushing \ {id}
  /\ RunAsyncCompletion(id, io)
  /\ UNCHANGED storage /\ External

-----------------------------------------------------------------------------
RunsTask == RunMethod \/ RunWithContext \/ RunCallback
StoreWorks == \/ \E store \in Stores(storage) : StoreLoaded(store)
              \/ \E id \in flushing : StoreFlushed(id)

Next ==
  \/ \E t \in Caller, dir \in Place : CreateManager(t, dir)
  \/ \E t \in Caller : GetDefaultCookieManager(t)
  \/ \E t \in Caller \ {"UI"}, what \in Operation : CallMethod(t, what)
  \/ RequestCookies
  \/ RunsTask \/ RunUI \/ GetBrowserContext
  \/ StoreWorks

Spec == Init /\ [][Next]_vars

(* Threads run their tasks and stores do their work.                       *)
FairSpec == Spec /\ WF_vars(RunsTask) /\ WF_vars(RunUI) /\ WF_vars(StoreWorks)

-----------------------------------------------------------------------------
(* Each call is in one place: it waits for a thread or a store, or was     *)
(* answered, or given up.  None is lost, and none answered twice.          *)
OncePlaced ==
  \A id \in DOMAIN calls :
    Cardinality({k \in DOMAIN io : io[k].id = id}) + Cardinality({k \in DOMAIN ui : ui[k] = id})
    + Cardinality({p \in Stores(storage) \X Id :
                     p[2] \in DOMAIN p[1].waiting /\ p[1].waiting[p[2]] = id})
    + Cardinality({store \in Stores(storage) : id \in store.asking})
    + Cardinality({id} \cap flushing) + Cardinality({id} \cap answered)
    + Cardinality({id} \cap dropped) = 1

(* The calls of a thread take effect in their order, but for those made on *)
(* the manager of a context before the creation was reported.              *)
OvertakenOnlyEarly == \A id \in overtaken : context /\ calls[id].early

(* Only calls made on the IO thread while the manager is being created can *)
(* find no store.                                                          *)
DroppedOnlyEarly == \A id \in dropped : calls[id].by = "IO" /\ calls[id].early

(* So once the creation was reported every call takes effect, and in turn. *)
OnlyEarlyGoAstray == OvertakenOnlyEarly /\ DroppedOnlyEarly

(* The store that is used is the one for the directory asked for last, and *)
(* has the schemes asked for last, whatever order these were asked in.     *)
StoreAsAsked ==
  HasStore(storage) =>
    /\ storage.path = wanted.path
    /\ storage.store.place \in {wanted.path, "memory"}
    /\ storage.store.schemes = wanted.schemes

(* Was the call given up because the store was still to be created?  The   *)
(* header promises its callback all the same.                              *)
CameTooEarly(id) == id \in dropped /\ calls[id].by = "IO" /\ calls[id].early

(* Every call is answered, whatever happens to the store, unless it was    *)
(* made on the IO thread before the creation of the manager was reported   *)
(* and found no store.                                                     *)
EveryCallAnswered ==
  \A id \in Id : Len(calls) >= id ~> id \in answered \/ CameTooEarly(id)

(* A request that asks the manager of its browser for cookies finds a      *)
(* store.                                                                  *)
RequestFindsStore == \A id \in dropped : calls[id].what.op # "request"
=============================================================================
