-------------------------- MODULE CookieManagerProofs --------------------------
(***************************************************************************)
(* The store of a cookie manager is the one asked for last, and its calls  *)
(* take effect in turn, for any number of calls, threads' interleavings    *)
(* and directories.                                                        *)
(***************************************************************************)
EXTENDS CookieManager, FiniteSetTheorems, TLAPS

Storage == [path : Place, schemes : Schemes, store : Store \cup {NoStore}, older : SUBSET Store]

(* What a storage says of what was asked for.                              *)
AsAsked(st, w) ==
  /\ HasStore(st) => /\ st.path = w.path /\ st.store.place \in {w.path, "memory"}
                     /\ st.schemes = w.schemes /\ st.store.schemes = w.schemes
  /\ ~HasStore(st) => st.schemes = "none" /\ w.schemes = "default"

(* Only calls in S wait for the stores.                                    *)
WaitFrom(store, S) ==
  store.asking \subseteq S /\ \A k \in DOMAIN store.waiting : store.waiting[k] \in S
Within(st, S) == WaitFrom(st.store, S) /\ \A store \in st.older : WaitFrom(store, S)

(* What is answered, or about to be, took effect.                          *)
Known ==
  /\ answered \subseteq applied /\ flushing \subseteq applied /\ Within(storage, applied)
  /\ applied \subseteq DOMAIN calls /\ dropped \subseteq DOMAIN calls
  /\ overtaken \subseteq DOMAIN calls

(* The first call creates the manager; the early calls are the first ones. *)
Early ==
  /\ calls # <<>> => calls[1].what.op = "create"
  /\ 1 \notin answered => \A id \in DOMAIN calls : calls[id].early
  /\ \A i, j \in DOMAIN calls : i <= j /\ calls[j].early => calls[i].early

(* Methods wait for the IO thread in the order of their calls, and others  *)
(* only while the context is created.                                      *)
TaskFits(x) ==
  \/ /\ x.kind = "Method" /\ x.id \in DOMAIN calls /\ calls[x.id].by # "IO"
     /\ x.id = 1 => ~context
  \/ x.kind = "WithContext" /\ context /\ x.id \in DOMAIN calls /\ calls[x.id].early
  \/ x.kind = "Complete" /\ x.id \in applied

Fit(q) == \A k \in DOMAIN q : TaskFits(q[k])

InOrder(q) ==
  \A j, k \in DOMAIN q :
    j < k /\ q[j].kind = "Method" /\ q[k].kind = "Method" => q[j].id < q[k].id

Waits(q, id) == \E k \in DOMAIN q : q[k].kind = "Method" /\ q[k].id = id

Queues ==
  /\ Fit(io) /\ InOrder(io)
  /\ \A k \in DOMAIN ui : context /\ ui[k] \in DOMAIN calls /\ calls[ui[k]].early

(* A call that has not taken effect waits for the IO thread.               *)
Astray(id) == context /\ calls[id].early
Pending(id) == id \in DOMAIN calls /\ id \notin applied /\ id \notin dropped
Placed == \A id \in DOMAIN calls : Pending(id) => Waits(io, id) \/ Astray(id)

(* The creation comes first.                                               *)
First == [kind |-> "Method", id |-> 1]
Created ==
  /\ 1 \in applied => IF context THEN impl ELSE HasStore(storage)
  /\ ~context /\ calls # <<>> /\ ~HasStore(storage) => io # <<>> /\ io[1] = First

IInv ==
  /\ TypeOK /\ AsAsked(storage, wanted) /\ Known /\ Early /\ Queues /\ Placed /\ Created
  /\ OnlyEarlyGoAstray

-----------------------------------------------------------------------------
(* Sequences by their elements.                                            *)
LEMMA AppendParts ==
  ASSUME NEW S, NEW s \in Seq(S), NEW x \in S
  PROVE  /\ Append(s, x) \in Seq(S) /\ Len(Append(s, x)) = Len(s) + 1
         /\ DOMAIN s = 1 .. Len(s) /\ Len(s) \in Nat
         /\ DOMAIN Append(s, x) = 1 .. Len(s) + 1
         /\ \A k \in DOMAIN s : Append(s, x)[k] = s[k]
         /\ Append(s, x)[Len(s) + 1] = x
OBVIOUS

LEMMA TailParts ==
  ASSUME NEW S, NEW s \in Seq(S), s # <<>>
  PROVE  /\ Tail(s) \in Seq(S) /\ Head(s) = s[1] /\ Head(s) \in S
         /\ DOMAIN s = 1 .. Len(s) /\ Len(s) \in Nat /\ Len(s) >= 1
         /\ DOMAIN Tail(s) = 1 .. Len(s) - 1
         /\ \A k \in 1 .. Len(s) - 1 : Tail(s)[k] = s[k + 1]
OBVIOUS

-----------------------------------------------------------------------------
(* Changes of the storage.                                                 *)
LEMMA SchemesAsAsked ==
  ASSUME NEW st \in Storage, NEW w \in [path : Place, schemes : {"default", "custom"}],
         HasStore(st), st.path = w.path, st.store.place \in {w.path, "memory"},
         NEW s \in Schemes
  PROVE  /\ WithSchemes(st, s) \in Storage /\ HasStore(WithSchemes(st, s))
         /\ AsAsked(WithSchemes(st, s), [w EXCEPT !.schemes = Effective(s)])
         /\ [w EXCEPT !.schemes = Effective(s)] \in [path : Place, schemes : {"default", "custom"}]
         /\ \A S : Within(st, S) => Within(WithSchemes(st, s), S)
<1> DEFINE e == Effective(s)
           new == [st.store EXCEPT !.schemes = e]
           res == WithSchemes(st, s)
<1>1. e \in {"default", "custom"} /\ e \in Schemes
  BY DEF Effective, Schemes
<1>2. st.store \in Store
  BY DEF Storage, HasStore, NoStore
<1> HIDE DEF e
<1>3. new \in Store /\ new.schemes = e /\ new.place = st.store.place
      /\ new.asking = st.store.asking /\ new.waiting = st.store.waiting
  BY <1>1, <1>2 DEF Store
<1>4. res = [st EXCEPT !.schemes = e, !.store = new]
  BY <1>2 DEF WithSchemes, e, Storage
<1> HIDE DEF new, res
<1>5. res \in Storage /\ res.store = new /\ res.schemes = e /\ res.path = st.path
      /\ res.older = st.older
  BY <1>1, <1>3, <1>4 DEF Storage
<1>6. HasStore(res)
  BY <1>3, <1>5 DEF HasStore
<1>7. AsAsked(res, [w EXCEPT !.schemes = e])
  BY <1>3, <1>5, <1>6 DEF AsAsked
<1>8. \A S : Within(st, S) => Within(res, S)
  BY <1>3, <1>5 DEF Within, WaitFrom
<1>9. [w EXCEPT !.schemes = e] \in [path : Place, schemes : {"default", "custom"}]
  BY <1>1
<1> QED BY <1>5, <1>6, <1>7, <1>8, <1>9 DEF res, e

LEMMA PathAsAsked ==
  ASSUME NEW st \in Storage, NEW w \in [path : Place, schemes : {"default", "custom"}],
         AsAsked(st, w), NEW dir \in Place, NEW new \in WithPath(st, dir)
  PROVE  /\ new \in Storage /\ HasStore(new)
         /\ AsAsked(new, [w EXCEPT !.path = dir])
         /\ [w EXCEPT !.path = dir] \in [path : Place, schemes : {"default", "custom"}]
         /\ \A S : Within(st, S) => Within(new, S)
<1> DEFINE v == [w EXCEPT !.path = dir]
<1>1. /\ v \in [path : Place, schemes : {"default", "custom"}]
      /\ v.path = dir /\ v.schemes = w.schemes
  OBVIOUS
<1> HIDE DEF v
<1>2. CASE HasStore(st) /\ st.path = dir
  BY <1>1, <1>2 DEF WithPath, AsAsked
<1>3. CASE ~(HasStore(st) /\ st.path = dir)
  <2>1. PICK place \in {dir, "memory"} :
          new = Restored([st EXCEPT !.path = dir, !.store = NewStore(place),
                                    !.older = @ \cup {s \in {st.store} : Busy(s)}])
    BY <1>3 DEF WithPath
  <2> DEFINE mid == [st EXCEPT !.path = dir, !.store = NewStore(place),
                               !.older = @ \cup {s \in {st.store} : Busy(s)}]
  <2>2. NewStore(place) \in Store
    BY DEF NewStore, Store, Place
  <2>3. Busy(st.store) => st.store \in Store
    BY DEF Busy, Storage, NoStore
  <2>4. /\ mid \in Storage /\ mid.path = dir /\ mid.store = NewStore(place)
        /\ mid.schemes = st.schemes /\ mid.older \subseteq st.older \cup {st.store}
    BY <2>2, <2>3 DEF Storage
  <2>5. HasStore(mid) /\ mid.store.place \in {dir, "memory"}
    BY <2>4, DirectoryAssumption DEF HasStore, NewStore, Place
  <2>6. \A S : Within(st, S) => Within(mid, S)
    BY <2>4 DEF Within, WaitFrom, NewStore
  <2>7. new = WithSchemes(mid, mid.schemes) /\ mid.schemes \in Schemes
    BY <2>1, <2>4 DEF Restored, Storage
  <2> HIDE DEF mid
  <2>8. Effective(mid.schemes) = v.schemes
    BY <1>1, <2>4 DEF AsAsked, Effective
  <2>9. [v EXCEPT !.schemes = Effective(mid.schemes)] = v
    BY <1>1, <2>8
  <2> HIDE DEF v
  <2>10. mid.path = v.path /\ mid.store.place \in {v.path, "memory"}
    BY <1>1, <2>4, <2>5
  <2>11. /\ new \in Storage /\ HasStore(new) /\ AsAsked(new, v)
         /\ \A S : Within(mid, S) => Within(new, S)
    BY <1>1, <2>4, <2>5, <2>7, <2>9, <2>10, SchemesAsAsked
  <2>12. \A S : Within(st, S) => Within(new, S)
    BY <2>6, <2>11
  <2> QED BY <1>1, <2>11, <2>12 DEF v
<1> QED BY <1>2, <1>3

LEMMA ContextAsAsked ==
  ASSUME IInv, NEW st \in WithURLRequestContext
  PROVE  /\ st \in Storage /\ HasStore(st) /\ AsAsked(st, wanted)
         /\ \A S : Within(storage, S) => Within(st, S)
<1>1. storage \in Storage /\ AsAsked(storage, wanted) /\ wanted \in [path : Place, schemes : {"default", "custom"}]
  BY DEF IInv, TypeOK, Storage
<1>2. CASE HasStore(storage)
  BY <1>1, <1>2 DEF WithURLRequestContext
<1>3. CASE ~HasStore(storage)
  <2>1. wanted.path \in Place /\ [wanted EXCEPT !.path = wanted.path] = wanted
    BY <1>1
  <2>2. st \in WithPath(storage, wanted.path)
    BY <1>3 DEF WithURLRequestContext
  <2> QED BY <1>1, <2>1, <2>2, PathAsAsked
<1> QED BY <1>2, <1>3

-----------------------------------------------------------------------------
(* What it means for a call to take effect.                                *)
Wanted == [path : Place, schemes : {"default", "custom"}]

LEMMA AskEffect ==
  ASSUME NEW id \in Id, NEW c, NEW st \in Storage, NEW rest, AskStore(id, c, st, rest)
  PROVE  /\ storage' \in Storage /\ (HasStore(st) => HasStore(storage'))
         /\ \A w : AsAsked(st, w) => AsAsked(storage', w)
         /\ \A S : Within(st, S) /\ id \in S => Within(storage', S)
         /\ \/ io' = rest /\ answered' \in {answered, answered \cup {id}}
            \/ io' = Append(rest, [kind |-> "Complete", id |-> id]) /\ answered' = answered
<1>1. CASE st.store.loaded
  BY <1>1 DEF AskStore, StoreAnswers, RunAsyncCompletion
<1>2. CASE ~st.store.loaded
  <2>1. PICK new : /\ storage' = [st EXCEPT !.store = new]
                   /\ \/ new = [st.store EXCEPT !.asking = @ \cup {id}]
                      \/ new = [st.store EXCEPT !.waiting = Append(@, id)]
    BY <1>2 DEF AskStore
  <2>2. st.store \in Store
    BY <1>2 DEF Storage, NoStore
  <2>3. /\ new \in Store /\ new.place = st.store.place /\ new.schemes = st.store.schemes
        /\ \A S : WaitFrom(st.store, S) /\ id \in S => WaitFrom(new, S)
    <3>1. CASE new = [st.store EXCEPT !.asking = @ \cup {id}]
      BY <2>2, <3>1 DEF Store, WaitFrom
    <3>2. CASE new = [st.store EXCEPT !.waiting = Append(@, id)]
      <4>1. st.store.waiting \in Seq(Id)
        BY <2>2 DEF Store
      <4>2. new.waiting = Append(st.store.waiting, id) /\ new.asking = st.store.asking
        BY <2>2, <3>2 DEF Store
      <4>3. \A S : WaitFrom(st.store, S) /\ id \in S => WaitFrom(new, S)
        <5> SUFFICES ASSUME NEW S, WaitFrom(st.store, S), id \in S,
                            NEW k \in DOMAIN new.waiting
                     PROVE  new.waiting[k] \in S
          BY <4>2 DEF WaitFrom
        <5> QED BY <4>1, <4>2 DEF WaitFrom
      <4>4. Append(st.store.waiting, id) \in Seq(Id)
        BY <4>1
      <4> QED BY <2>2, <3>2, <4>3, <4>4 DEF Store
    <3> QED BY <2>1, <3>1, <3>2
  <2>4. storage' \in Storage /\ storage'.store = new /\ storage'.older = st.older
        /\ storage'.path = st.path /\ storage'.schemes = st.schemes
    BY <2>1, <2>3 DEF Storage
  <2>5. io' = rest /\ answered' = answered
    BY <1>2 DEF AskStore
  <2> QED BY <2>3, <2>4, <2>5 DEF HasStore, AsAsked, Within
<1> QED BY <1>1, <1>2

LEMMA ApplyEffect ==
  ASSUME NEW id \in Id, NEW c \in Call, NEW st \in Storage, NEW rest, Apply(id, c, st, rest),
         wanted \in Wanted, AsAsked(st, wanted),
         c.what.op = "schemes" => HasStore(st)
  PROVE  /\ storage' \in Storage /\ (HasStore(st) => HasStore(storage'))
         /\ c.what.op = "path" \/ (c.what.op = "create" /\ ~context) => HasStore(storage')
         /\ wanted' \in Wanted /\ AsAsked(storage', wanted')
         /\ \A S : Within(st, S) /\ id \in S => Within(storage', S)
         /\ flushing' \in {flushing, flushing \cup {id}}
         /\ \/ io' = rest /\ answered' \in {answered, answered \cup {id}}
            \/ io' = Append(rest, [kind |-> "Complete", id |-> id]) /\ answered' = answered
<1>1. CASE /\ c.what.op = "create" /\ context
           /\ storage' = st /\ UNCHANGED wanted /\ flushing' = flushing
           /\ RunAsyncCompletion(id, rest)
  BY <1>1 DEF RunAsyncCompletion
<1>2. CASE /\ c.what.op = "path" \/ (c.what.op = "create" /\ ~context)
           /\ storage' \in WithPath(st, c.what.arg)
           /\ wanted' = [wanted EXCEPT !.path = c.what.arg] /\ flushing' = flushing
           /\ RunAsyncCompletion(id, rest)
  <2>1. c.what.arg \in Place
    BY <1>2 DEF Call, Operation
  <2>2. /\ storage' \in Storage /\ HasStore(storage') /\ AsAsked(storage', wanted')
        /\ wanted' \in Wanted /\ \A S : Within(st, S) => Within(storage', S)
    BY <1>2, <2>1, PathAsAsked DEF Wanted
  <2> QED BY <1>2, <2>2 DEF RunAsyncCompletion
<1>3. CASE /\ c.what.op = "schemes"
           /\ storage' = WithSchemes(st, c.what.arg)
           /\ wanted' = [wanted EXCEPT !.schemes = Effective(c.what.arg)] /\ flushing' = flushing
           /\ RunAsyncCompletion(id, rest)
  <2>1. c.what.arg \in Schemes
    BY <1>3 DEF Call, Operation, Schemes
  <2>2. HasStore(st) /\ st.path = wanted.path /\ st.store.place \in {wanted.path, "memory"}
    BY <1>3 DEF AsAsked
  <2>3. /\ storage' \in Storage /\ HasStore(storage') /\ AsAsked(storage', wanted')
        /\ wanted' \in Wanted /\ \A S : Within(st, S) => Within(storage', S)
    BY <1>3, <2>1, <2>2, SchemesAsAsked DEF Wanted
  <2> QED BY <1>3, <2>3 DEF RunAsyncCompletion
<1>4. CASE /\ c.what.op \in {"change", "visit", "request"}
           /\ UNCHANGED wanted /\ flushing' = flushing
           /\ AskStore(id, c, st, rest)
  BY <1>4, AskEffect
<1>5. CASE /\ c.what.op = "flush"
           /\ storage' = st /\ UNCHANGED <<wanted, answered>> /\ flushing' = flushing \cup {id}
           /\ io' = rest
  BY <1>5
<1> QED BY <1>1, <1>2, <1>3, <1>4, <1>5 DEF Apply

-----------------------------------------------------------------------------
(* The calls made so far are kept, and a new one comes last.               *)
Grows ==
  /\ calls' \in Seq(Call) /\ Len(calls') <= MaxCalls /\ context' = context
  /\ DOMAIN calls \subseteq DOMAIN calls'
  /\ \A id \in DOMAIN calls : calls'[id] = calls[id]
  /\ calls' # <<>> => calls'[1].what.op = "create"
  /\ \A id \in DOMAIN calls' : id \in DOMAIN calls \/ id = NextId
  /\ NextId \in DOMAIN calls' => (calls'[NextId].early <=> 1 \notin answered)

LEMMA SameCalls ==
  ASSUME IInv, UNCHANGED <<context, calls>>
  PROVE  Grows /\ NextId \notin DOMAIN calls'
<1>1. calls \in Seq(Call) /\ Len(calls) <= MaxCalls /\ (calls # <<>> => calls[1].what.op = "create")
  BY DEF IInv, TypeOK, Early
<1>2. NextId \notin DOMAIN calls
  BY <1>1 DEF NextId
<1> QED BY <1>1, <1>2 DEF Grows

LEMMA OneMoreCall ==
  ASSUME IInv, NEW t \in Caller, NEW what \in Operation, NewCall(t, what), UNCHANGED context,
         calls = <<>> => what.op = "create"
  PROVE  /\ Grows /\ NextId \in Id /\ NextId \notin DOMAIN calls /\ Called(t, what) \in Call
         /\ DOMAIN calls' = DOMAIN calls \cup {NextId} /\ calls'[NextId] = Called(t, what)
         /\ \A k \in DOMAIN calls : k < NextId
         /\ NextId = 1 <=> calls = <<>>
<1> DEFINE c == Called(t, what)
<1>1. c \in Call /\ (c.early <=> 1 \notin answered) /\ c.what = what
  BY DEF Called, Call
<1>2. calls \in Seq(Call) /\ Len(calls) < MaxCalls /\ calls' = Append(calls, c)
      /\ (calls # <<>> => calls[1].what.op = "create")
  BY DEF IInv, TypeOK, NewCall, Early
<1> HIDE DEF c
<1>3. /\ calls' \in Seq(Call) /\ Len(calls') = NextId /\ DOMAIN calls = 1 .. Len(calls)
      /\ Len(calls) \in Nat /\ DOMAIN calls' = 1 .. Len(calls) + 1
      /\ \A k \in DOMAIN calls : calls'[k] = calls[k]
      /\ calls'[NextId] = c
  BY <1>1, <1>2, AppendParts DEF NextId
<1>4. NextId \in Id /\ NextId \notin DOMAIN calls /\ DOMAIN calls' = DOMAIN calls \cup {NextId}
  BY <1>2, <1>3, CallsAssumption DEF NextId, Id
<1>5. calls = <<>> <=> Len(calls) = 0
  BY <1>2
<1>6. (NextId = 1 <=> calls = <<>>) /\ \A k \in DOMAIN calls : k < NextId
  BY <1>3, <1>5 DEF NextId
<1>7. calls'[1].what.op = "create"
  <2>1. CASE calls = <<>>
    BY <1>1, <1>3, <1>6, <2>1
  <2>2. CASE calls # <<>>
    BY <1>2, <1>3, <1>5, <2>2
  <2> QED BY <2>1, <2>2
<1>8. Len(calls') <= MaxCalls
  BY <1>2, <1>3, CallsAssumption DEF NextId
<1>9. Grows
  BY <1>1, <1>3, <1>4, <1>7, <1>8 DEF Grows
<1> QED BY <1>1, <1>3, <1>4, <1>6, <1>9 DEF c

LEMMA CallIds ==
  ASSUME IInv
  PROVE  /\ DOMAIN calls = 1 .. Len(calls) /\ Len(calls) \in Nat /\ DOMAIN calls \subseteq Id
         /\ \A k \in DOMAIN calls : calls[k] \in Call /\ k < NextId
         /\ calls = <<>> <=> Len(calls) = 0
<1>1. calls \in Seq(Call) /\ Len(calls) <= MaxCalls
  BY DEF IInv, TypeOK
<1> QED BY <1>1, CallsAssumption DEF Id, NextId

LEMMA EarlyKept ==
  ASSUME IInv, Grows, answered \subseteq answered'
  PROVE  Early'
<1>1. /\ \A i \in DOMAIN calls : calls'[i] = calls[i] /\ i \in DOMAIN calls'
      /\ \A i \in DOMAIN calls' : i \in DOMAIN calls \/ i = NextId
      /\ DOMAIN calls = 1 .. Len(calls) /\ Len(calls) \in Nat
  BY CallIds DEF Grows
<1>2. 1 \notin answered' => \A id \in DOMAIN calls' : calls'[id].early
  BY <1>1 DEF IInv, Early, Grows
<1>3. ASSUME NEW i \in DOMAIN calls', NEW j \in DOMAIN calls', i <= j, calls'[j].early
      PROVE  calls'[i].early
  <2>1. CASE j \in DOMAIN calls
    <3>1. i \in DOMAIN calls
      BY <1>1, <1>3, <2>1 DEF NextId
    <3> QED BY <1>1, <1>3, <2>1, <3>1 DEF IInv, Early
  <2>2. CASE j = NextId
    <3>1. 1 \notin answered
      BY <1>3, <2>2 DEF Grows
    <3> QED BY <1>1, <1>3, <2>2, <3>1 DEF IInv, Early
  <2> QED BY <1>1, <2>1, <2>2
<1> QED BY <1>2, <1>3 DEF Early, Grows

LEMMA FitKept ==
  ASSUME Grows, applied \subseteq applied', NEW q, Fit(q), io' = q
  PROVE  Fit(io)'
BY DEF Grows, Fit, TaskFits

(* The tasks that are left, and perhaps the callback of a call.            *)
LEMMA QueueKept ==
  ASSUME Grows, applied \subseteq applied', NEW rest \in Seq(Task), Fit(rest), InOrder(rest),
         NEW id \in Id, id \in applied',
         io' = rest \/ io' = Append(rest, [kind |-> "Complete", id |-> id])
  PROVE  /\ io' \in Seq(Task) /\ Fit(io)' /\ InOrder(io)'
         /\ \A x : Waits(rest, x) => Waits(io', x)
         /\ rest # <<>> => io' # <<>> /\ io'[1] = rest[1]
<1>1. CASE io' = rest
  BY <1>1, FitKept
<1>2. CASE io' = Append(rest, [kind |-> "Complete", id |-> id])
  <2> DEFINE x == [kind |-> "Complete", id |-> id]
  <2>1. x \in Task /\ x.kind = "Complete" /\ x.id = id
    BY DEF Task
  <2> HIDE DEF x
  <2>2. /\ io' \in Seq(Task) /\ DOMAIN rest = 1 .. Len(rest) /\ Len(rest) \in Nat
        /\ DOMAIN io' = 1 .. Len(rest) + 1 /\ Len(io') = Len(rest) + 1
        /\ \A k \in DOMAIN rest : io'[k] = rest[k]
        /\ io'[Len(rest) + 1] = x
    BY <1>2, <2>1, AppendParts DEF x
  <2>3. \A k \in DOMAIN io' : k \in DOMAIN rest \/ k = Len(rest) + 1
    BY <2>2
  <2>4. Fit(io)'
    <3> SUFFICES ASSUME NEW k \in DOMAIN io' PROVE TaskFits(io[k])'
      BY DEF Fit
    <3>1. CASE k \in DOMAIN rest
      <4>1. TaskFits(rest[k]) /\ io'[k] = rest[k]
        BY <2>2, <3>1 DEF Fit
      <4> QED BY <4>1 DEF TaskFits, Grows
    <3>2. CASE k = Len(rest) + 1
      BY <2>1, <2>2, <3>2 DEF TaskFits
    <3> QED BY <2>3, <3>1, <3>2
  <2>5. InOrder(io)'
    <3>1. \A k \in DOMAIN io' : io'[k].kind = "Method" => k \in DOMAIN rest /\ io'[k] = rest[k]
      BY <2>1, <2>2, <2>3
    <3> QED BY <3>1 DEF InOrder
  <2>6. \A y : Waits(rest, y) => Waits(io', y)
    BY <2>2 DEF Waits
  <2>7. rest # <<>> => io' # <<>> /\ io'[1] = rest[1]
    BY <2>2
  <2> QED BY <2>2, <2>4, <2>5, <2>6, <2>7
<1> QED BY <1>1, <1>2

-----------------------------------------------------------------------------
(* A call takes effect.                                                    *)
LEMMA ApplyKeeps ==
  ASSUME IInv, Grows, NEW id \in Id, id \in DOMAIN calls', NEW c \in Call, calls'[id] = c,
         \A k \in DOMAIN calls' : k \in DOMAIN calls \/ k = id,
         NEW st \in Storage, AsAsked(st, wanted), Within(st, applied),
         HasStore(storage) => HasStore(st),
         ~context => HasStore(st) \/ c.what.op \in {"path", "create"},
         c.what.op = "schemes" => HasStore(st),
         NEW rest \in Seq(Task), Fit(rest), InOrder(rest),
         \A k \in DOMAIN calls : k # id /\ Waits(io, k) => Waits(rest, k),
         Apply(id, c, st, rest),
         \A k \in 1 .. id - 1 : Pending(k) /\ calls[k].by = c.by => Astray(k),
         UNCHANGED <<ready, ui>>, impl' \in BOOLEAN, impl => impl',
         id = 1 => IF context THEN impl' ELSE c.what.op = "create"
  PROVE  IInv'
<1>1. wanted \in Wanted /\ storage \in Storage
  BY DEF IInv, TypeOK, Wanted, Storage
<1>2. /\ storage' \in Storage /\ (HasStore(st) => HasStore(storage'))
      /\ c.what.op = "path" \/ (c.what.op = "create" /\ ~context) => HasStore(storage')
      /\ wanted' \in Wanted /\ AsAsked(storage', wanted')
      /\ \A S : Within(st, S) /\ id \in S => Within(storage', S)
      /\ flushing' \in {flushing, flushing \cup {id}}
      /\ \/ io' = rest /\ answered' \in {answered, answered \cup {id}}
         \/ io' = Append(rest, [kind |-> "Complete", id |-> id]) /\ answered' = answered
  BY <1>1, ApplyEffect
<1>3. /\ applied' = applied \cup {id} /\ dropped' = dropped
      /\ overtaken' = overtaken \cup
           {k \in 1 .. id - 1 : calls[k].by = c.by /\ k \notin applied \cup dropped}
  BY DEF Apply
<1>4. /\ io' \in Seq(Task) /\ Fit(io)' /\ InOrder(io)'
      /\ \A x : Waits(rest, x) => Waits(io', x)
  BY <1>2, <1>3, QueueKept
<1>5. \A k \in 1 .. id - 1 : k \in DOMAIN calls
  <2>1. DOMAIN calls' = 1 .. Len(calls') /\ Len(calls') \in Nat
    BY DEF Grows
  <2>2. id \in Nat
    BY CallsAssumption DEF Id
  <2> QED BY <2>1, <2>2
<1>6. TypeOK'
  <2>1. answered' \subseteq Id /\ applied' \subseteq Id /\ flushing' \subseteq Id
    BY <1>2, <1>3 DEF IInv, TypeOK
  <2>2. overtaken' \subseteq Id /\ dropped' \subseteq Id
    BY <1>3, <1>5, CallIds DEF IInv, TypeOK
  <2>3. HasStore(storage') => storage'.schemes # "none"
    BY <1>2 DEF AsAsked, Wanted
  <2> QED BY <1>2, <1>4, <2>1, <2>2, <2>3 DEF IInv, TypeOK, Grows, Storage, Wanted
<1>7. Known'
  <2>1. Within(st, applied')
    BY <1>3 DEF Within, WaitFrom
  <2>2. Within(storage', applied')
    BY <1>2, <1>3, <2>1
  <2>3. answered' \subseteq applied' /\ flushing' \subseteq applied'
    BY <1>2, <1>3 DEF IInv, Known
  <2>4. /\ applied' \subseteq DOMAIN calls' /\ dropped' \subseteq DOMAIN calls'
        /\ overtaken' \subseteq DOMAIN calls'
    BY <1>3, <1>5 DEF IInv, Known, Grows
  <2> QED BY <2>2, <2>3, <2>4 DEF Known
<1>8. Early'
  BY <1>2, EarlyKept
<1>9. Queues'
  BY <1>4 DEF IInv, Queues, Grows
<1>10. Placed'
  <2> SUFFICES ASSUME NEW k \in DOMAIN calls', Pending(k)' PROVE Waits(io', k) \/ Astray(k)'
    BY DEF Placed
  <2>1. k # id /\ k \in DOMAIN calls /\ Pending(k)
    BY <1>3 DEF Pending
  <2>2. Waits(io, k) \/ Astray(k)
    BY <2>1 DEF IInv, Placed
  <2> QED BY <1>4, <2>1, <2>2 DEF Astray, Grows
<1>11. Created'
  <2>1. ~context => HasStore(storage')
    BY <1>2
  <2>2. 1 \in applied' => IF context THEN impl' ELSE HasStore(storage')
    BY <1>3, <2>1 DEF IInv, Created
  <2> QED BY <2>1, <2>2 DEF Created, Grows
<1>12. OnlyEarlyGoAstray'
  <2>1. \A k \in overtaken' : context /\ k \in DOMAIN calls /\ calls[k].early
    BY <1>3, <1>5 DEF Astray, Pending, IInv, OnlyEarlyGoAstray, OvertakenOnlyEarly, Known
  <2> QED BY <1>3, <2>1 DEF IInv, Known, OnlyEarlyGoAstray, OvertakenOnlyEarly, DroppedOnlyEarly, Grows
<1> QED BY <1>2, <1>6, <1>7, <1>8, <1>9, <1>10, <1>11, <1>12 DEF IInv

(* A call is given up, which was made on the IO thread before the creation *)
(* was reported.                                                           *)
LEMMA DropKeeps ==
  ASSUME IInv, Grows, NextId \in DOMAIN calls', NextId \in Id,
         calls'[NextId].by = "IO", 1 \notin answered, Drop(NextId, io),
         calls # <<>>, UNCHANGED <<ready, impl, ui>>
  PROVE  IInv'
<1>1. /\ dropped' = dropped \cup {NextId} /\ io' = io
      /\ UNCHANGED <<storage, flushing, answered, applied, overtaken, wanted>>
  BY DEF Drop
<1>2. TypeOK'
  BY <1>1 DEF IInv, TypeOK, Grows
<1>3. Known'
  BY <1>1 DEF IInv, Known, Grows
<1>4. Early'
  BY <1>1, EarlyKept
<1>5. Queues'
  <2>1. Fit(io)'
    BY <1>1, FitKept DEF IInv, Queues
  <2> QED BY <1>1, <2>1 DEF IInv, Queues, Grows
<1>6. Placed'
  BY <1>1 DEF IInv, Placed, Pending, Astray, Grows
<1>7. Created'
  BY <1>1 DEF IInv, Created, Grows
<1>8. OnlyEarlyGoAstray'
  <2>1. calls'[NextId].early
    BY DEF Grows
  <2> QED BY <1>1, <2>1 DEF IInv, Known, OnlyEarlyGoAstray, OvertakenOnlyEarly, DroppedOnlyEarly, Grows
<1> QED BY <1>1, <1>2, <1>3, <1>4, <1>5, <1>6, <1>7, <1>8 DEF IInv

(* Calls and tasks come, but nothing takes effect.                         *)
LEMMA WaitKeeps ==
  ASSUME IInv, Grows, UNCHANGED <<impl, storage, flushing, history>>, ready' \in BOOLEAN,
         answered \subseteq answered', answered' \subseteq applied,
         io' \in Seq(Task), Fit(io)', InOrder(io)', ui' \in Seq(Id),
         \A k \in DOMAIN ui' : context /\ ui'[k] \in DOMAIN calls' /\ calls'[ui'[k]].early,
         \A k \in DOMAIN calls' : k \notin applied /\ k \notin dropped
                                    => Waits(io', k) \/ (context /\ calls'[k].early),
         ~context /\ calls' # <<>> /\ ~HasStore(storage) => io' # <<>> /\ io'[1] = First
  PROVE  IInv'
<1>1. UNCHANGED <<impl, storage, flushing, applied, dropped, overtaken, wanted, context>>
  BY DEF history, Grows
<1>2. TypeOK'
  <2>1. answered' \subseteq Id
    BY DEF IInv, TypeOK
  <2> QED BY <1>1, <2>1 DEF IInv, TypeOK, Grows
<1>3. Known'
  BY <1>1 DEF IInv, Known, Grows
<1>4. Early'
  BY EarlyKept
<1>5. Queues'
  BY <1>1 DEF Queues
<1>6. Placed'
  BY <1>1 DEF Placed, Pending, Astray
<1>7. Created'
  BY <1>1 DEF IInv, Created
<1>8. OnlyEarlyGoAstray'
  BY <1>1 DEF IInv, Known, OnlyEarlyGoAstray, OvertakenOnlyEarly, DroppedOnlyEarly, Grows
<1> QED BY <1>1, <1>2, <1>3, <1>4, <1>5, <1>6, <1>7, <1>8 DEF IInv

-----------------------------------------------------------------------------
(* What is known of the queue before a task is taken or added.             *)
LEMMA QueueFits ==
  ASSUME IInv
  PROVE  /\ io \in Seq(Task) /\ Fit(io) /\ InOrder(io) /\ ui \in Seq(Id)
         /\ \A k \in DOMAIN calls : Waits(io, k) => calls[k].by # "IO"
         /\ \A k \in DOMAIN io : io[k].kind = "Method" => io[k].id \in DOMAIN calls
         /\ calls = <<>> => io = <<>> /\ ui = <<>>
<1>1. io \in Seq(Task) /\ Fit(io) /\ InOrder(io) /\ ui \in Seq(Id)
  BY DEF IInv, TypeOK, Queues
<1>2. \A k \in DOMAIN io : io[k].kind = "Method" => io[k].id \in DOMAIN calls /\ calls[io[k].id].by # "IO"
  BY <1>1 DEF Fit, TaskFits
<1>3. \A k \in DOMAIN calls : Waits(io, k) => calls[k].by # "IO"
  BY <1>2 DEF Waits
<1>4. ASSUME calls = <<>> PROVE io = <<>> /\ ui = <<>>
  <2>1. DOMAIN calls = {} /\ applied = {}
    BY <1>4 DEF IInv, Known
  <2>2. DOMAIN io = {}
    BY <1>1, <2>1 DEF Fit, TaskFits
  <2>3. DOMAIN ui = {}
    BY <2>1 DEF IInv, Queues
  <2> QED BY <1>1, <2>2, <2>3
<1> QED BY <1>1, <1>2, <1>3, <1>4

LEMMA TakenTask ==
  ASSUME IInv, io # <<>>
  PROVE  /\ Head(io) = io[1] /\ Head(io) \in Task /\ TaskFits(Head(io))
         /\ Tail(io) \in Seq(Task) /\ Fit(Tail(io)) /\ InOrder(Tail(io))
         /\ \A x : Waits(io, x) <=> Waits(Tail(io), x) \/ (Head(io).kind = "Method" /\ Head(io).id = x)
         /\ \A x : Head(io).kind = "Method" /\ Waits(Tail(io), x) => Head(io).id < x
<1> DEFINE rest == Tail(io)
<1>1. io \in Seq(Task) /\ Fit(io) /\ InOrder(io)
  BY QueueFits
<1>2. /\ rest \in Seq(Task) /\ Head(io) = io[1] /\ Head(io) \in Task
      /\ DOMAIN io = 1 .. Len(io) /\ Len(io) \in Nat /\ Len(io) >= 1
      /\ DOMAIN rest = 1 .. Len(io) - 1
      /\ \A k \in 1 .. Len(io) - 1 : rest[k] = io[k + 1]
  BY <1>1, TailParts
<1> HIDE DEF rest
<1>3. /\ 1 \in DOMAIN io /\ \A k \in DOMAIN rest : k + 1 \in DOMAIN io /\ rest[k] = io[k + 1]
      /\ \A k \in DOMAIN io : k = 1 \/ (k - 1 \in DOMAIN rest /\ rest[k - 1] = io[k])
  BY <1>2
<1>4. TaskFits(Head(io)) /\ Fit(rest)
  BY <1>1, <1>2, <1>3 DEF Fit
<1>5. InOrder(rest)
  <2> SUFFICES ASSUME NEW j \in DOMAIN rest, NEW k \in DOMAIN rest, j < k,
                      rest[j].kind = "Method", rest[k].kind = "Method"
               PROVE  rest[j].id < rest[k].id
    BY DEF InOrder
  <2>1. j + 1 < k + 1
    BY <1>2
  <2> QED BY <1>1, <1>3, <2>1 DEF InOrder
<1>6. \A x : Waits(io, x) <=> Waits(rest, x) \/ (Head(io).kind = "Method" /\ Head(io).id = x)
  <2>1. ASSUME NEW x, Waits(io, x)
        PROVE  Waits(rest, x) \/ (Head(io).kind = "Method" /\ Head(io).id = x)
    <3>1. PICK k \in DOMAIN io : io[k].kind = "Method" /\ io[k].id = x
      BY <2>1 DEF Waits
    <3>2. CASE k = 1
      BY <3>1, <3>2, <1>2
    <3>3. CASE k - 1 \in DOMAIN rest /\ rest[k - 1] = io[k]
      BY <3>1, <3>3 DEF Waits
    <3> QED BY <3>2, <3>3, <1>3
  <2>2. ASSUME NEW x, Waits(rest, x) PROVE Waits(io, x)
    <3>1. PICK k \in DOMAIN rest : rest[k].kind = "Method" /\ rest[k].id = x
      BY <2>2 DEF Waits
    <3>2. k + 1 \in DOMAIN io /\ io[k + 1].kind = "Method" /\ io[k + 1].id = x
      BY <3>1, <1>3
    <3> QED BY <3>2 DEF Waits
  <2>3. ASSUME NEW x, Head(io).kind = "Method", Head(io).id = x PROVE Waits(io, x)
    BY <2>3, <1>2, <1>3 DEF Waits
  <2> QED BY <2>1, <2>2, <2>3
<1>7. ASSUME NEW x, Head(io).kind = "Method", Waits(rest, x) PROVE Head(io).id < x
  <2>1. PICK k \in DOMAIN rest : rest[k].kind = "Method" /\ rest[k].id = x
    BY <1>7 DEF Waits
  <2>2. 1 < k + 1 /\ k + 1 \in DOMAIN io /\ io[k + 1] = rest[k]
    BY <1>2, <1>3
  <2> QED BY <1>1, <1>2, <1>3, <1>7, <2>1, <2>2 DEF InOrder
<1> QED BY <1>2, <1>4, <1>5, <1>6, <1>7 DEF rest

(* The creation has not been reported while a context is missing.          *)
LEMMA NotReported ==
  ASSUME IInv, 1 \notin applied
  PROVE  1 \notin answered /\ \A k \in DOMAIN calls : calls[k].early
BY DEF IInv, Known, Early

LEMMA PostMethod ==
  ASSUME IInv, NEW t \in Caller \ {"IO"}, NEW what \in Operation, NewCall(t, what),
         UNCHANGED <<context, ready, impl, storage, ui, flushing, answered, history>>,
         calls = <<>> => what.op = "create" /\ ~context,
         io' = Append(io, [kind |-> "Method", id |-> NextId])
  PROVE  IInv'
<1> DEFINE x == [kind |-> "Method", id |-> NextId]
<1>1. /\ Grows /\ NextId \in Id /\ NextId \notin DOMAIN calls
      /\ DOMAIN calls' = DOMAIN calls \cup {NextId} /\ calls'[NextId].by = t
      /\ \A k \in DOMAIN calls : k < NextId
      /\ NextId = 1 <=> calls = <<>>
  <2>1. t \in Caller /\ UNCHANGED context /\ (calls = <<>> => what.op = "create")
    OBVIOUS
  <2>2. /\ Grows /\ NextId \in Id /\ NextId \notin DOMAIN calls
        /\ DOMAIN calls' = DOMAIN calls \cup {NextId} /\ calls'[NextId] = Called(t, what)
        /\ \A k \in DOMAIN calls : k < NextId
        /\ NextId = 1 <=> calls = <<>>
    BY <2>1, OneMoreCall
  <2> QED BY <2>2 DEF Called
<1>2. io \in Seq(Task) /\ Fit(io) /\ InOrder(io) /\ (calls = <<>> => io = <<>>)
      /\ \A k \in DOMAIN io : io[k].kind = "Method" => io[k].id \in DOMAIN calls
  BY QueueFits
<1>3. x \in Task /\ x.kind = "Method" /\ x.id = NextId
  BY <1>1 DEF Task
<1>4. /\ io' \in Seq(Task) /\ DOMAIN io = 1 .. Len(io) /\ Len(io) \in Nat
      /\ DOMAIN io' = 1 .. Len(io) + 1 /\ \A k \in DOMAIN io : io'[k] = io[k]
      /\ io'[Len(io) + 1] = x
  BY <1>2, <1>3, AppendParts
<1>5. \A k \in DOMAIN io' : k \in DOMAIN io \/ k = Len(io) + 1
  BY <1>4
<1>6. x = [kind |-> "Method", id |-> NextId]
  OBVIOUS
<1> HIDE DEF x
<1>7. Fit(io)'
  <2> SUFFICES ASSUME NEW k \in DOMAIN io' PROVE TaskFits(io[k])'
    BY DEF Fit
  <2>1. CASE k \in DOMAIN io
    <3>1. TaskFits(io[k]) /\ io'[k] = io[k]
      BY <1>2, <1>4, <2>1 DEF Fit
    <3> QED BY <1>1, <3>1 DEF TaskFits, Grows, history
  <2>2. CASE k = Len(io) + 1
    BY <1>1, <1>3, <1>4, <2>2 DEF TaskFits
  <2> QED BY <1>5, <2>1, <2>2
<1>8. InOrder(io)'
  <2> SUFFICES ASSUME NEW j \in DOMAIN io', NEW k \in DOMAIN io', j < k,
                      io'[j].kind = "Method", io'[k].kind = "Method"
               PROVE  io'[j].id < io'[k].id
    BY DEF InOrder
  <2>1. j \in DOMAIN io
    BY <1>4
  <2>2. CASE k \in DOMAIN io
    BY <1>2, <1>4, <2>1, <2>2 DEF InOrder
  <2>3. CASE k = Len(io) + 1
    <3>1. io'[j].id \in DOMAIN calls
      BY <1>2, <1>4, <2>1
    <3> QED BY <1>1, <1>3, <1>4, <2>3, <3>1
  <2> QED BY <1>5, <2>2, <2>3
<1>9. \A k : (Waits(io, k) => Waits(io', k)) /\ Waits(io', NextId)
  <2>1. Len(io) + 1 \in DOMAIN io'
    BY <1>4
  <2> QED BY <1>3, <1>4, <2>1 DEF Waits
<1>10. ASSUME ~context, ~HasStore(storage)
       PROVE  io' # <<>> /\ io'[1] = First
  <2>1. CASE calls = <<>>
    BY <1>1, <1>2, <1>4, <1>6, <2>1 DEF First
  <2>2. CASE calls # <<>>
    BY <1>4, <1>10, <2>2 DEF IInv, Created
  <2> QED BY <2>1, <2>2
<1>11. \A k \in DOMAIN calls' : k \notin applied /\ k \notin dropped
                                  => Waits(io', k) \/ (context /\ calls'[k].early)
  <2>1. \A k \in DOMAIN calls : Pending(k) => Waits(io', k) \/ Astray(k)
    BY <1>9 DEF IInv, Placed
  <2> QED BY <1>1, <1>9, <2>1 DEF Pending, Astray, Grows
<1>12. \A k \in DOMAIN ui' : context /\ ui'[k] \in DOMAIN calls' /\ calls'[ui'[k]].early
  BY <1>1 DEF IInv, Queues, Grows
<1>13. ui' \in Seq(Id) /\ ready' \in BOOLEAN /\ answered \subseteq answered' /\ answered' \subseteq applied
  BY DEF IInv, TypeOK, Known
<1> QED BY <1>1, <1>4, <1>7, <1>8, <1>10, <1>11, <1>12, <1>13, WaitKeeps

(* A task that is no method is added, for an early call of a context.      *)
LEMMA PostOther ==
  ASSUME IInv, Grows, NEW id \in Id, io' = Append(io, [kind |-> "WithContext", id |-> id]),
         context, id \in DOMAIN calls', calls'[id].early, applied' = applied
  PROVE  /\ io' \in Seq(Task) /\ Fit(io)' /\ InOrder(io)'
         /\ \A x : Waits(io, x) => Waits(io', x)
<1> DEFINE x == [kind |-> "WithContext", id |-> id]
<1>1. io \in Seq(Task) /\ Fit(io) /\ InOrder(io)
  BY QueueFits
<1>2. x \in Task /\ x.kind = "WithContext" /\ x.id = id
  BY DEF Task
<1>3. /\ io' \in Seq(Task) /\ DOMAIN io = 1 .. Len(io) /\ Len(io) \in Nat
      /\ DOMAIN io' = 1 .. Len(io) + 1 /\ \A k \in DOMAIN io : io'[k] = io[k]
      /\ io'[Len(io) + 1] = x
  BY <1>1, <1>2, AppendParts
<1> HIDE DEF x
<1>4. \A k \in DOMAIN io' : k \in DOMAIN io \/ k = Len(io) + 1
  BY <1>3
<1>5. Fit(io)'
  <2> SUFFICES ASSUME NEW k \in DOMAIN io' PROVE TaskFits(io[k])'
    BY DEF Fit
  <2>1. CASE k \in DOMAIN io
    <3>1. TaskFits(io[k]) /\ io'[k] = io[k]
      BY <1>1, <1>3, <2>1 DEF Fit
    <3> QED BY <3>1 DEF TaskFits, Grows
  <2>2. CASE k = Len(io) + 1
    BY <1>2, <1>3, <2>2 DEF TaskFits, Grows
  <2> QED BY <1>4, <2>1, <2>2
<1>6. InOrder(io)'
  <2>1. \A k \in DOMAIN io' : io'[k].kind = "Method" => k \in DOMAIN io /\ io'[k] = io[k]
    BY <1>2, <1>3, <1>4
  <2> QED BY <1>1, <2>1 DEF InOrder
<1>7. \A y : Waits(io, y) => Waits(io', y)
  BY <1>3 DEF Waits
<1> QED BY <1>3, <1>5, <1>6, <1>7

-----------------------------------------------------------------------------
(* A method is run on the IO thread that called it.                        *)
LEMMA OnIOThread ==
  ASSUME IInv, NEW what \in Operation, NewCall("IO", what), UNCHANGED <<context, ready, impl>>,
         calls # <<>>, what.op # "create", Method(NextId, Called("IO", what), io)
  PROVE  IInv'
<1> DEFINE c == Called("IO", what)
<1>1. /\ Grows /\ NextId \in Id /\ NextId \notin DOMAIN calls /\ c \in Call
      /\ DOMAIN calls' = DOMAIN calls \cup {NextId} /\ calls'[NextId] = c
      /\ NextId # 1
  <2>1. "IO" \in Caller
    BY DEF Caller
  <2> QED BY <2>1, OneMoreCall
<1>2. c.what = what /\ c.by = "IO"
  BY DEF Called
<1> HIDE DEF c
<1>3. /\ io \in Seq(Task) /\ Fit(io) /\ InOrder(io) /\ ui \in Seq(Id)
      /\ \A k \in DOMAIN calls : Waits(io, k) => calls[k].by # "IO"
  BY QueueFits
<1>4. \A k \in 1 .. NextId - 1 : Pending(k) /\ calls[k].by = c.by => Astray(k)
  BY <1>2, <1>3 DEF IInv, Placed, Pending
<1>5. storage \in Storage /\ AsAsked(storage, wanted) /\ Within(storage, applied)
      /\ impl \in BOOLEAN /\ ready \in BOOLEAN
  BY DEF IInv, TypeOK, Storage, Known
<1>6. CASE /\ context
           /\ \E st \in WithURLRequestContext : Apply(NextId, c, st, io)
           /\ ui' = ui
  <2>1. PICK st \in WithURLRequestContext : Apply(NextId, c, st, io)
    BY <1>6
  <2>2. st \in Storage /\ HasStore(st) /\ AsAsked(st, wanted) /\ Within(st, applied)
    BY <1>5, ContextAsAsked
  <2>3. \A k \in DOMAIN calls : k # NextId /\ Waits(io, k) => Waits(io, k)
    OBVIOUS
  <2>4. \A k \in DOMAIN calls' : k \in DOMAIN calls \/ k = NextId
    BY <1>1
  <2> QED BY <1>1, <1>3, <1>4, <1>5, <1>6, <2>1, <2>2, <2>3, <2>4, ApplyKeeps
<1>7. CASE /\ context /\ ~impl
           /\ ui' = Append(ui, NextId) /\ io' = io
           /\ UNCHANGED <<storage, flushing, answered, history>>
  <2>1. 1 \notin answered /\ calls'[NextId].early
    BY <1>1, <1>7, NotReported DEF IInv, Created, Grows
  <2>2. /\ ui' \in Seq(Id)
        /\ \A k \in DOMAIN ui' : context /\ ui'[k] \in DOMAIN calls' /\ calls'[ui'[k]].early
    <3>1. /\ ui' \in Seq(Id) /\ \A k \in DOMAIN ui' : k \in DOMAIN ui \/ ui'[k] = NextId
          /\ \A k \in DOMAIN ui : ui'[k] = ui[k]
      BY <1>1, <1>3, <1>7, AppendParts
    <3>2. \A k \in DOMAIN ui : ui[k] \in DOMAIN calls /\ calls[ui[k]].early
      BY DEF IInv, Queues
    <3> QED BY <1>1, <1>7, <2>1, <3>1, <3>2 DEF Grows
  <2>3. Fit(io)' /\ InOrder(io)' /\ io' \in Seq(Task)
    BY <1>1, <1>3, <1>7, FitKept DEF history
  <2>4. \A k \in DOMAIN calls' : k \notin applied /\ k \notin dropped
                                   => Waits(io', k) \/ (context /\ calls'[k].early)
    BY <1>1, <1>7, <2>1 DEF IInv, Placed, Pending, Astray, Grows
  <2>5. answered \subseteq answered' /\ answered' \subseteq applied
    BY <1>7 DEF IInv, Known
  <2> QED BY <1>1, <1>5, <1>7, <2>2, <2>3, <2>4, <2>5, WaitKeeps
<1>8. CASE /\ ~context /\ ui' = ui /\ (HasStore(storage) \/ what.op = "path")
           /\ Apply(NextId, c, storage, io)
  <2>1. \A k \in DOMAIN calls : k # NextId /\ Waits(io, k) => Waits(io, k)
    OBVIOUS
  <2>2. \A k \in DOMAIN calls' : k \in DOMAIN calls \/ k = NextId
    BY <1>1
  <2>3. c.what.op = "schemes" => HasStore(storage)
    BY <1>2, <1>8
  <2>4. ~context => HasStore(storage) \/ c.what.op \in {"path", "create"}
    BY <1>2, <1>8
  <2> QED BY <1>1, <1>3, <1>4, <1>5, <1>8, <2>1, <2>2, <2>3, <2>4, ApplyKeeps
<1>9. CASE ~context /\ ui' = ui /\ ~HasStore(storage) /\ Drop(NextId, io)
  <2>1. 1 \notin answered
    BY <1>9, NotReported DEF IInv, Created
  <2> QED BY <1>1, <1>2, <1>9, <2>1, DropKeeps
<1> QED BY <1>2, <1>6, <1>7, <1>8, <1>9 DEF Method, c

LEMMA CallMethodStep ==
  ASSUME IInv, NEW t \in Caller, NEW what \in Operation, CallMethod(t, what)
  PROVE  IInv'
<1>1. /\ calls # <<>> /\ what.op # "create" /\ NewCall(t, what)
      /\ UNCHANGED <<context, ready, impl>>
  BY DEF CallMethod
<1>2. CASE t = "IO"
  BY <1>1, <1>2, OnIOThread DEF CallMethod, Hops
<1>3. CASE t # "IO"
  <2>1. /\ io' = Append(io, [kind |-> "Method", id |-> NextId])
        /\ UNCHANGED <<storage, ui, flushing, answered, history>>
    BY <1>3 DEF CallMethod, Hops
  <2>2. t \in Caller \ {"IO"}
    BY <1>3
  <2> QED BY <1>1, <2>1, <2>2, PostMethod
<1> QED BY <1>2, <1>3

LEMMA RequestCookiesStep ==
  ASSUME IInv, RequestCookies
  PROVE  IInv'
<1> DEFINE what == [op |-> "request", arg |-> "none"]
           c == Called("IO", what)
<1>1. what \in Operation /\ "IO" \in Caller /\ what.op = "request"
  BY DEF Operation, Caller
<1>2. /\ calls # <<>> /\ NewCall("IO", what) /\ UNCHANGED <<context, ready, impl, ui>>
      /\ IF HasExistingStore THEN Apply(NextId, c, storage, io) ELSE Drop(NextId, io)
  BY DEF RequestCookies
<1> HIDE DEF what
<1>3. /\ Grows /\ NextId \in Id /\ NextId \notin DOMAIN calls /\ c \in Call
      /\ DOMAIN calls' = DOMAIN calls \cup {NextId} /\ calls'[NextId] = c
      /\ NextId # 1
  BY <1>1, <1>2, OneMoreCall
<1>4. c.what = what /\ c.by = "IO"
  BY DEF Called
<1> HIDE DEF c
<1>5. CASE HasExistingStore
  <2>1. /\ io \in Seq(Task) /\ Fit(io) /\ InOrder(io)
        /\ \A k \in DOMAIN calls : Waits(io, k) => calls[k].by # "IO"
    BY QueueFits
  <2>2. \A k \in 1 .. NextId - 1 : Pending(k) /\ calls[k].by = c.by => Astray(k)
    BY <1>4, <2>1 DEF IInv, Placed, Pending
  <2>3. storage \in Storage /\ AsAsked(storage, wanted) /\ Within(storage, applied)
        /\ impl \in BOOLEAN
    BY DEF IInv, TypeOK, Storage, Known
  <2>4. /\ c.what.op # "schemes"
        /\ ~context => HasStore(storage) \/ c.what.op \in {"path", "create"}
    BY <1>1, <1>4, <1>5 DEF HasExistingStore
  <2>5. \A k \in DOMAIN calls : k # NextId /\ Waits(io, k) => Waits(io, k)
    OBVIOUS
  <2>6. \A k \in DOMAIN calls' : k \in DOMAIN calls \/ k = NextId
    BY <1>3
  <2>7. Apply(NextId, c, storage, io)
    BY <1>2, <1>5
  <2> QED BY <1>2, <1>3, <2>1, <2>2, <2>3, <2>4, <2>5, <2>6, <2>7, ApplyKeeps
<1>6. CASE ~HasExistingStore
  <2>1. 1 \notin applied
    BY <1>6 DEF IInv, Created, HasExistingStore
  <2> QED BY <1>2, <1>3, <1>4, <1>6, <2>1, NotReported, DropKeeps
<1> QED BY <1>5, <1>6

-----------------------------------------------------------------------------
(* The creation of the manager: nothing was called before.                 *)
LEMMA Fresh ==
  ASSUME IInv, calls = <<>>, NEW t \in Caller, NEW what \in Operation, what.op = "create",
         NewCall(t, what), UNCHANGED context
  PROVE  /\ Grows /\ 1 \in Id /\ DOMAIN calls' = {1} /\ calls'[1] = Called(t, what)
         /\ Called(t, what) \in Call /\ calls'[1].early /\ NextId = 1
         /\ io = <<>> /\ ui = <<>> /\ 1 \notin applied /\ 1 \notin answered
         /\ Fit(io) /\ InOrder(io) /\ io \in Seq(Task)
<1>1. /\ Grows /\ NextId \in Id /\ DOMAIN calls' = DOMAIN calls \cup {NextId}
      /\ calls'[NextId] = Called(t, what) /\ Called(t, what) \in Call /\ NextId = 1
  BY OneMoreCall
<1>2. DOMAIN calls = {}
  BY CallIds
<1>3. 1 \notin applied /\ 1 \notin answered
  BY <1>2 DEF IInv, Known
<1> QED BY <1>1, <1>2, <1>3, QueueFits DEF Grows

LEMMA FreshApply ==
  ASSUME IInv, calls = <<>>, NEW t \in Caller, NEW what \in Operation, what.op = "create",
         NewCall(t, what), UNCHANGED <<context, ready, ui>>,
         NEW st \in Storage, AsAsked(st, wanted), Within(st, applied),
         HasStore(storage) => HasStore(st), Apply(1, Called(t, what), st, io),
         impl' \in BOOLEAN, impl => impl', context => impl'
  PROVE  IInv'
<1> DEFINE c == Called(t, what)
<1>1. /\ Grows /\ 1 \in Id /\ DOMAIN calls' = {1} /\ calls'[1] = c /\ c \in Call
      /\ Fit(io) /\ InOrder(io) /\ io \in Seq(Task)
  BY Fresh
<1>2. c.what.op = "create"
  BY DEF Called
<1> HIDE DEF c
<1>3. \A k \in DOMAIN calls' : k \in DOMAIN calls \/ k = 1
  BY <1>1
<1>4. \A k \in DOMAIN calls : k # 1 /\ Waits(io, k) => Waits(io, k)
  OBVIOUS
<1>5. \A k \in 1 .. 1 - 1 : Pending(k) /\ calls[k].by = c.by => Astray(k)
  OBVIOUS
<1>6. /\ Apply(1, c, st, io) /\ 1 \in DOMAIN calls' /\ c.what.op # "schemes"
      /\ ~context => HasStore(st) \/ c.what.op \in {"path", "create"}
      /\ 1 = 1 => IF context THEN impl' ELSE c.what.op = "create"
  BY <1>1, <1>2 DEF c
<1> QED BY <1>1, <1>3, <1>4, <1>5, <1>6, ApplyKeeps

LEMMA CreateManagerStep ==
  ASSUME IInv, NEW t \in Caller, NEW dir \in Place, CreateManager(t, dir)
  PROVE  IInv'
<1> DEFINE what == [op |-> "create", arg |-> dir]
<1>1. what \in Operation /\ what.op = "create"
  BY DEF Operation
<1>2. /\ calls = <<>> /\ ~context /\ NewCall(t, what) /\ UNCHANGED <<context, ready, impl>>
      /\ IF t = "IO"
         THEN Method(1, Called(t, what), io)
         ELSE /\ io' = Append(io, [kind |-> "Method", id |-> 1])
              /\ UNCHANGED <<storage, ui, flushing, answered, history>>
  BY DEF CreateManager
<1> HIDE DEF what
<1>3. NextId = 1
  BY <1>1, <1>2, Fresh
<1>4. CASE t = "IO"
  <2>1. Called(t, what).what.op = "create"
    BY <1>1 DEF Called
  <2>2. ui' = ui /\ Apply(1, Called(t, what), storage, io)
    BY <1>2, <1>4, <2>1 DEF Method
  <2>3. storage \in Storage /\ AsAsked(storage, wanted) /\ Within(storage, applied)
        /\ impl' \in BOOLEAN
    BY <1>2 DEF IInv, TypeOK, Storage, Known
  <2> QED BY <1>1, <1>2, <2>2, <2>3, FreshApply
<1>5. CASE t # "IO"
  <2>1. t \in Caller \ {"IO"}
    BY <1>5
  <2>2. /\ UNCHANGED <<context, ready, impl, storage, ui, flushing, answered, history>>
        /\ io' = Append(io, [kind |-> "Method", id |-> NextId])
    BY <1>2, <1>3, <1>5
  <2> QED BY <1>1, <1>2, <2>1, <2>2, PostMethod
<1> QED BY <1>4, <1>5

LEMMA GetDefaultStep ==
  ASSUME IInv, NEW t \in Caller, GetDefaultCookieManager(t)
  PROVE  IInv'
<1> DEFINE what == [op |-> "create", arg |-> "memory"]
<1>1. what \in Operation /\ what.op = "create"
  BY DEF Operation, Place
<1>2. /\ calls = <<>> /\ context /\ NewCall(t, what) /\ UNCHANGED context
      /\ \/ /\ InitWithContext(Called(t, what), io) /\ UNCHANGED <<ready, ui>>
         \/ /\ ready' = TRUE \/ UNCHANGED ready
            /\ io' = Append(io, [kind |-> "WithContext", id |-> 1])
            /\ UNCHANGED <<impl, storage, ui, flushing, answered, history>>
         \/ /\ ui' = Append(ui, 1)
            /\ UNCHANGED <<ready, impl, storage, io, flushing, answered, history>>
  BY DEF GetDefaultCookieManager
<1> HIDE DEF what
<1>3. /\ Grows /\ 1 \in Id /\ DOMAIN calls' = {1} /\ calls'[1].early
      /\ io = <<>> /\ ui = <<>> /\ Fit(io) /\ InOrder(io) /\ io \in Seq(Task)
  BY <1>1, <1>2, Fresh
<1>4. \A k \in DOMAIN calls' : calls'[k].early
  BY <1>3
<1>5. ready \in BOOLEAN /\ answered \subseteq applied /\ ui \in Seq(Id)
  BY DEF IInv, TypeOK, Known
<1>6. CASE InitWithContext(Called(t, what), io) /\ UNCHANGED <<ready, ui>>
  <2>1. PICK st \in WithURLRequestContext : Apply(1, Called(t, what), st, io)
    BY <1>6 DEF InitWithContext
  <2>2. st \in Storage /\ HasStore(st) /\ AsAsked(st, wanted) /\ Within(st, applied)
    BY ContextAsAsked DEF IInv, Known
  <2>3. impl' = TRUE
    BY <1>6 DEF InitWithContext
  <2>4. impl' \in BOOLEAN /\ (impl => impl') /\ (context => impl')
    BY <2>3
  <2> QED BY <1>1, <1>2, <1>6, <2>1, <2>2, <2>4, FreshApply
<1>7. CASE /\ ready' = TRUE \/ UNCHANGED ready
           /\ io' = Append(io, [kind |-> "WithContext", id |-> 1])
           /\ UNCHANGED <<impl, storage, ui, flushing, answered, history>>
  <2>1. ready' \in BOOLEAN /\ applied' = applied
    BY <1>5, <1>7 DEF history
  <2>2. io' \in Seq(Task) /\ Fit(io)' /\ InOrder(io)'
    BY <1>2, <1>3, <1>7, <2>1, PostOther
  <2>3. DOMAIN ui' = {} /\ ui' \in Seq(Id) /\ answered' = answered
    BY <1>3, <1>7
  <2> QED BY <1>2, <1>3, <1>4, <1>5, <1>7, <2>1, <2>2, <2>3, WaitKeeps
<1>8. CASE /\ ui' = Append(ui, 1)
           /\ UNCHANGED <<ready, impl, storage, io, flushing, answered, history>>
  <2>1. ui' = <<1>>
    BY <1>3, <1>8
  <2>2. ui' \in Seq(Id) /\ \A k \in DOMAIN ui' : ui'[k] = 1
    BY <1>3, <2>1
  <2>3. io' \in Seq(Task) /\ Fit(io)' /\ InOrder(io)'
    BY <1>3, <1>8, FitKept DEF history
  <2>4. \A k \in DOMAIN ui' : context /\ ui'[k] \in DOMAIN calls' /\ calls'[ui'[k]].early
    BY <1>2, <1>3, <2>2
  <2> QED BY <1>2, <1>3, <1>4, <1>5, <1>8, <2>2, <2>3, <2>4, WaitKeeps
<1> QED BY <1>2, <1>6, <1>7, <1>8

-----------------------------------------------------------------------------
(* The IO thread runs its next task.                                       *)
LEMMA RunMethodStep ==
  ASSUME IInv, RunMethod
  PROVE  IInv'
<1> DEFINE id == Head(io).id
           c == calls[id]
           rest == Tail(io)
<1>1. /\ io # <<>> /\ Head(io).kind = "Method" /\ UNCHANGED <<context, ready, calls, impl>>
      /\ Method(id, c, rest)
  BY DEF RunMethod, RunIO
<1>2. /\ Head(io) = io[1] /\ Head(io) \in Task /\ TaskFits(Head(io))
      /\ rest \in Seq(Task) /\ Fit(rest) /\ InOrder(rest)
      /\ \A x : Waits(io, x) <=> Waits(rest, x) \/ id = x
      /\ \A x : Waits(rest, x) => id < x
  BY <1>1, TakenTask
<1>3. id \in DOMAIN calls /\ c.by # "IO" /\ (id = 1 => ~context)
  BY <1>1, <1>2 DEF TaskFits
<1> HIDE DEF id, c, rest
<1>4. Grows /\ DOMAIN calls' = DOMAIN calls /\ calls'[id] = c
  BY <1>1, SameCalls DEF c
<1>5. id \in Id /\ c \in Call /\ (id = 1 => c.what.op = "create")
  BY <1>3, CallIds DEF c, IInv, Early
<1>6. /\ \A k \in DOMAIN calls' : k \in DOMAIN calls \/ k = id
      /\ \A k \in DOMAIN calls : k # id /\ Waits(io, k) => Waits(rest, k)
  BY <1>2, <1>4
<1>7. \A k \in 1 .. id - 1 : Pending(k) /\ calls[k].by = c.by => Astray(k)
  <2> SUFFICES ASSUME NEW k \in 1 .. id - 1, Pending(k) PROVE Astray(k)
    OBVIOUS
  <2>1. k < id /\ ~(id < k) /\ k # id
    BY <1>5, CallsAssumption DEF Id
  <2>2. ~Waits(io, k)
    BY <1>2, <2>1
  <2> QED BY <2>2 DEF IInv, Placed, Pending
<1>8. storage \in Storage /\ AsAsked(storage, wanted) /\ Within(storage, applied)
      /\ impl \in BOOLEAN /\ ready \in BOOLEAN /\ ui \in Seq(Id)
  BY DEF IInv, TypeOK, Storage, Known
<1>9. impl' \in BOOLEAN /\ (impl => impl')
  BY <1>1, <1>8
<1>10. CASE /\ context
            /\ \E st \in WithURLRequestContext : Apply(id, c, st, rest)
            /\ ui' = ui
  <2>1. PICK st \in WithURLRequestContext : Apply(id, c, st, rest)
    BY <1>10
  <2>2. st \in Storage /\ HasStore(st) /\ AsAsked(st, wanted) /\ Within(st, applied)
    BY <1>8, ContextAsAsked
  <2>3. id = 1 => IF context THEN impl' ELSE c.what.op = "create"
    BY <1>3, <1>10
  <2>4. id \in DOMAIN calls' /\ UNCHANGED <<ready, ui>>
    BY <1>1, <1>3, <1>4, <1>10
  <2> QED BY <1>2, <1>4, <1>5, <1>6, <1>7, <1>9, <1>10, <2>1, <2>2, <2>3, <2>4, ApplyKeeps
<1>11. CASE /\ context /\ ~impl
            /\ ui' = Append(ui, id) /\ io' = rest
            /\ UNCHANGED <<storage, flushing, answered, history>>
  <2>1. \A k \in DOMAIN calls' : calls'[k].early
    BY <1>1, <1>11, NotReported DEF IInv, Created
  <2>2. /\ ui' \in Seq(Id)
        /\ \A k \in DOMAIN ui' : context /\ ui'[k] \in DOMAIN calls' /\ calls'[ui'[k]].early
    <3>1. /\ ui' \in Seq(Id) /\ \A k \in DOMAIN ui' : k \in DOMAIN ui \/ ui'[k] = id
          /\ \A k \in DOMAIN ui : ui'[k] = ui[k]
      BY <1>5, <1>8, <1>11, AppendParts
    <3>2. \A k \in DOMAIN ui : ui[k] \in DOMAIN calls
      BY DEF IInv, Queues
    <3> QED BY <1>3, <1>4, <1>11, <2>1, <3>1, <3>2
  <2>3. Fit(io)' /\ InOrder(io)' /\ io' \in Seq(Task)
    BY <1>2, <1>4, <1>11, FitKept DEF history
  <2>4. answered \subseteq answered' /\ answered' \subseteq applied
    BY <1>11 DEF IInv, Known
  <2> QED BY <1>1, <1>4, <1>8, <1>11, <2>1, <2>2, <2>3, <2>4, WaitKeeps
<1>12. CASE /\ ~context /\ ui' = ui /\ (HasStore(storage) \/ c.what.op \in {"create", "path"})
            /\ Apply(id, c, storage, rest)
  <2>1. c.what.op = "schemes" => HasStore(storage)
    BY <1>12
  <2>2. ~context => HasStore(storage) \/ c.what.op \in {"path", "create"}
    BY <1>12
  <2>3. id = 1 => IF context THEN impl' ELSE c.what.op = "create"
    BY <1>5, <1>12
  <2>4. id \in DOMAIN calls' /\ UNCHANGED <<ready, ui>>
    BY <1>1, <1>3, <1>4, <1>12
  <2> QED BY <1>2, <1>4, <1>5, <1>6, <1>7, <1>8, <1>9, <1>12, <2>1, <2>2, <2>3, <2>4, ApplyKeeps
<1>13. CASE ~context /\ ~HasStore(storage) /\ c.what.op # "create"
  <2>1. calls # <<>>
    BY <1>3, CallIds
  <2>2. io[1] = First
    BY <1>13, <2>1 DEF IInv, Created
  <2>3. id = 1
    BY <1>2, <2>2 DEF id, First
  <2> QED BY <1>5, <1>13, <2>3
<1> QED BY <1>1, <1>10, <1>11, <1>12, <1>13 DEF Method

LEMMA RunWithContextStep ==
  ASSUME IInv, RunWithContext
  PROVE  IInv'
<1> DEFINE id == Head(io).id
           c == calls[id]
           rest == Tail(io)
<1>1. /\ io # <<>> /\ Head(io).kind = "WithContext" /\ UNCHANGED <<context, ready, calls, ui>>
      /\ impl' = TRUE \/ (id # 1 /\ UNCHANGED impl)
      /\ \E st \in WithURLRequestContext : Apply(id, c, st, rest)
  BY DEF RunWithContext, RunIO, InitWithContext
<1>2. /\ Head(io) \in Task /\ TaskFits(Head(io))
      /\ rest \in Seq(Task) /\ Fit(rest) /\ InOrder(rest)
      /\ \A x : Waits(io, x) <=> Waits(rest, x)
  BY <1>1, TakenTask
<1>3. context /\ id \in DOMAIN calls /\ c.early
  BY <1>1, <1>2 DEF TaskFits
<1> HIDE DEF id, c, rest
<1>4. Grows /\ DOMAIN calls' = DOMAIN calls /\ calls'[id] = c
  BY <1>1, SameCalls DEF c
<1>5. id \in Id /\ c \in Call
  BY <1>3, CallIds DEF c
<1>6. /\ \A k \in DOMAIN calls' : k \in DOMAIN calls \/ k = id
      /\ \A k \in DOMAIN calls : k # id /\ Waits(io, k) => Waits(rest, k)
  BY <1>2, <1>4
<1>7. \A k \in 1 .. id - 1 : Pending(k) /\ calls[k].by = c.by => Astray(k)
  <2> SUFFICES ASSUME NEW k \in 1 .. id - 1, k \in DOMAIN calls PROVE Astray(k)
    BY DEF Pending
  <2>1. k <= id
    BY <1>5, CallsAssumption DEF Id
  <2> QED BY <1>3, <2>1 DEF IInv, Early, Astray, c
<1>8. /\ impl' \in BOOLEAN /\ (impl => impl')
      /\ id = 1 => IF context THEN impl' ELSE c.what.op = "create"
  <2>1. impl \in BOOLEAN
    BY DEF IInv, TypeOK
  <2>2. CASE impl' = TRUE
    BY <1>3, <2>2
  <2>3. CASE id # 1 /\ UNCHANGED impl
    BY <2>1, <2>3
  <2> QED BY <1>1, <2>2, <2>3
<1>9. PICK st \in WithURLRequestContext : Apply(id, c, st, rest)
  BY <1>1
<1>10. st \in Storage /\ HasStore(st) /\ AsAsked(st, wanted) /\ Within(st, applied)
  BY ContextAsAsked DEF IInv, Known
<1>11. id \in DOMAIN calls' /\ UNCHANGED <<ready, ui>>
  BY <1>1, <1>3, <1>4
<1> QED BY <1>2, <1>4, <1>5, <1>6, <1>7, <1>8, <1>9, <1>10, <1>11, ApplyKeeps

LEMMA RunCallbackStep ==
  ASSUME IInv, RunCallback
  PROVE  IInv'
<1> DEFINE id == Head(io).id
           rest == Tail(io)
<1>1. /\ io # <<>> /\ Head(io).kind = "Complete" /\ UNCHANGED <<context, ready, calls, impl>>
      /\ answered' = answered \cup {id} /\ io' = rest
      /\ UNCHANGED <<storage, ui, flushing, history>>
  BY DEF RunCallback, RunIO
<1>2. /\ Head(io) = io[1] /\ TaskFits(Head(io))
      /\ rest \in Seq(Task) /\ Fit(rest) /\ InOrder(rest)
      /\ \A x : Waits(io, x) <=> Waits(rest, x)
  BY <1>1, TakenTask
<1>3. id \in applied
  BY <1>1, <1>2 DEF TaskFits
<1> HIDE DEF id, rest
<1>4. Grows
  BY <1>1, SameCalls
<1>5. Fit(io)' /\ InOrder(io)' /\ io' \in Seq(Task)
  BY <1>1, <1>2, <1>4, FitKept DEF history
<1>6. ~(~context /\ calls # <<>> /\ ~HasStore(storage))
  BY <1>1, <1>2 DEF IInv, Created, First
<1>7. \A k \in DOMAIN calls' : k \notin applied /\ k \notin dropped
                                 => Waits(io', k) \/ (context /\ calls'[k].early)
  BY <1>1, <1>2 DEF IInv, Placed, Pending, Astray
<1>8. answered \subseteq answered' /\ answered' \subseteq applied
  BY <1>1, <1>3 DEF IInv, Known
<1>9. /\ ui' \in Seq(Id) /\ ready' \in BOOLEAN
      /\ \A k \in DOMAIN ui' : context /\ ui'[k] \in DOMAIN calls' /\ calls'[ui'[k]].early
  BY <1>1 DEF IInv, TypeOK, Queues
<1> QED BY <1>1, <1>4, <1>5, <1>6, <1>7, <1>8, <1>9, WaitKeeps

LEMMA RunUIStep ==
  ASSUME IInv, RunUI
  PROVE  IInv'
<1>1. /\ ui # <<>> /\ ui' = Tail(ui) /\ ready' = TRUE
      /\ io' = Append(io, [kind |-> "WithContext", id |-> Head(ui)])
      /\ UNCHANGED <<context, impl, storage, calls, flushing, answered, history>>
  BY DEF RunUI
<1>2. /\ ui \in Seq(Id)
      /\ \A k \in DOMAIN ui : context /\ ui[k] \in DOMAIN calls /\ calls[ui[k]].early
  BY DEF IInv, TypeOK, Queues
<1>3. /\ ui' \in Seq(Id) /\ Head(ui) \in Id /\ context
      /\ Head(ui) \in DOMAIN calls /\ calls[Head(ui)].early
      /\ \A k \in DOMAIN ui' : ui'[k] \in DOMAIN calls /\ calls[ui'[k]].early
  <2>1. /\ ui' \in Seq(Id) /\ Head(ui) = ui[1] /\ Head(ui) \in Id /\ 1 \in DOMAIN ui
        /\ \A k \in DOMAIN ui' : k + 1 \in DOMAIN ui /\ ui'[k] = ui[k + 1]
    BY <1>1, <1>2, TailParts
  <2> QED BY <1>2, <2>1
<1>4. Grows
  BY <1>1, SameCalls
<1>5. /\ io' \in Seq(Task) /\ Fit(io)' /\ InOrder(io)'
      /\ \A x : Waits(io, x) => Waits(io', x)
  BY <1>1, <1>3, <1>4, PostOther DEF history
<1>6. \A k \in DOMAIN calls' : k \notin applied /\ k \notin dropped
                                 => Waits(io', k) \/ (context /\ calls'[k].early)
  BY <1>1, <1>5 DEF IInv, Placed, Pending, Astray
<1>7. answered \subseteq answered' /\ answered' \subseteq applied /\ ready' \in BOOLEAN
  BY <1>1 DEF IInv, Known
<1> QED BY <1>1, <1>3, <1>4, <1>5, <1>6, <1>7, WaitKeeps

LEMMA IdleStep ==
  ASSUME IInv, ready' \in BOOLEAN,
         UNCHANGED <<context, impl, storage, calls, queues, flushing, answered, history>>
  PROVE  IInv'
<1>1. Grows /\ UNCHANGED <<io, ui, calls, context>>
  BY SameCalls DEF queues
<1>2. Fit(io)' /\ InOrder(io)' /\ io' \in Seq(Task)
  BY <1>1, QueueFits, FitKept DEF history
<1>3. \A k \in DOMAIN calls' : k \notin applied /\ k \notin dropped
                                 => Waits(io', k) \/ (context /\ calls'[k].early)
  BY <1>1 DEF IInv, Placed, Pending, Astray
<1>4. /\ ui' \in Seq(Id) /\ answered \subseteq answered' /\ answered' \subseteq applied
      /\ \A k \in DOMAIN ui' : context /\ ui'[k] \in DOMAIN calls' /\ calls'[ui'[k]].early
  BY <1>1 DEF IInv, TypeOK, Queues, Known
<1>5. ~context /\ calls' # <<>> /\ ~HasStore(storage) => io' # <<>> /\ io'[1] = First
  BY <1>1 DEF IInv, Created
<1> QED BY <1>1, <1>2, <1>3, <1>4, <1>5, WaitKeeps

-----------------------------------------------------------------------------
(* A store did its work; nothing but the answers changes.                  *)
LEMMA StoreKeeps ==
  ASSUME IInv, External, flushing' \subseteq flushing,
         storage' \in Storage, HasStore(storage') <=> HasStore(storage),
         AsAsked(storage', wanted), Within(storage', applied),
         answered \subseteq answered', answered' \subseteq applied,
         io' \in Seq(Task), Fit(io)', InOrder(io)',
         \A x : Waits(io, x) => Waits(io', x),
         io # <<>> => io' # <<>> /\ io'[1] = io[1]
  PROVE  IInv'
<1>1. UNCHANGED <<context, ready, impl, calls, ui, applied, dropped, overtaken, wanted>>
  BY DEF External, history
<1>2. Grows
  BY <1>1, SameCalls
<1>3. TypeOK'
  <2>1. answered' \subseteq Id /\ flushing' \subseteq Id
    BY DEF IInv, TypeOK
  <2>2. HasStore(storage') => storage'.schemes # "none"
    BY DEF AsAsked, IInv, TypeOK
  <2> QED BY <1>1, <2>1, <2>2 DEF IInv, TypeOK, Storage
<1>4. Known'
  BY <1>1 DEF IInv, Known
<1>5. Early'
  BY <1>2, EarlyKept
<1>6. Queues'
  BY <1>1 DEF IInv, Queues
<1>7. Placed'
  BY <1>1 DEF IInv, Placed, Pending, Astray
<1>8. Created'
  BY <1>1 DEF IInv, Created
<1>9. OnlyEarlyGoAstray'
  BY <1>1 DEF IInv, OnlyEarlyGoAstray, OvertakenOnlyEarly, DroppedOnlyEarly
<1> QED BY <1>1, <1>3, <1>4, <1>5, <1>6, <1>7, <1>8, <1>9 DEF IInv

LEMMA StoreFlushedStep ==
  ASSUME IInv, NEW id \in flushing, StoreFlushed(id)
  PROVE  IInv'
<1>1. /\ flushing' = flushing \ {id} /\ External /\ storage' = storage /\ answered' = answered
      /\ io' = Append(io, [kind |-> "Complete", id |-> id])
  BY DEF StoreFlushed, RunAsyncCompletion
<1>2. UNCHANGED <<context, calls, applied, wanted>>
  BY <1>1 DEF External, history
<1>3. Grows
  BY <1>2, SameCalls
<1>4. id \in Id /\ id \in applied'
  BY <1>2 DEF IInv, TypeOK, Known
<1>5. io \in Seq(Task) /\ Fit(io) /\ InOrder(io) /\ applied \subseteq applied'
  BY <1>2, QueueFits
<1>6. /\ io' \in Seq(Task) /\ Fit(io)' /\ InOrder(io)'
      /\ \A x : Waits(io, x) => Waits(io', x)
      /\ io # <<>> => io' # <<>> /\ io'[1] = io[1]
  BY <1>1, <1>3, <1>4, <1>5, QueueKept
<1>7. /\ storage' \in Storage /\ AsAsked(storage', wanted) /\ Within(storage', applied)
      /\ flushing' \subseteq flushing /\ answered \subseteq answered' /\ answered' \subseteq applied
  BY <1>1 DEF IInv, TypeOK, Storage, Known
<1> QED BY <1>1, <1>6, <1>7, StoreKeeps

LEMMA ConcatParts ==
  ASSUME NEW S, NEW s \in Seq(S), NEW r \in Seq(S)
  PROVE  /\ s \o r \in Seq(S) /\ DOMAIN s = 1 .. Len(s) /\ Len(s) \in Nat
         /\ Len(r) \in Nat /\ Len(s \o r) = Len(s) + Len(r)
         /\ DOMAIN (s \o r) = 1 .. Len(s) + Len(r)
         /\ \A k \in 1 .. Len(s) : (s \o r)[k] = s[k]
         /\ \A k \in Len(s) + 1 .. Len(s) + Len(r) : (s \o r)[k] = r[k - Len(s)]
<1>1. s \o r \in Seq(S) /\ DOMAIN s = 1 .. Len(s) /\ Len(s) \in Nat /\ Len(r) \in Nat
  OBVIOUS
<1>2. Len(s \o r) = Len(s) + Len(r)
  OBVIOUS
<1>3. DOMAIN (s \o r) = 1 .. Len(s) + Len(r)
  BY <1>1, <1>2
<1>4. \A k \in 1 .. Len(s) : (s \o r)[k] = s[k]
  BY <1>1
<1>5. \A k \in Len(s) + 1 .. Len(s) + Len(r) : (s \o r)[k] = r[k - Len(s)]
  BY <1>1
<1> QED BY <1>1, <1>2, <1>3, <1>4, <1>5

LEMMA StoreLoadedStep ==
  ASSUME IInv, NEW store \in Stores(storage), StoreLoaded(store)
  PROVE  IInv'
<1> DEFINE w == store.waiting
           d == [k \in 1 .. Len(w) |-> [kind |-> "Complete", id |-> w[k]]]
<1>1. /\ External /\ flushing' = flushing /\ answered' = answered \cup store.asking
      /\ io' = io \o d
      /\ storage' = IF store = storage.store THEN [storage EXCEPT !.store = Loaded(store)]
                                             ELSE [storage EXCEPT !.older = @ \ {store}]
  BY DEF StoreLoaded
<1>2. storage \in Storage /\ store \in Store /\ WaitFrom(store, applied)
  <2>1. storage \in Storage /\ Within(storage, applied)
    BY DEF IInv, TypeOK, Storage, Known
  <2> QED BY <2>1 DEF Stores, Storage, Within
<1>3. /\ storage' \in Storage
      /\ HasStore(storage') <=> HasStore(storage)
      /\ AsAsked(storage', wanted) /\ Within(storage', applied)
  <2>1. AsAsked(storage, wanted) /\ Within(storage, applied)
    BY DEF IInv, Known
  <2>2. CASE store = storage.store
    <3> DEFINE new == Loaded(store)
    <3>1. new \in Store /\ new.place = store.place /\ new.schemes = store.schemes
          /\ new.asking = {} /\ new.waiting = <<>>
      <4>1. /\ <<>> \in Seq(Id) /\ {} \in SUBSET Id
            /\ store.place \in Place /\ store.schemes \in {"default", "custom"}
        BY <1>2 DEF Store
      <4>2. PICK e \in SUBSET Id, q \in Seq(Id) : e = {} /\ q = <<>>
        BY <4>1
      <4>3. new = [store EXCEPT !.loaded = TRUE, !.asking = e, !.waiting = q]
        BY <4>2, Zenon DEF Loaded
      <4> HIDE DEF new
      <4>4. /\ new \in Store /\ new.place = store.place /\ new.schemes = store.schemes
            /\ new.asking = e /\ new.waiting = q
        BY <1>2, <4>2, <4>3 DEF Store
      <4> QED BY <4>2, <4>4, Zenon
    <3> HIDE DEF new
    <3>2. storage' = [storage EXCEPT !.store = new]
      BY <1>1, <2>2 DEF new
    <3>3. storage' \in Storage /\ storage'.store = new /\ storage'.path = storage.path
          /\ storage'.schemes = storage.schemes /\ storage'.older = storage.older
      BY <1>2, <3>1, <3>2 DEF Storage
    <3>4. HasStore(storage') <=> HasStore(storage)
      BY <2>2, <3>1, <3>3 DEF HasStore
    <3>5. AsAsked(storage', wanted)
      BY <2>1, <2>2, <3>1, <3>3, <3>4 DEF AsAsked
    <3>6. Within(storage', applied)
      BY <2>1, <3>1, <3>3 DEF Within, WaitFrom
    <3> QED BY <3>3, <3>4, <3>5, <3>6
  <2>3. CASE store # storage.store
    <3>1. storage' = [storage EXCEPT !.older = @ \ {store}]
      BY <1>1, <2>3
    <3>2. storage' \in Storage /\ storage'.store = storage.store /\ storage'.path = storage.path
          /\ storage'.schemes = storage.schemes /\ storage'.older \subseteq storage.older
      BY <1>2, <3>1 DEF Storage
    <3> QED BY <2>1, <3>2 DEF HasStore, AsAsked, Within
  <2> QED BY <2>2, <2>3
<1>4. w \in Seq(Id) /\ store.asking \subseteq applied /\ \A k \in DOMAIN w : w[k] \in applied
  BY <1>2 DEF Store, WaitFrom
<1>5. UNCHANGED <<context, calls, applied, wanted>>
  BY <1>1 DEF External, history
<1> HIDE DEF w
<1>6. d \in Seq(Task) /\ Len(d) = Len(w) /\ Len(w) \in Nat
      /\ \A k \in 1 .. Len(w) : d[k].kind = "Complete" /\ d[k].id \in applied
  <2>1. Len(w) \in Nat /\ DOMAIN w = 1 .. Len(w) /\ \A k \in 1 .. Len(w) : w[k] \in Id
    BY <1>4
  <2>2. \A k \in 1 .. Len(w) : [kind |-> "Complete", id |-> w[k]] \in Task
    BY <2>1 DEF Task
  <2> QED BY <1>4, <2>1, <2>2
<1> HIDE DEF d
<1>7. io \in Seq(Task) /\ Fit(io) /\ InOrder(io)
  BY QueueFits
<1>8. /\ io' \in Seq(Task) /\ DOMAIN io = 1 .. Len(io) /\ Len(io) \in Nat
      /\ DOMAIN io' = 1 .. Len(io) + Len(w)
      /\ \A k \in DOMAIN io : k \in DOMAIN io' /\ io'[k] = io[k]
      /\ \A k \in DOMAIN io' :
           k \notin DOMAIN io => io'[k].kind = "Complete" /\ io'[k].id \in applied
  <2>1. /\ io' \in Seq(Task) /\ DOMAIN io = 1 .. Len(io) /\ Len(io) \in Nat
        /\ DOMAIN io' = 1 .. Len(io) + Len(w)
        /\ \A k \in 1 .. Len(io) : io'[k] = io[k]
        /\ \A k \in Len(io) + 1 .. Len(io) + Len(w) : io'[k] = d[k - Len(io)]
    BY <1>1, <1>6, <1>7, ConcatParts
  <2>2. ASSUME NEW k \in DOMAIN io PROVE k \in DOMAIN io' /\ io'[k] = io[k]
    BY <1>6, <2>1
  <2>3. ASSUME NEW k \in DOMAIN io', k \notin DOMAIN io
        PROVE  io'[k].kind = "Complete" /\ io'[k].id \in applied
    <3>1. k \in Len(io) + 1 .. Len(io) + Len(w) /\ k - Len(io) \in 1 .. Len(w)
      BY <1>6, <2>1, <2>3
    <3>2. io'[k] = d[k - Len(io)]
      BY <2>1, <3>1
    <3> QED BY <1>6, <3>1, <3>2
  <2> QED BY <2>1, <2>2, <2>3
<1>9. Fit(io)'
  <2> SUFFICES ASSUME NEW k \in DOMAIN io' PROVE TaskFits(io[k])'
    BY DEF Fit
  <2>1. CASE k \in DOMAIN io
    BY <1>5, <1>7, <1>8, <2>1 DEF Fit, TaskFits
  <2>2. CASE k \notin DOMAIN io
    BY <1>5, <1>8, <2>2 DEF TaskFits
  <2> QED BY <2>1, <2>2
<1>10. InOrder(io)'
  <2>1. \A k \in DOMAIN io' : io'[k].kind = "Method" => k \in DOMAIN io /\ io'[k] = io[k]
    BY <1>8
  <2> QED BY <1>7, <2>1 DEF InOrder
<1>11. \A x : Waits(io, x) => Waits(io', x)
  BY <1>8 DEF Waits
<1>12. io # <<>> => io' # <<>> /\ io'[1] = io[1]
  BY <1>6, <1>7, <1>8
<1>13. flushing' \subseteq flushing /\ answered \subseteq answered' /\ answered' \subseteq applied
  BY <1>1, <1>4 DEF IInv, Known
<1> QED BY <1>1, <1>3, <1>8, <1>9, <1>10, <1>11, <1>12, <1>13, StoreKeeps

-----------------------------------------------------------------------------
LEMMA InitHolds ==
  Init => IInv
<1> SUFFICES ASSUME Init PROVE IInv
  OBVIOUS
<1>1. ~HasStore(storage) /\ NoStore.asking = {} /\ NoStore.waiting = <<>>
  BY DEF Init, HasStore, NoStore
<1>2. TypeOK
  <2>1. context \in BOOLEAN /\ ready \in BOOLEAN /\ impl \in BOOLEAN
    BY Zenon DEF Init
  <2>2. storage \in [path : Place, schemes : Schemes, store : Store \cup {NoStore}, older : SUBSET Store]
    BY DEF Init, Place, Schemes
  <2>3. calls \in Seq(Call) /\ Len(calls) <= MaxCalls /\ io \in Seq(Task) /\ ui \in Seq(Id)
    BY CallsAssumption DEF Init
  <2>4. wanted \in [path : Place, schemes : {"default", "custom"}]
    BY DEF Init
  <2>5. flushing = {} /\ answered = {} /\ applied = {} /\ dropped = {} /\ overtaken = {}
    BY DEF Init
  <2> QED BY <1>1, <2>1, <2>2, <2>3, <2>4, <2>5 DEF TypeOK
<1>3. AsAsked(storage, wanted)
  BY <1>1 DEF Init, AsAsked
<1>4. Known
  BY <1>1 DEF Init, Known, Within, WaitFrom
<1>5. Early /\ Queues /\ Placed /\ Created /\ OnlyEarlyGoAstray
  BY DEF Init, Early, Queues, Fit, InOrder, Placed, Created, OnlyEarlyGoAstray,
    OvertakenOnlyEarly, DroppedOnlyEarly
<1> QED BY <1>2, <1>3, <1>4, <1>5 DEF IInv

LEMMA NextStep ==
  IInv /\ [Next]_vars => IInv'
<1> SUFFICES ASSUME IInv, [Next]_vars PROVE IInv'
  OBVIOUS
<1>1. CASE GetBrowserContext
  <2>1. ready' \in BOOLEAN
    BY <1>1 DEF GetBrowserContext
  <2> QED BY <1>1, <2>1, IdleStep DEF GetBrowserContext
<1>2. CASE UNCHANGED vars
  <2>1. ready' \in BOOLEAN
    BY <1>2 DEF vars, IInv, TypeOK
  <2> QED BY <1>2, <2>1, IdleStep DEF vars
<1>3. CASE \E t \in Caller \ {"UI"}, what \in Operation : CallMethod(t, what)
  <2>1. PICK t \in Caller, what \in Operation : CallMethod(t, what)
    BY <1>3
  <2> QED BY <2>1, CallMethodStep
<1> QED
  BY <1>1, <1>2, <1>3, CreateManagerStep, GetDefaultStep, RequestCookiesStep, RunMethodStep,
     RunWithContextStep, RunCallbackStep, RunUIStep, StoreLoadedStep, StoreFlushedStep
  DEF Next, RunsTask, StoreWorks

LEMMA Inductive ==
  Spec => []IInv
BY InitHolds, NextStep, PTL DEF Spec

(* Every variable keeps its type, for any number of calls and directories. *)
THEOREM CookiesTypeCorrect == Spec => []TypeOK
<1>1. IInv => TypeOK
  BY DEF IInv
<1> QED BY <1>1, Inductive, PTL

(* Whatever the order in which a directory and schemes are asked for, and  *)
(* whether the store is there by then: the store in use is the one for the *)
(* directory asked for last, with the schemes asked for last.              *)
THEOREM StoreIsAsAsked == Spec => []StoreAsAsked
<1>1. IInv => StoreAsAsked
  BY DEF IInv, AsAsked, StoreAsAsked
<1> QED BY <1>1, Inductive, PTL

(* The calls of a thread take effect in turn, and none is given up, but for*)
(* those made before the creation of the manager was reported.             *)
THEOREM CallsTakeTurns == Spec => []OnlyEarlyGoAstray
<1>1. IInv => OnlyEarlyGoAstray
  BY DEF IInv
<1> QED BY <1>1, Inductive, PTL

-----------------------------------------------------------------------------
(* How often an identifier is in a sequence, or in a set.                  *)
Places(s, x) == {k \in DOMAIN s : s[k] = x}
Count(s, x) == Cardinality(Places(s, x))
One(S, x) == Cardinality({x} \cap S)

(* ... waits for a thread, for the current store, and for older ones.      *)
Ids(q) == [k \in DOMAIN q |-> q[k].id]
Held(store, x) == Count(store.waiting, x) + One(store.asking, x)
WaitingAt(stores, x) == {p \in stores \X Id : p[2] \in DOMAIN p[1].waiting /\ p[1].waiting[p[2]] = x}
AskingAt(stores, x) == {store \in stores : x \in store.asking}
HeldBy(stores, x) == Cardinality(WaitingAt(stores, x)) + Cardinality(AskingAt(stores, x))

Total(q, u, st, f, a, d, x) ==
  Count(Ids(q), x) + Count(u, x) + Held(st.store, x) + HeldBy(st.older, x)
  + One(f, x) + One(a, x) + One(d, x)

(* Exactly the calls in C are somewhere, and once.                         *)
Once(q, u, st, f, a, d, C) ==
  \A x \in Id : /\ x \in C => Total(q, u, st, f, a, d, x) = 1
                /\ x \notin C => Total(q, u, st, f, a, d, x) = 0

(* Older stores are those that still have something to do.                 *)
Short(store) == Len(store.waiting) <= MaxCalls
Older(st) ==
  /\ IsFiniteSet(st.older) /\ Short(st.store)
  /\ \A store \in st.older : Busy(store) /\ Short(store)

OnceInv == Older(storage) /\ Once(io, ui, storage, flushing, answered, dropped, DOMAIN calls)

-----------------------------------------------------------------------------
(* Counting.                                                               *)
LEMMA OneParts ==
  ASSUME NEW S, NEW x
  PROVE  /\ x \in S => One(S, x) = 1
         /\ x \notin S => One(S, x) = 0
         /\ One(S, x) \in Nat
<1>1. CASE x \in S
  <2>1. {x} \cap S = {x}
    BY <1>1
  <2> QED BY <1>1, <2>1, FS_Singleton DEF One
<1>2. CASE x \notin S
  <2>1. {x} \cap S = {}
    BY <1>2
  <2> QED BY <1>2, <2>1, FS_EmptySet DEF One
<1> QED BY <1>1, <1>2

LEMMA OneUnion ==
  ASSUME NEW S, NEW T, NEW x, x \notin S \/ x \notin T
  PROVE  One(S \cup T, x) = One(S, x) + One(T, x)
<1>1. CASE x \in S
  BY <1>1, OneParts
<1>2. CASE x \notin S /\ x \in T
  BY <1>2, OneParts
<1>3. CASE x \notin S /\ x \notin T
  BY <1>3, OneParts
<1> QED BY <1>1, <1>2, <1>3

(* Sets of the same size.                                                  *)
LEMMA SameSize ==
  ASSUME NEW S, IsFiniteSet(S), NEW T, NEW f \in [S -> T],
         \A a, b \in S : f[a] = f[b] => a = b,
         \A t \in T : \E a \in S : f[a] = t
  PROVE  IsFiniteSet(T) /\ Cardinality(T) = Cardinality(S)
<1>1. f \in Bijection(S, T)
  BY DEF Bijection, Injection, Surjection, IsInjective
<1>2. ExistsBijection(S, T)
  BY <1>1 DEF ExistsBijection
<1> QED BY <1>2, FS_Bijection

LEMMA DisjointSize ==
  ASSUME NEW S, IsFiniteSet(S), NEW T, IsFiniteSet(T), S \cap T = {}
  PROVE  /\ IsFiniteSet(S \cup T) /\ Cardinality(S \cup T) = Cardinality(S) + Cardinality(T)
         /\ Cardinality(S) \in Nat /\ Cardinality(T) \in Nat
<1>1. Cardinality(S \cap T) = 0
  BY FS_EmptySet
<1>2. Cardinality(S) \in Nat /\ Cardinality(T) \in Nat
  BY FS_CardinalityType
<1>3. Cardinality(S \cup T) = Cardinality(S) + Cardinality(T) - Cardinality(S \cap T)
      /\ IsFiniteSet(S \cup T)
  BY FS_Union
<1> QED BY <1>1, <1>2, <1>3

LEMMA CountType ==
  ASSUME NEW S, NEW s \in Seq(S), NEW x
  PROVE  /\ IsFiniteSet(Places(s, x)) /\ Count(s, x) \in Nat
         /\ Count(s, x) = 0 <=> \A k \in DOMAIN s : s[k] # x
<1>1. DOMAIN s = 1 .. Len(s) /\ Len(s) \in Nat
  OBVIOUS
<1>2. IsFiniteSet(1 .. Len(s)) /\ Places(s, x) \in SUBSET (1 .. Len(s))
  BY <1>1, FS_Interval DEF Places
<1>3. IsFiniteSet(Places(s, x))
  BY <1>2, FS_Subset
<1>4. Count(s, x) = 0 <=> Places(s, x) = {}
  BY <1>3, FS_EmptySet DEF Count
<1>5. Places(s, x) = {} <=> \A k \in DOMAIN s : s[k] # x
  BY DEF Places
<1> QED BY <1>3, <1>4, <1>5, FS_CardinalityType DEF Count

LEMMA CountConcat ==
  ASSUME NEW S, NEW s \in Seq(S), NEW r \in Seq(S), NEW x
  PROVE  Count(s \o r, x) = Count(s, x) + Count(r, x)
<1> DEFINE A == Places(s, x)
           B == Places(r, x)
           n == Len(s)
           B2 == {k \in n + 1 .. n + Len(r) : k - n \in B}
<1>1. /\ DOMAIN s = 1 .. n /\ n \in Nat /\ Len(r) \in Nat /\ DOMAIN r = 1 .. Len(r)
      /\ DOMAIN (s \o r) = 1 .. n + Len(r)
      /\ \A k \in 1 .. n : (s \o r)[k] = s[k]
      /\ \A k \in n + 1 .. n + Len(r) : (s \o r)[k] = r[k - n]
  BY ConcatParts
<1>2. IsFiniteSet(A) /\ IsFiniteSet(B)
  BY CountType
<1>3. IsFiniteSet(B2) /\ Cardinality(B2) = Cardinality(B)
  <2> DEFINE f == [k \in B |-> k + n]
  <2>1. \A k \in B : k \in 1 .. Len(r)
    BY <1>1 DEF Places
  <2>2. \A k \in B : k + n \in B2
    BY <1>1, <2>1
  <2>3. f \in [B -> B2]
    BY <2>2
  <2>4. \A t \in B2 : t - n \in B /\ f[t - n] = t
    BY <1>1, <2>1
  <2>5. \A a, b \in B : f[a] = f[b] => a = b
    BY <1>1, <2>1
  <2> HIDE DEF f, B2, B
  <2>6. \A t \in B2 : \E a \in B : f[a] = t
    BY <2>4
  <2> QED BY <1>2, <2>3, <2>5, <2>6, SameSize
<1>4. Places(s \o r, x) = A \cup B2
  <2>1. ASSUME NEW k \in Places(s \o r, x) PROVE k \in A \cup B2
    <3>1. k \in 1 .. n + Len(r) /\ (s \o r)[k] = x
      BY <1>1, <2>1 DEF Places
    <3>2. CASE k \in 1 .. n
      BY <1>1, <3>1, <3>2 DEF Places
    <3>3. CASE k \in n + 1 .. n + Len(r)
      <4>1. k - n \in 1 .. Len(r)
        BY <1>1, <3>3
      <4> QED BY <1>1, <3>1, <3>3, <4>1 DEF Places
    <3> QED BY <1>1, <3>1, <3>2, <3>3
  <2>2. ASSUME NEW k \in A PROVE k \in Places(s \o r, x)
    BY <1>1, <2>2 DEF Places
  <2>3. ASSUME NEW k \in B2 PROVE k \in Places(s \o r, x)
    <3>1. k \in n + 1 .. n + Len(r) /\ k - n \in B
      BY <2>3
    <3>2. k \in 1 .. n + Len(r)
      BY <1>1, <3>1
    <3> QED BY <1>1, <3>1, <3>2 DEF Places
  <2> HIDE DEF A, B2
  <2> QED BY <2>1, <2>2, <2>3
<1>5. A \cap B2 = {}
  BY <1>1 DEF Places
<1> HIDE DEF B2
<1> QED BY <1>2, <1>3, <1>4, <1>5, DisjointSize DEF Count

LEMMA CountAppend ==
  ASSUME NEW S, NEW s \in Seq(S), NEW y \in S, NEW x
  PROVE  /\ x = y => Count(Append(s, y), x) = Count(s, x) + 1
         /\ x # y => Count(Append(s, y), x) = Count(s, x)
<1>1. <<y>> \in Seq(S) /\ Append(s, y) = s \o <<y>>
  OBVIOUS
<1>2. Count(Append(s, y), x) = Count(s, x) + Count(<<y>>, x)
  BY <1>1, CountConcat
<1>3. ASSUME x = y PROVE Count(<<y>>, x) = 1
  <2>1. Places(<<y>>, x) = {1}
    BY <1>3 DEF Places
  <2> QED BY <2>1, FS_Singleton DEF Count
<1>4. ASSUME x # y PROVE Count(<<y>>, x) = 0
  <2>1. Places(<<y>>, x) = {}
    BY <1>4 DEF Places
  <2> QED BY <2>1, FS_EmptySet DEF Count
<1>5. Count(s, x) \in Nat
  BY CountType
<1> QED BY <1>2, <1>3, <1>4, <1>5

LEMMA CountTail ==
  ASSUME NEW S, NEW s \in Seq(S), s # <<>>, NEW x
  PROVE  /\ x = Head(s) => Count(s, x) = Count(Tail(s), x) + 1
         /\ x # Head(s) => Count(s, x) = Count(Tail(s), x)
<1>1. Head(s) \in S /\ Tail(s) \in Seq(S) /\ <<Head(s)>> \in Seq(S)
  OBVIOUS
<1>2. s = <<Head(s)>> \o Tail(s)
  BY <1>1
<1>3. Count(s, x) = Count(<<Head(s)>>, x) + Count(Tail(s), x)
  BY <1>1, <1>2, CountConcat
<1>4. ASSUME x = Head(s) PROVE Count(<<Head(s)>>, x) = 1
  <2>1. Places(<<Head(s)>>, x) = {1}
    BY <1>4 DEF Places
  <2> QED BY <2>1, FS_Singleton DEF Count
<1>5. ASSUME x # Head(s) PROVE Count(<<Head(s)>>, x) = 0
  <2>1. Places(<<Head(s)>>, x) = {}
    BY <1>5 DEF Places
  <2> QED BY <2>1, FS_EmptySet DEF Count
<1>6. Count(Tail(s), x) \in Nat
  BY <1>1, CountType
<1> QED BY <1>3, <1>4, <1>5, <1>6

(* A sequence without repetition is not longer than there are identifiers. *)
LEMMA NoLongerThanIds ==
  ASSUME NEW s \in Seq(Id), \A x \in Id : Count(s, x) <= 1
  PROVE  Len(s) <= MaxCalls
<1>1. DOMAIN s = 1 .. Len(s) /\ Len(s) \in Nat /\ s \in [1 .. Len(s) -> Id]
  OBVIOUS
<1>2. ASSUME NEW i \in DOMAIN s, NEW j \in DOMAIN s, s[i] = s[j] PROVE i = j
  <2> DEFINE P == Places(s, s[i])
  <2>1. i \in P /\ j \in P /\ IsFiniteSet(P) /\ s[i] \in Id
    BY <1>1, <1>2, CountType DEF Places
  <2>2. Cardinality(P) \in Nat /\ Cardinality(P) <= 1
    BY <2>1, FS_CardinalityType DEF Count
  <2>3. Cardinality(P) # 0
    BY <2>1, FS_EmptySet
  <2> HIDE DEF P
  <2>4. Cardinality(P) = 1
    BY <2>2, <2>3
  <2>5. \E y : P = {y}
    BY <2>1, <2>4, FS_Singleton
  <2> QED BY <2>1, <2>5
<1>3. IsFiniteSet(Id) /\ Cardinality(Id) = MaxCalls
  BY FS_Interval, CallsAssumption DEF Id
<1>4. s \in Injection(1 .. Len(s), Id)
  BY <1>1, <1>2 DEF Injection, IsInjective
<1>5. Cardinality(1 .. Len(s)) <= Cardinality(Id)
  BY <1>3, <1>4, FS_Injection
<1>6. Cardinality(1 .. Len(s)) = Len(s)
  BY <1>1, FS_Interval
<1> QED BY <1>3, <1>5, <1>6

-----------------------------------------------------------------------------
(* The calls of a queue of tasks.                                          *)
LEMMA SeqIsFunction ==
  ASSUME NEW S, NEW s \in Seq(S)
  PROVE  s = [k \in DOMAIN s |-> s[k]]
OBVIOUS

LEMMA IdsParts ==
  ASSUME NEW q \in Seq(Task)
  PROVE  /\ Ids(q) \in Seq(Id)
         /\ \A t \in Task : Ids(Append(q, t)) = Append(Ids(q), t.id)
         /\ q # <<>> => /\ Ids(q) # <<>> /\ Ids(Tail(q)) = Tail(Ids(q))
                        /\ Head(Ids(q)) = Head(q).id
<1>1. DOMAIN q = 1 .. Len(q) /\ Len(q) \in Nat /\ \A k \in 1 .. Len(q) : q[k] \in Task
  OBVIOUS
<1>2. Ids(q) \in Seq(Id) /\ Len(Ids(q)) = Len(q)
      /\ \A k \in 1 .. Len(q) : Ids(q)[k] = q[k].id
  BY <1>1 DEF Ids, Task
<1>3. ASSUME NEW t \in Task PROVE Ids(Append(q, t)) = Append(Ids(q), t.id)
  <2>1. t.id \in Id
    BY DEF Task
  <2>2. /\ Append(q, t) \in Seq(Task) /\ Len(Append(q, t)) = Len(q) + 1
        /\ DOMAIN Append(q, t) = 1 .. Len(q) + 1
        /\ \A k \in 1 .. Len(q) : Append(q, t)[k] = q[k]
        /\ Append(q, t)[Len(q) + 1] = t
    BY <1>1, AppendParts
  <2>3. /\ Append(Ids(q), t.id) \in Seq(Id)
        /\ DOMAIN Append(Ids(q), t.id) = 1 .. Len(q) + 1
        /\ \A k \in 1 .. Len(q) : Append(Ids(q), t.id)[k] = Ids(q)[k]
        /\ Append(Ids(q), t.id)[Len(q) + 1] = t.id
    BY <1>2, <2>1, AppendParts
  <2>4. \A k \in 1 .. Len(q) + 1 : Append(q, t)[k].id = Append(Ids(q), t.id)[k]
    BY <1>1, <1>2, <2>2, <2>3
  <2>5. Ids(Append(q, t)) = [k \in 1 .. Len(q) + 1 |-> Append(q, t)[k].id]
    BY <2>2 DEF Ids
  <2>6. Append(Ids(q), t.id) = [k \in 1 .. Len(q) + 1 |-> Append(Ids(q), t.id)[k]]
    BY <2>3, SeqIsFunction
  <2> QED BY <2>4, <2>5, <2>6
<1>4. ASSUME q # <<>>
      PROVE  Ids(q) # <<>> /\ Ids(Tail(q)) = Tail(Ids(q)) /\ Head(Ids(q)) = Head(q).id
  <2>1. Ids(q) # <<>> /\ Head(Ids(q)) = Head(q).id
    BY <1>1, <1>2, <1>4
  <2>2. /\ DOMAIN Tail(q) = 1 .. Len(q) - 1 /\ Len(q) >= 1
        /\ \A k \in 1 .. Len(q) - 1 : Tail(q)[k] = q[k + 1]
    BY <1>4, TailParts
  <2>3. /\ DOMAIN Tail(Ids(q)) = 1 .. Len(q) - 1 /\ Tail(Ids(q)) \in Seq(Id)
        /\ \A k \in 1 .. Len(q) - 1 : Tail(Ids(q))[k] = Ids(q)[k + 1]
    BY <1>2, <2>1, TailParts
  <2>4. \A k \in 1 .. Len(q) - 1 : Tail(q)[k].id = Tail(Ids(q))[k]
    BY <1>1, <1>2, <2>2, <2>3
  <2>5. Ids(Tail(q)) = [k \in 1 .. Len(q) - 1 |-> Tail(q)[k].id]
    BY <2>2 DEF Ids
  <2>6. Tail(Ids(q)) = [k \in 1 .. Len(q) - 1 |-> Tail(Ids(q))[k]]
    BY <2>3, SeqIsFunction
  <2> QED BY <2>1, <2>4, <2>5, <2>6
<1> QED BY <1>2, <1>3, <1>4

LEMMA IdsConcat ==
  ASSUME NEW q \in Seq(Task), NEW w \in Seq(Id), NEW d \in Seq(Task), Len(d) = Len(w),
         \A k \in 1 .. Len(w) : d[k].id = w[k]
  PROVE  Ids(q \o d) = Ids(q) \o w
<1> DEFINE n == Len(q)
           m == Len(w)
           both == q \o d
           s == Ids(q)
           r == s \o w
<1>1. n \in Nat /\ m \in Nat /\ DOMAIN q = 1 .. n /\ Len(d) = m /\ Len(w) = m /\ Len(q) = n
  OBVIOUS
<1> HIDE DEF n, m
<1>2. /\ both \in Seq(Task) /\ DOMAIN both = 1 .. n + m
      /\ \A k \in 1 .. n : both[k] = q[k]
      /\ \A k \in n + 1 .. n + m : both[k] = d[k - n]
  <2>1. /\ q \o d \in Seq(Task) /\ DOMAIN (q \o d) = 1 .. Len(q) + Len(d)
        /\ \A k \in 1 .. Len(q) : (q \o d)[k] = q[k]
        /\ \A k \in Len(q) + 1 .. Len(q) + Len(d) : (q \o d)[k] = d[k - Len(q)]
    <3>1. q \in Seq(Task) /\ d \in Seq(Task)
      OBVIOUS
    <3> QED BY ONLY <3>1, ConcatParts
  <2> QED BY <1>1, <2>1
<1>3. s \in Seq(Id) /\ DOMAIN s = 1 .. n /\ \A k \in 1 .. n : s[k] = q[k].id
  BY <1>1, IdsParts DEF Ids
<1>4. Len(s) = n
  BY <1>1, <1>3
<1> HIDE DEF s
<1>5. /\ r \in Seq(Id) /\ DOMAIN r = 1 .. n + m
      /\ \A k \in 1 .. n : r[k] = s[k]
      /\ \A k \in n + 1 .. n + m : r[k] = w[k - n]
  <2>1. /\ s \o w \in Seq(Id) /\ DOMAIN (s \o w) = 1 .. Len(s) + Len(w)
        /\ \A k \in 1 .. Len(s) : (s \o w)[k] = s[k]
        /\ \A k \in Len(s) + 1 .. Len(s) + Len(w) : (s \o w)[k] = w[k - Len(s)]
    BY <1>3, ConcatParts
  <2> QED BY <1>1, <1>4, <2>1
<1>6. r = [k \in 1 .. n + m |-> r[k]]
  BY <1>5, SeqIsFunction
<1>7. Ids(both) = [k \in 1 .. n + m |-> both[k].id]
  BY <1>2 DEF Ids
<1> HIDE DEF both, r
<1>8. ASSUME NEW k \in 1 .. n + m PROVE both[k].id = r[k]
  <2>1. CASE k \in 1 .. n
    BY <1>2, <1>3, <1>5, <2>1
  <2>2. CASE k \in n + 1 .. n + m
    <3>1. k - n \in 1 .. m
      BY <1>1, <2>2
    <3>2. d[k - n].id = w[k - n]
      BY <1>1, <3>1
    <3> QED BY <1>2, <1>5, <2>2, <3>2
  <2> QED BY <1>1, <2>1, <2>2
<1>9. Ids(both) = r
  BY <1>6, <1>7, <1>8
<1> QED BY <1>9 DEF both, r, s

-----------------------------------------------------------------------------
(* The calls that stores keep.                                             *)
LEMMA StoreParts ==
  ASSUME NEW store \in Store \cup {NoStore}
  PROVE  store.waiting \in Seq(Id) /\ store.asking \subseteq Id
<1>1. CASE store \in Store
  BY <1>1 DEF Store
<1>2. CASE store = NoStore
  <2>1. store.waiting = <<>> /\ store.asking = {}
    BY <1>2 DEF NoStore
  <2> QED BY <2>1
<1> QED BY <1>1, <1>2

LEMMA HeldType ==
  ASSUME NEW store \in Store \cup {NoStore}, NEW x
  PROVE  /\ store.waiting \in Seq(Id) /\ Held(store, x) \in Nat
         /\ Held(store, x) = 0 <=> x \notin store.asking /\ \A k \in DOMAIN store.waiting : store.waiting[k] # x
<1>1. store.waiting \in Seq(Id)
  BY StoreParts
<1>2. /\ Count(store.waiting, x) \in Nat
      /\ Count(store.waiting, x) = 0 <=> \A k \in DOMAIN store.waiting : store.waiting[k] # x
  BY <1>1, CountType
<1>3. /\ x \in store.asking => One(store.asking, x) = 1
      /\ x \notin store.asking => One(store.asking, x) = 0
  BY OneParts
<1> QED BY <1>1, <1>2, <1>3 DEF Held

LEMMA BusyHolds ==
  ASSUME NEW store \in Store \cup {NoStore}
  PROVE  /\ Busy(store) => \E x \in Id : Held(store, x) >= 1
         /\ ~Busy(store) => \A x : Held(store, x) = 0
<1>1. store.waiting \in Seq(Id) /\ store.asking \subseteq Id
  BY StoreParts
<1>2. ASSUME Busy(store) PROVE \E x \in Id : Held(store, x) >= 1
  <2>1. CASE store.asking # {}
    <3>1. PICK x \in Id : x \in store.asking
      BY <1>1, <2>1
    <3>2. Held(store, x) # 0 /\ Held(store, x) \in Nat
      BY <3>1, HeldType
    <3> QED BY <3>2
  <2>2. CASE store.waiting # <<>>
    <3>1. 1 \in DOMAIN store.waiting /\ store.waiting[1] \in Id
      BY <1>1, <2>2
    <3>2. Held(store, store.waiting[1]) # 0 /\ Held(store, store.waiting[1]) \in Nat
      BY <3>1, HeldType
    <3> QED BY <3>1, <3>2
  <2> QED BY <1>2, <2>1, <2>2 DEF Busy
<1>3. ASSUME ~Busy(store), NEW x PROVE Held(store, x) = 0
  <2>1. x \notin store.asking /\ \A k \in DOMAIN store.waiting : store.waiting[k] # x
    BY <1>1, <1>3 DEF Busy
  <2> QED BY <2>1, HeldType
<1> QED BY <1>2, <1>3

LEMMA HeldByType ==
  ASSUME NEW stores, IsFiniteSet(stores), NEW x
  PROVE  /\ IsFiniteSet(WaitingAt(stores, x)) /\ IsFiniteSet(AskingAt(stores, x))
         /\ HeldBy(stores, x) \in Nat
<1>1. IsFiniteSet(Id)
  BY FS_Interval, CallsAssumption DEF Id
<1>2. IsFiniteSet(stores \X Id)
  BY <1>1, FS_Product
<1>3. WaitingAt(stores, x) \in SUBSET (stores \X Id) /\ AskingAt(stores, x) \in SUBSET stores
  BY DEF WaitingAt, AskingAt
<1>4. IsFiniteSet(WaitingAt(stores, x)) /\ IsFiniteSet(AskingAt(stores, x))
  BY <1>2, <1>3, FS_Subset
<1>5. Cardinality(WaitingAt(stores, x)) \in Nat /\ Cardinality(AskingAt(stores, x)) \in Nat
  BY <1>4, FS_CardinalityType
<1> QED BY <1>4, <1>5 DEF HeldBy

LEMMA HeldByAdd ==
  ASSUME NEW stores, IsFiniteSet(stores), NEW store \in Store \cup {NoStore}, Short(store),
         store \notin stores, NEW x
  PROVE  HeldBy(stores \cup {store}, x) = HeldBy(stores, x) + Held(store, x)
<1> DEFINE w == store.waiting
           P == Places(w, x)
           W1 == WaitingAt({store}, x)
<1>1. w \in Seq(Id) /\ IsFiniteSet(P) /\ \A k \in DOMAIN w : k \in Id
  <2>1. w \in Seq(Id)
    BY HeldType
  <2>2. DOMAIN w = 1 .. Len(w) /\ Len(w) \in Nat
    BY <2>1
  <2>3. \A k \in DOMAIN w : k \in Id
    BY <2>2, CallsAssumption DEF Id, Short
  <2> QED BY <2>1, <2>3, CountType
<1>2. IsFiniteSet(W1) /\ Cardinality(W1) = Cardinality(P)
  <2> DEFINE f == [k \in P |-> <<store, k>>]
  <2>1. \A k \in P : <<store, k>> \in W1
    BY <1>1 DEF Places, WaitingAt
  <2>2. f \in [P -> W1] /\ \A a, b \in P : f[a] = f[b] => a = b
    BY <2>1
  <2>3. \A t \in W1 : \E a \in P : f[a] = t
    <3> SUFFICES ASSUME NEW t \in W1 PROVE t[2] \in P /\ f[t[2]] = t
      OBVIOUS
    <3>1. t \in {store} \X Id /\ t[2] \in P
      BY DEF WaitingAt, Places
    <3>2. t = <<store, t[2]>>
      BY <3>1
    <3> QED BY <3>1, <3>2
  <2> HIDE DEF f, P, W1
  <2> QED BY <1>1, <2>2, <2>3, SameSize
<1>3. /\ WaitingAt(stores \cup {store}, x) = WaitingAt(stores, x) \cup W1
      /\ WaitingAt(stores, x) \cap W1 = {}
  BY DEF WaitingAt
<1>4. Cardinality(WaitingAt(stores \cup {store}, x))
        = Cardinality(WaitingAt(stores, x)) + Count(w, x)
  BY <1>2, <1>3, HeldByType, DisjointSize DEF Count
<1>5. IsFiniteSet(AskingAt(stores, x)) /\ store \notin AskingAt(stores, x)
  BY HeldByType DEF AskingAt
<1>6. CASE x \in store.asking
  <2>1. AskingAt(stores \cup {store}, x) = AskingAt(stores, x) \cup {store}
    BY <1>6 DEF AskingAt
  <2>2. Cardinality(AskingAt(stores \cup {store}, x)) = Cardinality(AskingAt(stores, x)) + 1
    BY <1>5, <2>1, FS_AddElement
  <2>3. One(store.asking, x) = 1 /\ Count(w, x) \in Nat
    BY <1>1, <1>6, OneParts, CountType
  <2>4. Cardinality(WaitingAt(stores, x)) \in Nat /\ Cardinality(AskingAt(stores, x)) \in Nat
    BY HeldByType, FS_CardinalityType
  <2> QED BY <1>4, <2>2, <2>3, <2>4 DEF HeldBy, Held
<1>7. CASE x \notin store.asking
  <2>1. AskingAt(stores \cup {store}, x) = AskingAt(stores, x)
    BY <1>7 DEF AskingAt
  <2>2. One(store.asking, x) = 0 /\ Count(w, x) \in Nat
    BY <1>1, <1>7, OneParts, CountType
  <2>3. Cardinality(WaitingAt(stores, x)) \in Nat /\ Cardinality(AskingAt(stores, x)) \in Nat
    BY HeldByType, FS_CardinalityType
  <2> QED BY <1>4, <2>1, <2>2, <2>3 DEF HeldBy, Held
<1> QED BY <1>6, <1>7

LEMMA HeldByRemove ==
  ASSUME NEW stores, IsFiniteSet(stores), NEW store \in Store \cup {NoStore}, Short(store),
         store \in stores, NEW x
  PROVE  HeldBy(stores, x) = HeldBy(stores \ {store}, x) + Held(store, x)
<1>1. /\ IsFiniteSet(stores \ {store}) /\ store \notin stores \ {store}
      /\ stores = (stores \ {store}) \cup {store}
  BY FS_RemoveElement
<1> QED BY <1>1, HeldByAdd

-----------------------------------------------------------------------------
(* Where all calls are.                                                    *)
Fine(q, u, st) == q \in Seq(Task) /\ u \in Seq(Id) /\ st \in Storage /\ Older(st)

LEMMA TotalType ==
  ASSUME NEW q, NEW u, NEW st, Fine(q, u, st), NEW f, NEW a, NEW d, NEW x
  PROVE  /\ Count(Ids(q), x) \in Nat /\ Count(u, x) \in Nat
         /\ Held(st.store, x) \in Nat /\ HeldBy(st.older, x) \in Nat
         /\ One(f, x) \in Nat /\ One(a, x) \in Nat /\ One(d, x) \in Nat
         /\ Total(q, u, st, f, a, d, x) \in Nat
<1>1. q \in Seq(Task) /\ u \in Seq(Id) /\ st.store \in Store \cup {NoStore} /\ IsFiniteSet(st.older)
  BY DEF Fine, Storage, Older
<1>2. Count(Ids(q), x) \in Nat /\ Count(u, x) \in Nat
  BY <1>1, IdsParts, CountType
<1>3. Held(st.store, x) \in Nat /\ HeldBy(st.older, x) \in Nat
  BY <1>1, HeldType, HeldByType
<1>4. One(f, x) \in Nat /\ One(a, x) \in Nat /\ One(d, x) \in Nat
  BY OneParts
<1> QED BY <1>2, <1>3, <1>4 DEF Total

(* A call that was nowhere is put somewhere.                               *)
LEMMA PutTask ==
  ASSUME NEW q, NEW u, NEW st, Fine(q, u, st), NEW f, NEW a, NEW d, NEW C, NEW id \in Id,
         Once(q, u, st, f, a, d, C \ {id}), id \in C,
         NEW kind \in {"Method", "WithContext", "Complete"}
  PROVE  Once(Append(q, [kind |-> kind, id |-> id]), u, st, f, a, d, C)
<1> DEFINE t == [kind |-> kind, id |-> id]
<1>1. t \in Task /\ t.id = id /\ q \in Seq(Task) /\ Ids(q) \in Seq(Id)
  BY IdsParts DEF Fine, Task
<1> HIDE DEF t
<1>2. Ids(Append(q, t)) = Append(Ids(q), id)
  BY <1>1, IdsParts
<1> SUFFICES ASSUME NEW x \in Id
             PROVE  /\ x \in C => Total(Append(q, t), u, st, f, a, d, x) = 1
                    /\ x \notin C => Total(Append(q, t), u, st, f, a, d, x) = 0
  BY DEF Once, t
<1>3. /\ x = id => Count(Append(Ids(q), id), x) = Count(Ids(q), x) + 1
      /\ x # id => Count(Append(Ids(q), id), x) = Count(Ids(q), x)
  BY <1>1, CountAppend
<1>4. /\ x \in C \ {id} => Total(q, u, st, f, a, d, x) = 1
      /\ x \notin C \ {id} => Total(q, u, st, f, a, d, x) = 0
  BY DEF Once
<1>5. /\ Count(Ids(q), x) \in Nat /\ Count(u, x) \in Nat
      /\ Held(st.store, x) \in Nat /\ HeldBy(st.older, x) \in Nat
      /\ One(f, x) \in Nat /\ One(a, x) \in Nat /\ One(d, x) \in Nat
  BY TotalType
<1> QED BY <1>2, <1>3, <1>4, <1>5 DEF Total

LEMMA PutUI ==
  ASSUME NEW q, NEW u, NEW st, Fine(q, u, st), NEW f, NEW a, NEW d, NEW C, NEW id \in Id,
         Once(q, u, st, f, a, d, C \ {id}), id \in C
  PROVE  Once(q, Append(u, id), st, f, a, d, C)
<1> SUFFICES ASSUME NEW x \in Id
             PROVE  /\ x \in C => Total(q, Append(u, id), st, f, a, d, x) = 1
                    /\ x \notin C => Total(q, Append(u, id), st, f, a, d, x) = 0
  BY DEF Once
<1>1. /\ x = id => Count(Append(u, id), x) = Count(u, x) + 1
      /\ x # id => Count(Append(u, id), x) = Count(u, x)
  BY CountAppend DEF Fine
<1>2. /\ x \in C \ {id} => Total(q, u, st, f, a, d, x) = 1
      /\ x \notin C \ {id} => Total(q, u, st, f, a, d, x) = 0
  BY DEF Once
<1>3. /\ Count(Ids(q), x) \in Nat /\ Count(u, x) \in Nat
      /\ Held(st.store, x) \in Nat /\ HeldBy(st.older, x) \in Nat
      /\ One(f, x) \in Nat /\ One(a, x) \in Nat /\ One(d, x) \in Nat
  BY TotalType
<1> QED BY <1>1, <1>2, <1>3 DEF Total

LEMMA PutMark ==
  ASSUME NEW q, NEW u, NEW st, Fine(q, u, st), NEW f, NEW a, NEW d, NEW C, NEW id \in Id,
         Once(q, u, st, f, a, d, C \ {id}), id \in C
  PROVE  /\ Once(q, u, st, f \cup {id}, a, d, C)
         /\ Once(q, u, st, f, a \cup {id}, d, C)
         /\ Once(q, u, st, f, a, d \cup {id}, C)
<1>1. ASSUME NEW x \in Id
      PROVE  /\ x \in C \ {id} => Total(q, u, st, f, a, d, x) = 1
             /\ x \notin C \ {id} => Total(q, u, st, f, a, d, x) = 0
  BY DEF Once
<1>2. id \notin f /\ id \notin a /\ id \notin d
  <2>1. Total(q, u, st, f, a, d, id) = 0
    BY <1>1
  <2>2. One(f, id) = 0 /\ One(a, id) = 0 /\ One(d, id) = 0
    BY <2>1, TotalType DEF Total
  <2> QED BY <2>2, OneParts
<1>3. ASSUME NEW S, id \notin S, NEW x
      PROVE  /\ x = id => One(S \cup {id}, x) = One(S, x) + 1
             /\ x # id => One(S \cup {id}, x) = One(S, x)
  <2>1. CASE x = id
    BY <1>3, <2>1, OneParts
  <2>2. CASE x # id
    <3>1. x \in S \cup {id} <=> x \in S
      BY <2>2
    <3>2. CASE x \in S
      BY <2>2, <3>1, <3>2, OneParts
    <3>3. CASE x \notin S
      BY <2>2, <3>1, <3>3, OneParts
    <3> QED BY <3>2, <3>3
  <2> QED BY <2>1, <2>2
<1>4. ASSUME NEW x \in Id
      PROVE  /\ x \in C => Total(q, u, st, f \cup {id}, a, d, x) = 1
             /\ x \notin C => Total(q, u, st, f \cup {id}, a, d, x) = 0
  <2>1. /\ Count(Ids(q), x) \in Nat /\ Count(u, x) \in Nat
        /\ Held(st.store, x) \in Nat /\ HeldBy(st.older, x) \in Nat
        /\ One(f, x) \in Nat /\ One(a, x) \in Nat /\ One(d, x) \in Nat
    BY TotalType
  <2>2. /\ x = id => One(f \cup {id}, x) = One(f, x) + 1
        /\ x # id => One(f \cup {id}, x) = One(f, x)
    BY <1>2, <1>3
  <2>3. /\ x \in C \ {id} => Total(q, u, st, f, a, d, x) = 1
        /\ x \notin C \ {id} => Total(q, u, st, f, a, d, x) = 0
    BY <1>1
  <2> QED BY <2>1, <2>2, <2>3 DEF Total
<1>5. ASSUME NEW x \in Id
      PROVE  /\ x \in C => Total(q, u, st, f, a \cup {id}, d, x) = 1
             /\ x \notin C => Total(q, u, st, f, a \cup {id}, d, x) = 0
  <2>1. /\ Count(Ids(q), x) \in Nat /\ Count(u, x) \in Nat
        /\ Held(st.store, x) \in Nat /\ HeldBy(st.older, x) \in Nat
        /\ One(f, x) \in Nat /\ One(a, x) \in Nat /\ One(d, x) \in Nat
    BY TotalType
  <2>2. /\ x = id => One(a \cup {id}, x) = One(a, x) + 1
        /\ x # id => One(a \cup {id}, x) = One(a, x)
    BY <1>2, <1>3
  <2>3. /\ x \in C \ {id} => Total(q, u, st, f, a, d, x) = 1
        /\ x \notin C \ {id} => Total(q, u, st, f, a, d, x) = 0
    BY <1>1
  <2> QED BY <2>1, <2>2, <2>3 DEF Total
<1>6. ASSUME NEW x \in Id
      PROVE  /\ x \in C => Total(q, u, st, f, a, d \cup {id}, x) = 1
             /\ x \notin C => Total(q, u, st, f, a, d \cup {id}, x) = 0
  <2>1. /\ Count(Ids(q), x) \in Nat /\ Count(u, x) \in Nat
        /\ Held(st.store, x) \in Nat /\ HeldBy(st.older, x) \in Nat
        /\ One(f, x) \in Nat /\ One(a, x) \in Nat /\ One(d, x) \in Nat
    BY TotalType
  <2>2. /\ x = id => One(d \cup {id}, x) = One(d, x) + 1
        /\ x # id => One(d \cup {id}, x) = One(d, x)
    BY <1>2, <1>3
  <2>3. /\ x \in C \ {id} => Total(q, u, st, f, a, d, x) = 1
        /\ x \notin C \ {id} => Total(q, u, st, f, a, d, x) = 0
    BY <1>1
  <2> QED BY <2>1, <2>2, <2>3 DEF Total
<1> QED BY <1>4, <1>5, <1>6 DEF Once

(* ... or taken from somewhere.                                            *)
LEMMA TakeTask ==
  ASSUME NEW q, NEW u, NEW st, Fine(q, u, st), NEW f, NEW a, NEW d, NEW C,
         Once(q, u, st, f, a, d, C), q # <<>>
  PROVE  /\ Head(q).id \in C /\ Head(q).id \in Id /\ Tail(q) \in Seq(Task)
         /\ Once(Tail(q), u, st, f, a, d, C \ {Head(q).id})
<1> DEFINE id == Head(q).id
           s == Ids(q)
<1>1. /\ s \in Seq(Id) /\ s # <<>> /\ Ids(Tail(q)) = Tail(s) /\ Head(s) = id
      /\ Tail(q) \in Seq(Task) /\ Tail(s) \in Seq(Id) /\ id \in Id
  <2>1. q \in Seq(Task)
    BY DEF Fine
  <2>2. s \in Seq(Id) /\ s # <<>> /\ Ids(Tail(q)) = Tail(s) /\ Head(s) = id
    BY <2>1, IdsParts
  <2> HIDE DEF s, id
  <2> QED BY <2>1, <2>2, TailParts
<1> HIDE DEF s, id
<1>2. ASSUME NEW x \in Id
      PROVE  /\ x = id => Count(s, x) = Count(Tail(s), x) + 1
             /\ x # id => Count(s, x) = Count(Tail(s), x)
             /\ Count(Tail(s), x) \in Nat
  BY <1>1, CountTail, CountType
<1>3. ASSUME NEW x \in Id
      PROVE  /\ x \in C => Total(q, u, st, f, a, d, x) = 1
             /\ x \notin C => Total(q, u, st, f, a, d, x) = 0
  BY DEF Once
<1>4. id \in C
  <2>1. /\ Count(Ids(q), id) \in Nat /\ Count(u, id) \in Nat
        /\ Held(st.store, id) \in Nat /\ HeldBy(st.older, id) \in Nat
        /\ One(f, id) \in Nat /\ One(a, id) \in Nat /\ One(d, id) \in Nat
    BY TotalType
  <2>2. Count(s, id) >= 1
    BY <1>1, <1>2
  <2>3. Total(q, u, st, f, a, d, id) >= 1
    BY <2>1, <2>2 DEF Total, s
  <2> QED BY <1>1, <1>3, <2>3
<1>5. ASSUME NEW x \in Id
      PROVE  /\ x \in C \ {id} => Total(Tail(q), u, st, f, a, d, x) = 1
             /\ x \notin C \ {id} => Total(Tail(q), u, st, f, a, d, x) = 0
  <2>1. /\ Count(Ids(q), x) \in Nat /\ Count(u, x) \in Nat
        /\ Held(st.store, x) \in Nat /\ HeldBy(st.older, x) \in Nat
        /\ One(f, x) \in Nat /\ One(a, x) \in Nat /\ One(d, x) \in Nat
    BY TotalType
  <2>2. /\ x = id => Count(s, x) = Count(Tail(s), x) + 1
        /\ x # id => Count(s, x) = Count(Tail(s), x)
        /\ Count(Tail(s), x) \in Nat
    BY <1>2
  <2>3. /\ x \in C => Total(q, u, st, f, a, d, x) = 1
        /\ x \notin C => Total(q, u, st, f, a, d, x) = 0
    BY <1>3
  <2> DEFINE n == Count(Ids(Tail(q)), x)
             m == Count(Ids(q), x)
             all == Total(q, u, st, f, a, d, x)
             left == Total(Tail(q), u, st, f, a, d, x)
  <2>4. n \in Nat /\ (x = id => m = n + 1) /\ (x # id => m = n) /\ m \in Nat
    BY <1>1, <2>1, <2>2 DEF s
  <2>5. /\ all
             = m + Count(u, x) + Held(st.store, x) + HeldBy(st.older, x)
               + One(f, x) + One(a, x) + One(d, x)
        /\ left
             = n + Count(u, x) + Held(st.store, x) + HeldBy(st.older, x)
               + One(f, x) + One(a, x) + One(d, x)
    BY DEF Total
  <2>6. /\ x \in C => all = 1
        /\ x \notin C => all = 0
    BY <2>3
  <2> HIDE DEF n, m, all, left
  <2>7. /\ x \in C \ {id} => left = 1
        /\ x \notin C \ {id} => left = 0
    <3>1. CASE x = id
      <4>1. m = n + 1 /\ n \in Nat
        BY <2>4, <3>1
      <4>2. left \in Nat
        BY ONLY <2>1, <2>4, <2>5
      <4>3. all = left + 1
        BY ONLY <2>1, <2>5, <4>1
      <4>4. all = 1
        BY <1>4, <2>6, <3>1
      <4> QED BY <3>1, <4>2, <4>3, <4>4
    <3>2. CASE x # id
      <4>1. all = left
        BY <2>4, <2>5, <3>2
      <4> QED BY <2>6, <3>2, <4>1
    <3> QED BY <3>1, <3>2
  <2> QED BY <2>7 DEF left
<1> QED BY <1>1, <1>4, <1>5 DEF Once, id

LEMMA TakeUI ==
  ASSUME NEW q, NEW u, NEW st, Fine(q, u, st), NEW f, NEW a, NEW d, NEW C,
         Once(q, u, st, f, a, d, C), u # <<>>
  PROVE  /\ Head(u) \in C /\ Head(u) \in Id /\ Tail(u) \in Seq(Id)
         /\ Once(q, Tail(u), st, f, a, d, C \ {Head(u)})
<1> DEFINE id == Head(u)
<1>1. u \in Seq(Id) /\ Tail(u) \in Seq(Id) /\ id \in Id
  BY TailParts DEF Fine
<1> HIDE DEF id
<1>2. ASSUME NEW x \in Id
      PROVE  /\ x = id => Count(u, x) = Count(Tail(u), x) + 1
             /\ x # id => Count(u, x) = Count(Tail(u), x)
             /\ Count(Tail(u), x) \in Nat
  BY <1>1, CountTail, CountType DEF id
<1>3. ASSUME NEW x \in Id
      PROVE  /\ x \in C => Total(q, u, st, f, a, d, x) = 1
             /\ x \notin C => Total(q, u, st, f, a, d, x) = 0
  BY DEF Once
<1>4. id \in C
  <2>1. /\ Count(Ids(q), id) \in Nat /\ Count(u, id) \in Nat
        /\ Held(st.store, id) \in Nat /\ HeldBy(st.older, id) \in Nat
        /\ One(f, id) \in Nat /\ One(a, id) \in Nat /\ One(d, id) \in Nat
    BY TotalType
  <2>2. Count(u, id) >= 1
    BY <1>1, <1>2
  <2>3. Total(q, u, st, f, a, d, id) >= 1
    BY <2>1, <2>2 DEF Total
  <2> QED BY <1>1, <1>3, <2>3
<1>5. ASSUME NEW x \in Id
      PROVE  /\ x \in C \ {id} => Total(q, Tail(u), st, f, a, d, x) = 1
             /\ x \notin C \ {id} => Total(q, Tail(u), st, f, a, d, x) = 0
  <2>1. /\ Count(Ids(q), x) \in Nat /\ Count(u, x) \in Nat
        /\ Held(st.store, x) \in Nat /\ HeldBy(st.older, x) \in Nat
        /\ One(f, x) \in Nat /\ One(a, x) \in Nat /\ One(d, x) \in Nat
    BY TotalType
  <2>2. /\ x = id => Count(u, x) = Count(Tail(u), x) + 1
        /\ x # id => Count(u, x) = Count(Tail(u), x)
        /\ Count(Tail(u), x) \in Nat
    BY <1>2
  <2>3. /\ x \in C => Total(q, u, st, f, a, d, x) = 1
        /\ x \notin C => Total(q, u, st, f, a, d, x) = 0
    BY <1>3
  <2> DEFINE n == Count(Tail(u), x)
             all == Total(q, u, st, f, a, d, x)
             left == Total(q, Tail(u), st, f, a, d, x)
  <2>4. n \in Nat /\ (x = id => Count(u, x) = n + 1) /\ (x # id => Count(u, x) = n)
    BY <2>2
  <2>5. /\ all
             = Count(Ids(q), x) + Count(u, x) + Held(st.store, x) + HeldBy(st.older, x)
               + One(f, x) + One(a, x) + One(d, x)
        /\ left
             = Count(Ids(q), x) + n + Held(st.store, x) + HeldBy(st.older, x)
               + One(f, x) + One(a, x) + One(d, x)
    BY DEF Total
  <2>6. /\ x \in C => all = 1
        /\ x \notin C => all = 0
    BY <2>3
  <2> HIDE DEF n, all, left
  <2>7. /\ x \in C \ {id} => left = 1
        /\ x \notin C \ {id} => left = 0
    <3>1. CASE x = id
      <4>1. Count(u, x) = n + 1 /\ n \in Nat
        BY <2>4, <3>1
      <4>2. left \in Nat
        BY ONLY <2>1, <2>4, <2>5
      <4>3. all = left + 1
        BY ONLY <2>1, <2>5, <4>1
      <4>4. all = 1
        BY <1>4, <2>6, <3>1
      <4> QED BY <3>1, <4>2, <4>3, <4>4
    <3>2. CASE x # id
      <4>1. all = left
        BY <2>4, <2>5, <3>2
      <4> QED BY <2>6, <3>2, <4>1
    <3> QED BY <3>1, <3>2
  <2> QED BY <2>7 DEF left
<1> QED BY <1>1, <1>4, <1>5 DEF Once, id

LEMMA TakeFlushing ==
  ASSUME NEW q, NEW u, NEW st, Fine(q, u, st), NEW f, NEW a, NEW d, NEW C,
         Once(q, u, st, f, a, d, C), NEW id \in f, id \in Id
  PROVE  id \in C /\ Once(q, u, st, f \ {id}, a, d, C \ {id})
<1>1. ASSUME NEW x \in Id
      PROVE  /\ x \in C => Total(q, u, st, f, a, d, x) = 1
             /\ x \notin C => Total(q, u, st, f, a, d, x) = 0
  BY DEF Once
<1>2. ASSUME NEW x
      PROVE  /\ x = id => One(f, x) = One(f \ {id}, x) + 1
             /\ x # id => One(f, x) = One(f \ {id}, x)
             /\ One(f \ {id}, x) \in Nat
  <2>1. CASE x = id
    BY <2>1, OneParts
  <2>2. CASE x \in f /\ x # id
    BY <2>2, OneParts
  <2>3. CASE x \notin f
    BY <2>3, OneParts
  <2> QED BY <2>1, <2>2, <2>3
<1>3. id \in C
  <2>1. /\ Count(Ids(q), id) \in Nat /\ Count(u, id) \in Nat
        /\ Held(st.store, id) \in Nat /\ HeldBy(st.older, id) \in Nat
        /\ One(f, id) \in Nat /\ One(a, id) \in Nat /\ One(d, id) \in Nat
    BY TotalType
  <2>2. One(f, id) >= 1
    BY <1>2
  <2>3. Total(q, u, st, f, a, d, id) >= 1
    BY <2>1, <2>2 DEF Total
  <2> QED BY <1>1, <2>3
<1>4. ASSUME NEW x \in Id
      PROVE  /\ x \in C \ {id} => Total(q, u, st, f \ {id}, a, d, x) = 1
             /\ x \notin C \ {id} => Total(q, u, st, f \ {id}, a, d, x) = 0
  <2>1. /\ Count(Ids(q), x) \in Nat /\ Count(u, x) \in Nat
        /\ Held(st.store, x) \in Nat /\ HeldBy(st.older, x) \in Nat
        /\ One(f, x) \in Nat /\ One(a, x) \in Nat /\ One(d, x) \in Nat
    BY TotalType
  <2>2. /\ x = id => One(f, x) = One(f \ {id}, x) + 1
        /\ x # id => One(f, x) = One(f \ {id}, x)
        /\ One(f \ {id}, x) \in Nat
    BY <1>2
  <2>3. /\ x \in C => Total(q, u, st, f, a, d, x) = 1
        /\ x \notin C => Total(q, u, st, f, a, d, x) = 0
    BY <1>1
  <2> QED BY <1>3, <2>1, <2>2, <2>3 DEF Total
<1> QED BY <1>3, <1>4 DEF Once

-----------------------------------------------------------------------------
(* Changes of the storage keep what the stores were asked for.             *)
SameHeld(st, new) ==
  /\ Older(new)
  /\ \A x : Held(new.store, x) + HeldBy(new.older, x) = Held(st.store, x) + HeldBy(st.older, x)

LEMMA OnceKept ==
  ASSUME NEW q, NEW u, NEW st, NEW f, NEW a, NEW d, NEW C, NEW new, new \in Storage,
         Fine(q, u, st), SameHeld(st, new), Once(q, u, st, f, a, d, C)
  PROVE  Fine(q, u, new) /\ Once(q, u, new, f, a, d, C)
<1>1. Fine(q, u, new)
  BY DEF Fine, SameHeld
<1>2. ASSUME NEW x \in Id
      PROVE  Total(q, u, new, f, a, d, x) = Total(q, u, st, f, a, d, x)
  <2>1. /\ Count(Ids(q), x) \in Nat /\ Count(u, x) \in Nat
        /\ Held(st.store, x) \in Nat /\ HeldBy(st.older, x) \in Nat
        /\ One(f, x) \in Nat /\ One(a, x) \in Nat /\ One(d, x) \in Nat
    BY TotalType
  <2>2. Held(new.store, x) \in Nat /\ HeldBy(new.older, x) \in Nat
    BY <1>1, TotalType
  <2>3. Held(new.store, x) + HeldBy(new.older, x) = Held(st.store, x) + HeldBy(st.older, x)
    BY DEF SameHeld
  <2> QED BY <2>1, <2>2, <2>3 DEF Total
<1> QED BY <1>1, <1>2 DEF Once

LEMMA SchemesKept ==
  ASSUME NEW st \in Storage, Older(st), NEW s \in Schemes, HasStore(st)
  PROVE  SameHeld(st, WithSchemes(st, s))
<1> DEFINE new == WithSchemes(st, s)
<1>1. st.store \in Store
  BY DEF Storage, HasStore, NoStore
<1>2. /\ new.older = st.older /\ new.store.asking = st.store.asking
      /\ new.store.waiting = st.store.waiting
  BY <1>1 DEF WithSchemes, Storage, Store
<1> HIDE DEF new
<1>3. \A x : Held(new.store, x) = Held(st.store, x)
  BY <1>2 DEF Held
<1>4. Older(new)
  BY <1>2 DEF Older, Short
<1> QED BY <1>2, <1>3, <1>4 DEF SameHeld, new

(* The store in use is none of the older ones.                             *)
LEMMA StoreApart ==
  ASSUME NEW st \in Storage, Older(st),
         \A x \in Id : Held(st.store, x) + HeldBy(st.older, x) <= 1
  PROVE  st.store \notin st.older
<1> SUFFICES ASSUME st.store \in st.older PROVE FALSE
  OBVIOUS
<1>1. st.store \in Store \cup {NoStore} /\ Busy(st.store)
  BY DEF Storage, Older
<1>2. PICK x \in Id : Held(st.store, x) >= 1
  BY <1>1, BusyHolds
<1>3. /\ IsFiniteSet(st.older) /\ Short(st.store) /\ IsFiniteSet(st.older \ {st.store})
  BY FS_RemoveElement DEF Older
<1>4. HeldBy(st.older, x) = HeldBy(st.older \ {st.store}, x) + Held(st.store, x)
  BY <1>1, <1>3, HeldByRemove
<1>5. HeldBy(st.older \ {st.store}, x) \in Nat /\ Held(st.store, x) \in Nat
  BY <1>1, <1>3, HeldByType, HeldType
<1>6. Held(st.store, x) + HeldBy(st.older, x) <= 1
  OBVIOUS
<1> QED BY <1>2, <1>4, <1>5, <1>6

LEMMA PathKept ==
  ASSUME NEW st \in Storage, Older(st), NEW w \in Wanted, AsAsked(st, w),
         \A x \in Id : Held(st.store, x) + HeldBy(st.older, x) <= 1,
         NEW dir \in Place, NEW new \in WithPath(st, dir)
  PROVE  SameHeld(st, new)
<1>1. CASE HasStore(st) /\ st.path = dir
  BY <1>1 DEF WithPath, SameHeld
<1>2. CASE ~(HasStore(st) /\ st.path = dir)
  <2>1. PICK place \in {dir, "memory"} :
          new = Restored([st EXCEPT !.path = dir, !.store = NewStore(place),
                                    !.older = @ \cup {s \in {st.store} : Busy(s)}])
    BY <1>2 DEF WithPath
  <2> DEFINE mid == [st EXCEPT !.path = dir, !.store = NewStore(place),
                               !.older = @ \cup {s \in {st.store} : Busy(s)}]
             gone == {s \in {st.store} : Busy(s)}
  <2>2. NewStore(place) \in Store
    BY DEF NewStore, Store, Place
  <2>3. st.store \in Store \cup {NoStore} /\ (Busy(st.store) => st.store \in Store)
    BY DEF Busy, Storage, NoStore
  <2>4. /\ mid \in Storage /\ mid.store = NewStore(place) /\ mid.schemes = st.schemes
        /\ mid.older = st.older \cup gone
    BY <2>2, <2>3 DEF Storage
  <2>5. HasStore(mid)
    BY <2>4, DirectoryAssumption DEF HasStore, NewStore, Place
  <2>6. new = WithSchemes(mid, mid.schemes) /\ mid.schemes \in Schemes
    BY <2>1, <2>4 DEF Restored, Storage
  <2> HIDE DEF mid
  <2>7. /\ mid.store \in Store /\ ~Busy(mid.store) /\ Len(mid.store.waiting) = 0
    BY <2>2, <2>4 DEF NewStore, Busy
  <2>8. \A x : Held(mid.store, x) = 0
    BY <2>7, BusyHolds
  <2>9. st.store \notin st.older
    BY StoreApart
  <2>10. ASSUME NEW x
         PROVE  Held(mid.store, x) + HeldBy(mid.older, x) = Held(st.store, x) + HeldBy(st.older, x)
    <3>1. IsFiniteSet(st.older) /\ Short(st.store)
      BY DEF Older
    <3>2. HeldBy(st.older, x) \in Nat /\ Held(st.store, x) \in Nat
      BY <2>3, <3>1, HeldByType, HeldType
    <3>3. CASE Busy(st.store)
      <4>1. gone = {st.store}
        BY <3>3
      <4>2. HeldBy(mid.older, x) = HeldBy(st.older, x) + Held(st.store, x)
        BY <2>3, <2>4, <2>9, <3>1, <3>3, <4>1, HeldByAdd
      <4> QED BY <2>8, <3>2, <4>2
    <3>4. CASE ~Busy(st.store)
      <4>1. mid.older = st.older
        BY <2>4, <3>4
      <4>2. Held(st.store, x) = 0
        BY <2>3, <3>4, BusyHolds
      <4> QED BY <2>8, <3>2, <4>1, <4>2
    <3> QED BY <3>3, <3>4
  <2>11. Older(mid)
    <3>1. IsFiniteSet(mid.older)
      <4>1. gone = {} \/ gone = {st.store}
        OBVIOUS
      <4>2. IsFiniteSet(st.older) /\ IsFiniteSet(st.older \cup {st.store})
        BY FS_AddElement DEF Older
      <4>3. mid.older = st.older \/ mid.older = st.older \cup {st.store}
        BY <2>4, <4>1
      <4> QED BY <4>2, <4>3
    <3>2. Short(mid.store)
      BY <2>7, CallsAssumption DEF Short
    <3>3. \A store \in mid.older : Busy(store) /\ Short(store)
      BY <2>4 DEF Older
    <3> QED BY <3>1, <3>2, <3>3 DEF Older
  <2>12. SameHeld(mid, new)
    BY <2>4, <2>5, <2>6, <2>11, SchemesKept
  <2> QED BY <2>10, <2>12 DEF SameHeld
<1> QED BY <1>1, <1>2

LEMMA AskOnce ==
  ASSUME NEW q, NEW u, NEW st, Fine(q, u, st), NEW C, NEW id \in Id, id \in C,
         Once(q, u, st, flushing, answered, dropped, C \ {id}), NEW c, AskStore(id, c, st, q)
  PROVE  Older(storage') /\ Once(io', u, storage', flushing, answered', dropped, C)
<1>1. CASE st.store.loaded
  <2>1. storage' = st /\ StoreAnswers(id, c, q) /\ Older(st)
    BY <1>1 DEF AskStore, Fine
  <2>2. CASE answered' = answered \cup {id} /\ io' = q
    BY <2>1, <2>2, PutMark
  <2>3. CASE RunAsyncCompletion(id, q)
    <3>1. "Complete" \in {"Method", "WithContext", "Complete"}
      OBVIOUS
    <3>2. Once(Append(q, [kind |-> "Complete", id |-> id]), u, st, flushing, answered, dropped, C)
      BY <3>1, PutTask
    <3> QED BY <2>1, <2>3, <3>2 DEF RunAsyncCompletion
  <2> QED BY <2>1, <2>2, <2>3 DEF StoreAnswers
<1>2. CASE ~st.store.loaded
  <2>1. st.store \in Store /\ st \in Storage
    BY <1>2 DEF Fine, Storage, NoStore
  <2>2. PICK new : /\ storage' = [st EXCEPT !.store = new] /\ io' = q /\ answered' = answered
                   /\ \/ new = [st.store EXCEPT !.asking = @ \cup {id}]
                      \/ new = [st.store EXCEPT !.waiting = Append(@, id)]
    BY <1>2 DEF AskStore
  <2>3. storage'.store = new /\ storage'.older = st.older
    BY <2>1, <2>2 DEF Storage
  <2>4. st.store.waiting \in Seq(Id) /\ Held(st.store, id) = 0
    <3>1. Total(q, u, st, flushing, answered, dropped, id) = 0
      BY DEF Once
    <3>2. /\ Count(Ids(q), id) \in Nat /\ Count(u, id) \in Nat
          /\ Held(st.store, id) \in Nat /\ HeldBy(st.older, id) \in Nat
          /\ One(flushing, id) \in Nat /\ One(answered, id) \in Nat /\ One(dropped, id) \in Nat
      BY TotalType
    <3>3. Count(Ids(q), id) + Count(u, id) + Held(st.store, id) + HeldBy(st.older, id)
            + One(flushing, id) + One(answered, id) + One(dropped, id) = 0
      BY <3>1 DEF Total
    <3>4. Held(st.store, id) = 0
      <4> DEFINE h == Held(st.store, id)
                 r1 == Count(Ids(q), id) + Count(u, id)
                 r2 == HeldBy(st.older, id)
                 r3 == One(flushing, id) + One(answered, id) + One(dropped, id)
      <4>1. h \in Nat /\ r1 \in Nat /\ r2 \in Nat /\ r3 \in Nat
        BY <3>2
      <4>2. r1 + h + r2 + r3 = 0
        BY <3>2, <3>3
      <4> HIDE DEF h, r1, r2, r3
      <4>3. h = 0
        BY <4>1, <4>2
      <4> QED BY <4>3 DEF h
    <3> QED BY <2>1, <3>4, HeldType
  <2>5. /\ new.waiting \in Seq(Id)
        /\ \A x : /\ x = id => Held(new, x) = Held(st.store, x) + 1
                  /\ x # id => Held(new, x) = Held(st.store, x)
    <3>1. id \notin st.store.asking
      BY <2>1, <2>4, HeldType
    <3>2. CASE new = [st.store EXCEPT !.asking = @ \cup {id}]
      <4>1. new.asking = st.store.asking \cup {id} /\ new.waiting = st.store.waiting
        BY <2>1, <3>2 DEF Store
      <4>2. ASSUME NEW x
            PROVE  /\ x = id => Held(new, x) = Held(st.store, x) + 1
                   /\ x # id => Held(new, x) = Held(st.store, x)
        <5>1. Count(st.store.waiting, x) \in Nat
          BY <2>4, CountType
        <5>2. CASE x = id
          <6>1. One(st.store.asking, x) = 0 /\ One(new.asking, x) = 1
            BY <3>1, <4>1, <5>2, OneParts
          <6> QED BY <4>1, <5>1, <5>2, <6>1 DEF Held
        <5>3. CASE x # id
          <6>1. {x} \cap new.asking = {x} \cap st.store.asking
            BY <4>1, <5>3
          <6> QED BY <4>1, <5>3, <6>1 DEF Held, One
        <5> QED BY <5>2, <5>3
      <4> QED BY <2>4, <4>1, <4>2
    <3>3. CASE new = [st.store EXCEPT !.waiting = Append(@, id)]
      <4>1. new.asking = st.store.asking /\ new.waiting = Append(st.store.waiting, id)
        BY <2>1, <3>3 DEF Store
      <4>2. ASSUME NEW x
            PROVE  /\ x = id => Held(new, x) = Held(st.store, x) + 1
                   /\ x # id => Held(new, x) = Held(st.store, x)
        <5>1. Count(st.store.waiting, x) \in Nat /\ One(st.store.asking, x) \in Nat
          BY <2>4, CountType, OneParts
        <5>2. /\ x = id => Count(new.waiting, x) = Count(st.store.waiting, x) + 1
              /\ x # id => Count(new.waiting, x) = Count(st.store.waiting, x)
          BY <2>4, <4>1, CountAppend
        <5> QED BY <4>1, <5>1, <5>2 DEF Held
      <4>3. new.waiting \in Seq(Id)
        BY <2>4, <4>1, AppendParts
      <4> QED BY <4>2, <4>3
    <3> QED BY <2>2, <3>2, <3>3
  <2>6. Once(q, u, storage', flushing, answered, dropped, C)
    <3> SUFFICES ASSUME NEW x \in Id
                 PROVE  /\ x \in C => Total(q, u, storage', flushing, answered, dropped, x) = 1
                        /\ x \notin C => Total(q, u, storage', flushing, answered, dropped, x) = 0
      BY DEF Once
    <3>1. /\ Count(Ids(q), x) \in Nat /\ Count(u, x) \in Nat
          /\ Held(st.store, x) \in Nat /\ HeldBy(st.older, x) \in Nat
          /\ One(flushing, x) \in Nat /\ One(answered, x) \in Nat /\ One(dropped, x) \in Nat
      BY TotalType
    <3>2. /\ x = id => Held(new, x) = Held(st.store, x) + 1
          /\ x # id => Held(new, x) = Held(st.store, x)
      BY <2>5
    <3>3. /\ x \in C \ {id} => Total(q, u, st, flushing, answered, dropped, x) = 1
          /\ x \notin C \ {id} => Total(q, u, st, flushing, answered, dropped, x) = 0
      BY DEF Once
    <3> QED BY <2>3, <3>1, <3>2, <3>3 DEF Total
  <2>7. Short(new)
    <3>1. ASSUME NEW x \in Id PROVE Count(new.waiting, x) <= 1
      <4>1. Held(new, x) <= 1
        <5>1. /\ Count(Ids(q), x) \in Nat /\ Count(u, x) \in Nat
              /\ Held(st.store, x) \in Nat /\ HeldBy(st.older, x) \in Nat
              /\ One(flushing, x) \in Nat /\ One(answered, x) \in Nat /\ One(dropped, x) \in Nat
          BY TotalType
        <5>2. Total(q, u, storage', flushing, answered, dropped, x) <= 1
          BY <2>6 DEF Once
        <5>3. Held(new, x) \in Nat
          BY <2>5, <5>1
        <5> QED BY <2>3, <5>1, <5>2, <5>3 DEF Total
      <4>2. Count(new.waiting, x) \in Nat /\ One(new.asking, x) \in Nat
        BY <2>5, CountType, OneParts
      <4> QED BY <4>1, <4>2 DEF Held
    <3> QED BY <2>5, <3>1, NoLongerThanIds DEF Short
  <2>8. Older(storage')
    BY <2>3, <2>7 DEF Older, Fine
  <2> QED BY <2>2, <2>6, <2>8
<1> QED BY <1>1, <1>2

LEMMA HeldAtMostOnce ==
  ASSUME NEW q, NEW u, NEW st, Fine(q, u, st), NEW f, NEW a, NEW d, NEW C,
         Once(q, u, st, f, a, d, C), NEW x \in Id
  PROVE  Held(st.store, x) + HeldBy(st.older, x) + One(a, x) <= 1
<1> DEFINE h == Held(st.store, x) + HeldBy(st.older, x) + One(a, x)
           r == Count(Ids(q), x) + Count(u, x) + One(f, x) + One(d, x)
<1>1. /\ Count(Ids(q), x) \in Nat /\ Count(u, x) \in Nat
      /\ Held(st.store, x) \in Nat /\ HeldBy(st.older, x) \in Nat
      /\ One(f, x) \in Nat /\ One(a, x) \in Nat /\ One(d, x) \in Nat
  BY TotalType
<1>2. h \in Nat /\ r \in Nat
  BY <1>1
<1>3. Total(q, u, st, f, a, d, x) = h + r
  BY <1>1 DEF Total
<1>4. Total(q, u, st, f, a, d, x) <= 1
  BY DEF Once
<1> HIDE DEF h, r
<1>5. h <= 1
  BY <1>2, <1>3, <1>4
<1> QED BY <1>5 DEF h

-----------------------------------------------------------------------------
(* A call that takes effect, is given up or waits is in one place.         *)
LEMMA CompletionOnce ==
  ASSUME NEW q, NEW u, NEW st, Fine(q, u, st), NEW C, NEW id \in Id, id \in C,
         Once(q, u, st, flushing, answered, dropped, C \ {id}), RunAsyncCompletion(id, q)
  PROVE  Once(io', u, st, flushing, answered', dropped, C)
<1>1. "Complete" \in {"Method", "WithContext", "Complete"}
  OBVIOUS
<1>2. Once(Append(q, [kind |-> "Complete", id |-> id]), u, st, flushing, answered, dropped, C)
  BY <1>1, PutTask
<1> QED BY <1>2 DEF RunAsyncCompletion

LEMMA ApplyOnce ==
  ASSUME NEW q, NEW u, NEW st, Fine(q, u, st), NEW C, NEW id \in Id, id \in C,
         Once(q, u, st, flushing, answered, dropped, C \ {id}),
         NEW c \in Call, Apply(id, c, st, q),
         wanted \in Wanted, AsAsked(st, wanted), c.what.op = "schemes" => HasStore(st)
  PROVE  Older(storage') /\ Once(io', u, storage', flushing', answered', dropped', C)
<1>1. st \in Storage /\ Older(st) /\ dropped' = dropped
  BY DEF Fine, Apply
<1>2. storage' \in Storage
  BY <1>1, ApplyEffect
<1>3. CASE /\ c.what.op = "create" /\ context
           /\ storage' = st /\ UNCHANGED wanted /\ flushing' = flushing
           /\ RunAsyncCompletion(id, q)
  BY <1>1, <1>3, CompletionOnce
<1>4. CASE /\ c.what.op = "path" \/ (c.what.op = "create" /\ ~context)
           /\ storage' \in WithPath(st, c.what.arg)
           /\ wanted' = [wanted EXCEPT !.path = c.what.arg] /\ flushing' = flushing
           /\ RunAsyncCompletion(id, q)
  <2>1. c.what.arg \in Place
    BY <1>4 DEF Call, Operation
  <2>2. \A x \in Id : Held(st.store, x) + HeldBy(st.older, x) <= 1
    <3> SUFFICES ASSUME NEW x \in Id PROVE Held(st.store, x) + HeldBy(st.older, x) <= 1
      OBVIOUS
    <3>1. Held(st.store, x) + HeldBy(st.older, x) + One(answered, x) <= 1
      BY HeldAtMostOnce
    <3>2. One(answered, x) \in Nat /\ Held(st.store, x) \in Nat /\ HeldBy(st.older, x) \in Nat
      BY TotalType
    <3> QED BY ONLY <3>1, <3>2
  <2>3. SameHeld(st, storage')
    BY <1>1, <1>4, <2>1, <2>2, PathKept
  <2>4. Fine(q, u, storage') /\ Once(q, u, storage', flushing, answered, dropped, C \ {id})
    BY <1>2, <2>3, OnceKept
  <2>5. Older(storage') /\ Once(io', u, storage', flushing, answered', dropped, C)
    BY <1>4, <2>4, CompletionOnce DEF Fine
  <2> QED BY <1>1, <1>4, <2>5
<1>5. CASE /\ c.what.op = "schemes"
           /\ storage' = WithSchemes(st, c.what.arg)
           /\ wanted' = [wanted EXCEPT !.schemes = Effective(c.what.arg)] /\ flushing' = flushing
           /\ RunAsyncCompletion(id, q)
  <2>1. c.what.arg \in Schemes
    BY <1>5 DEF Call, Operation, Schemes
  <2>2. SameHeld(st, storage')
    BY <1>1, <1>5, <2>1, SchemesKept
  <2>3. Fine(q, u, storage') /\ Once(q, u, storage', flushing, answered, dropped, C \ {id})
    BY <1>2, <2>2, OnceKept
  <2>4. Older(storage') /\ Once(io', u, storage', flushing, answered', dropped, C)
    BY <1>5, <2>3, CompletionOnce DEF Fine
  <2> QED BY <1>1, <1>5, <2>4
<1>6. CASE /\ c.what.op \in {"change", "visit", "request"}
           /\ UNCHANGED wanted /\ flushing' = flushing
           /\ AskStore(id, c, st, q)
  BY <1>1, <1>6, AskOnce
<1>7. CASE /\ c.what.op = "flush"
           /\ storage' = st /\ UNCHANGED <<wanted, answered>> /\ flushing' = flushing \cup {id}
           /\ io' = q
  BY <1>1, <1>7, PutMark
<1> QED BY <1>3, <1>4, <1>5, <1>6, <1>7 DEF Apply

LEMMA ContextOnce ==
  ASSUME IInv, NEW q, NEW u, Fine(q, u, storage), NEW C,
         Once(q, u, storage, flushing, answered, dropped, C), NEW st \in WithURLRequestContext
  PROVE  /\ Fine(q, u, st) /\ Once(q, u, st, flushing, answered, dropped, C)
         /\ HasStore(st) /\ AsAsked(st, wanted) /\ wanted \in Wanted
<1>1. st \in Storage /\ HasStore(st) /\ AsAsked(st, wanted)
  BY ContextAsAsked
<1>2. wanted \in Wanted /\ storage \in Storage /\ AsAsked(storage, wanted) /\ Older(storage)
  BY DEF IInv, TypeOK, Wanted, Storage, Fine
<1>3. CASE HasStore(storage)
  BY <1>1, <1>2, <1>3 DEF WithURLRequestContext
<1>4. CASE ~HasStore(storage)
  <2>1. st \in WithPath(storage, wanted.path) /\ wanted.path \in Place
    BY <1>2, <1>4 DEF WithURLRequestContext, Wanted
  <2>2. \A x \in Id : Held(storage.store, x) + HeldBy(storage.older, x) <= 1
    <3> SUFFICES ASSUME NEW x \in Id PROVE Held(storage.store, x) + HeldBy(storage.older, x) <= 1
      OBVIOUS
    <3>1. Held(storage.store, x) + HeldBy(storage.older, x) + One(answered, x) <= 1
      BY HeldAtMostOnce
    <3>2. /\ One(answered, x) \in Nat
          /\ Held(storage.store, x) \in Nat /\ HeldBy(storage.older, x) \in Nat
      BY TotalType
    <3> QED BY ONLY <3>1, <3>2
  <2>3. SameHeld(storage, st)
    BY <1>2, <2>1, <2>2, PathKept
  <2> QED BY <1>1, <1>2, <2>3, OnceKept
<1> QED BY <1>3, <1>4

LEMMA DropOnce ==
  ASSUME NEW q, NEW u, Fine(q, u, storage), NEW C, NEW id \in Id, id \in C,
         Once(q, u, storage, flushing, answered, dropped, C \ {id}), Drop(id, q)
  PROVE  Older(storage') /\ Once(io', u, storage', flushing', answered', dropped', C)
<1>1. /\ io' = q /\ dropped' = dropped \cup {id}
      /\ UNCHANGED <<storage, flushing, answered>> /\ Older(storage)
  BY DEF Drop, Fine
<1> QED BY <1>1, PutMark

LEMMA ContextApplyOnce ==
  ASSUME IInv, NEW q, NEW u, Fine(q, u, storage), NEW C, NEW id \in Id, id \in C,
         Once(q, u, storage, flushing, answered, dropped, C \ {id}),
         NEW c \in Call, NEW st \in WithURLRequestContext, Apply(id, c, st, q)
  PROVE  Older(storage') /\ Once(io', u, storage', flushing', answered', dropped', C)
<1>1. /\ Fine(q, u, st) /\ Once(q, u, st, flushing, answered, dropped, C \ {id})
      /\ HasStore(st) /\ AsAsked(st, wanted) /\ wanted \in Wanted
  BY ContextOnce
<1> QED BY <1>1, ApplyOnce

LEMMA MethodOnce ==
  ASSUME IInv, NEW q, Fine(q, ui, storage), NEW C, NEW id \in Id, id \in C,
         Once(q, ui, storage, flushing, answered, dropped, C \ {id}),
         NEW c \in Call, Method(id, c, q)
  PROVE  Older(storage') /\ Once(io', ui', storage', flushing', answered', dropped', C)
<1>1. CASE /\ \E st \in WithURLRequestContext : Apply(id, c, st, q)
           /\ ui' = ui
  BY <1>1, ContextApplyOnce
<1>2. CASE /\ ui' = Append(ui, id) /\ io' = q
           /\ UNCHANGED <<storage, flushing, answered, history>>
  <2>1. Older(storage) /\ dropped' = dropped
    BY <1>2 DEF Fine, history
  <2>2. Once(q, Append(ui, id), storage, flushing, answered, dropped, C)
    BY PutUI
  <2> QED BY <1>2, <2>1, <2>2
<1>3. CASE /\ ui' = ui
           /\ IF HasStore(storage) \/ c.what.op \in {"create", "path"}
              THEN Apply(id, c, storage, q)
              ELSE Drop(id, q)
  <2>1. CASE (HasStore(storage) \/ c.what.op \in {"create", "path"}) /\ Apply(id, c, storage, q)
    <3>1. wanted \in Wanted /\ AsAsked(storage, wanted)
      BY DEF IInv, TypeOK, Wanted
    <3>2. Older(storage') /\ Once(io', ui, storage', flushing', answered', dropped', C)
      BY <2>1, <3>1, ApplyOnce
    <3> QED BY <1>3, <3>2
  <2>2. CASE Drop(id, q)
    BY <1>3, <2>2, DropOnce
  <2> QED BY <1>3, <2>1, <2>2
<1> QED BY <1>1, <1>2, <1>3 DEF Method

-----------------------------------------------------------------------------
(* Every step keeps every call in one place.                               *)
LEMMA FineNow ==
  ASSUME IInv, OnceInv
  PROVE  /\ Fine(io, ui, storage) /\ storage \in Storage
         /\ Once(io, ui, storage, flushing, answered, dropped, DOMAIN calls)
         /\ DOMAIN calls \subseteq Id /\ \A id \in DOMAIN calls : calls[id] \in Call
BY CallIds DEF IInv, TypeOK, Storage, OnceInv, Fine

LEMMA CallOnce ==
  ASSUME IInv, OnceInv, NEW t \in Caller, NEW what \in Operation, NewCall(t, what),
         UNCHANGED context, calls = <<>> => what.op = "create"
  PROVE  /\ NextId \in Id /\ NextId \in DOMAIN calls' /\ Called(t, what) \in Call
         /\ Once(io, ui, storage, flushing, answered, dropped, DOMAIN calls' \ {NextId})
<1>1. /\ NextId \in Id /\ NextId \notin DOMAIN calls /\ Called(t, what) \in Call
      /\ DOMAIN calls' = DOMAIN calls \cup {NextId}
  BY OneMoreCall
<1>2. DOMAIN calls' \ {NextId} = DOMAIN calls
  BY <1>1
<1> QED BY <1>1, <1>2, FineNow

LEMMA FirstId ==
  ASSUME calls = <<>>
  PROVE  NextId = 1
BY DEF NextId

LEMMA CreateManagerOnce ==
  ASSUME IInv, OnceInv, NEW t \in Caller, NEW dir \in Place, CreateManager(t, dir)
  PROVE  OnceInv'
<1> DEFINE what == [op |-> "create", arg |-> dir]
<1>1. what \in Operation
  BY DEF Operation
<1>2. /\ calls = <<>> /\ NewCall(t, what) /\ UNCHANGED context
      /\ \/ t = "IO" /\ Method(1, Called(t, what), io)
         \/ /\ io' = Append(io, [kind |-> "Method", id |-> 1])
            /\ UNCHANGED <<storage, ui, flushing, answered, history>>
  BY DEF CreateManager
<1> HIDE DEF what
<1>3. /\ 1 \in Id /\ 1 \in DOMAIN calls' /\ Called(t, what) \in Call
      /\ Once(io, ui, storage, flushing, answered, dropped, DOMAIN calls' \ {1})
  <2>1. what.op = "create"
    BY DEF what
  <2>2. /\ NextId \in Id /\ NextId \in DOMAIN calls' /\ Called(t, what) \in Call
        /\ Once(io, ui, storage, flushing, answered, dropped, DOMAIN calls' \ {NextId})
    BY <1>1, <1>2, <2>1, CallOnce
  <2>3. NextId = 1
    BY <1>2, FirstId
  <2> QED BY <2>2, <2>3
<1>4. Fine(io, ui, storage) /\ Older(storage)
  BY FineNow DEF Fine
<1>5. CASE Method(1, Called(t, what), io)
  BY <1>3, <1>4, <1>5, MethodOnce DEF OnceInv
<1>6. CASE /\ io' = Append(io, [kind |-> "Method", id |-> 1])
           /\ UNCHANGED <<storage, ui, flushing, answered, history>>
  <2>1. "Method" \in {"Method", "WithContext", "Complete"}
    OBVIOUS
  <2>2. Once(Append(io, [kind |-> "Method", id |-> 1]), ui, storage, flushing, answered, dropped, DOMAIN calls')
    BY <1>3, <1>4, <2>1, PutTask
  <2> QED BY <1>4, <1>6, <2>2 DEF OnceInv, history
<1> QED BY <1>2, <1>5, <1>6

LEMMA GetDefaultOnce ==
  ASSUME IInv, OnceInv, NEW t \in Caller, GetDefaultCookieManager(t)
  PROVE  OnceInv'
<1> DEFINE what == [op |-> "create", arg |-> "memory"]
<1>1. what \in Operation
  BY DEF Operation, Place
<1>2. /\ calls = <<>> /\ NewCall(t, what) /\ UNCHANGED context
      /\ \/ InitWithContext(Called(t, what), io) /\ UNCHANGED ui
         \/ /\ io' = Append(io, [kind |-> "WithContext", id |-> 1])
            /\ UNCHANGED <<impl, storage, ui, flushing, answered, history>>
         \/ /\ ui' = Append(ui, 1)
            /\ UNCHANGED <<ready, impl, storage, io, flushing, answered, history>>
  BY DEF GetDefaultCookieManager
<1> HIDE DEF what
<1>3. /\ 1 \in Id /\ 1 \in DOMAIN calls' /\ Called(t, what) \in Call
      /\ Once(io, ui, storage, flushing, answered, dropped, DOMAIN calls' \ {1})
  <2>1. what.op = "create"
    BY DEF what
  <2>2. /\ NextId \in Id /\ NextId \in DOMAIN calls' /\ Called(t, what) \in Call
        /\ Once(io, ui, storage, flushing, answered, dropped, DOMAIN calls' \ {NextId})
    BY <1>1, <1>2, <2>1, CallOnce
  <2>3. NextId = 1
    BY <1>2, FirstId
  <2> QED BY <2>2, <2>3
<1>4. Fine(io, ui, storage) /\ Older(storage)
  BY FineNow DEF Fine
<1>5. CASE InitWithContext(Called(t, what), io) /\ UNCHANGED ui
  BY <1>3, <1>4, <1>5, ContextApplyOnce DEF OnceInv, InitWithContext
<1>6. CASE /\ io' = Append(io, [kind |-> "WithContext", id |-> 1])
           /\ UNCHANGED <<impl, storage, ui, flushing, answered, history>>
  <2>1. "WithContext" \in {"Method", "WithContext", "Complete"}
    OBVIOUS
  <2>2. Once(Append(io, [kind |-> "WithContext", id |-> 1]), ui, storage, flushing, answered, dropped,
             DOMAIN calls')
    BY <1>3, <1>4, <2>1, PutTask
  <2> QED BY <1>4, <1>6, <2>2 DEF OnceInv, history
<1>7. CASE /\ ui' = Append(ui, 1)
           /\ UNCHANGED <<ready, impl, storage, io, flushing, answered, history>>
  <2>1. Once(io, Append(ui, 1), storage, flushing, answered, dropped, DOMAIN calls')
    BY <1>3, <1>4, PutUI
  <2> QED BY <1>4, <1>7, <2>1 DEF OnceInv, history
<1> QED BY <1>2, <1>5, <1>6, <1>7

LEMMA CallMethodOnce ==
  ASSUME IInv, OnceInv, NEW t \in Caller, NEW what \in Operation, CallMethod(t, what)
  PROVE  OnceInv'
<1>1. /\ calls # <<>> /\ NewCall(t, what) /\ UNCHANGED context
      /\ \/ /\ io' = Append(io, [kind |-> "Method", id |-> NextId])
            /\ UNCHANGED <<storage, ui, flushing, answered, history>>
         \/ Method(NextId, Called(t, what), io)
  BY DEF CallMethod
<1>2. /\ NextId \in Id /\ NextId \in DOMAIN calls' /\ Called(t, what) \in Call
      /\ Once(io, ui, storage, flushing, answered, dropped, DOMAIN calls' \ {NextId})
  BY <1>1, CallOnce
<1>3. Fine(io, ui, storage) /\ Older(storage)
  BY FineNow DEF Fine
<1>4. CASE Method(NextId, Called(t, what), io)
  BY <1>2, <1>3, <1>4, MethodOnce DEF OnceInv
<1>5. CASE /\ io' = Append(io, [kind |-> "Method", id |-> NextId])
           /\ UNCHANGED <<storage, ui, flushing, answered, history>>
  <2>1. "Method" \in {"Method", "WithContext", "Complete"}
    OBVIOUS
  <2>2. Once(Append(io, [kind |-> "Method", id |-> NextId]), ui, storage, flushing, answered, dropped,
             DOMAIN calls')
    BY <1>2, <1>3, <2>1, PutTask
  <2> QED BY <1>3, <1>5, <2>2 DEF OnceInv, history
<1> QED BY <1>1, <1>4, <1>5

LEMMA RequestCookiesOnce ==
  ASSUME IInv, OnceInv, RequestCookies
  PROVE  OnceInv'
<1> DEFINE what == [op |-> "request", arg |-> "none"]
<1>1. what \in Operation /\ "IO" \in Caller
  BY DEF Operation, Caller
<1>2. /\ calls # <<>> /\ NewCall("IO", what) /\ UNCHANGED <<context, ui>>
      /\ \/ Apply(NextId, Called("IO", what), storage, io)
         \/ Drop(NextId, io)
  BY DEF RequestCookies
<1>3. Called("IO", what).what.op = "request"
  BY DEF Called
<1> HIDE DEF what
<1>4. /\ NextId \in Id /\ NextId \in DOMAIN calls' /\ Called("IO", what) \in Call
      /\ Once(io, ui, storage, flushing, answered, dropped, DOMAIN calls' \ {NextId})
  BY <1>1, <1>2, CallOnce
<1>5. Fine(io, ui, storage) /\ wanted \in Wanted /\ AsAsked(storage, wanted)
  BY FineNow DEF IInv, TypeOK, Wanted
<1>6. CASE Apply(NextId, Called("IO", what), storage, io)
  BY <1>2, <1>3, <1>4, <1>5, <1>6, ApplyOnce DEF OnceInv
<1>7. CASE Drop(NextId, io)
  BY <1>2, <1>4, <1>5, <1>7, DropOnce DEF OnceInv
<1> QED BY <1>2, <1>6, <1>7

(* The IO thread runs a task.                                              *)
LEMMA TakeIO ==
  ASSUME IInv, OnceInv, io # <<>>
  PROVE  /\ Head(io).id \in Id /\ Head(io).id \in DOMAIN calls /\ calls[Head(io).id] \in Call
         /\ Fine(Tail(io), ui, storage)
         /\ Once(Tail(io), ui, storage, flushing, answered, dropped, DOMAIN calls \ {Head(io).id})
<1>1. /\ Fine(io, ui, storage) /\ Once(io, ui, storage, flushing, answered, dropped, DOMAIN calls)
      /\ \A id \in DOMAIN calls : calls[id] \in Call
  BY FineNow
<1>2. /\ Head(io).id \in DOMAIN calls /\ Head(io).id \in Id /\ Tail(io) \in Seq(Task)
      /\ Once(Tail(io), ui, storage, flushing, answered, dropped, DOMAIN calls \ {Head(io).id})
  BY <1>1, TakeTask
<1> QED BY <1>1, <1>2 DEF Fine

LEMMA RunMethodOnce ==
  ASSUME IInv, OnceInv, RunMethod
  PROVE  OnceInv'
<1>1. io # <<>> /\ UNCHANGED calls /\ Method(Head(io).id, calls[Head(io).id], Tail(io))
  BY DEF RunMethod, RunIO
<1>2. /\ Head(io).id \in Id /\ Head(io).id \in DOMAIN calls /\ calls[Head(io).id] \in Call
      /\ Fine(Tail(io), ui, storage)
      /\ Once(Tail(io), ui, storage, flushing, answered, dropped, DOMAIN calls \ {Head(io).id})
  BY <1>1, TakeIO
<1>3. Older(storage') /\ Once(io', ui', storage', flushing', answered', dropped', DOMAIN calls)
  BY <1>1, <1>2, MethodOnce
<1> QED BY <1>1, <1>3 DEF OnceInv

LEMMA RunWithContextOnce ==
  ASSUME IInv, OnceInv, RunWithContext
  PROVE  OnceInv'
<1>1. io # <<>> /\ UNCHANGED <<calls, ui>>
  BY DEF RunWithContext, RunIO
<1>2. \E st \in WithURLRequestContext : Apply(Head(io).id, calls[Head(io).id], st, Tail(io))
  <2>1. CASE Head(io).id = 1
    BY <2>1 DEF RunWithContext, InitWithContext
  <2>2. CASE Head(io).id # 1
    BY <2>2 DEF RunWithContext
  <2> QED BY <2>1, <2>2
<1>3. /\ Head(io).id \in Id /\ Head(io).id \in DOMAIN calls /\ calls[Head(io).id] \in Call
      /\ Fine(Tail(io), ui, storage)
      /\ Once(Tail(io), ui, storage, flushing, answered, dropped, DOMAIN calls \ {Head(io).id})
  BY <1>1, TakeIO
<1>4. Older(storage') /\ Once(io', ui, storage', flushing', answered', dropped', DOMAIN calls)
  BY <1>2, <1>3, ContextApplyOnce
<1> QED BY <1>1, <1>4 DEF OnceInv

LEMMA RunCallbackOnce ==
  ASSUME IInv, OnceInv, RunCallback
  PROVE  OnceInv'
<1>1. /\ io # <<>> /\ UNCHANGED <<calls, ui, storage, flushing, dropped>>
      /\ answered' = answered \cup {Head(io).id} /\ io' = Tail(io)
  BY DEF RunCallback, RunIO, history
<1>2. /\ Head(io).id \in Id /\ Head(io).id \in DOMAIN calls
      /\ Fine(Tail(io), ui, storage)
      /\ Once(Tail(io), ui, storage, flushing, answered, dropped, DOMAIN calls \ {Head(io).id})
  BY <1>1, TakeIO
<1>3. Once(Tail(io), ui, storage, flushing, answered \cup {Head(io).id}, dropped, DOMAIN calls)
  BY <1>2, PutMark
<1> QED BY <1>1, <1>2, <1>3 DEF OnceInv, Fine

LEMMA RunUIOnce ==
  ASSUME IInv, OnceInv, RunUI
  PROVE  OnceInv'
<1>1. /\ ui # <<>> /\ UNCHANGED <<calls, storage, flushing, answered, dropped>>
      /\ ui' = Tail(ui) /\ io' = Append(io, [kind |-> "WithContext", id |-> Head(ui)])
  BY DEF RunUI, history
<1>2. /\ Fine(io, ui, storage) /\ Once(io, ui, storage, flushing, answered, dropped, DOMAIN calls)
  BY FineNow
<1>3. /\ Head(ui) \in DOMAIN calls /\ Head(ui) \in Id /\ Tail(ui) \in Seq(Id)
      /\ Once(io, Tail(ui), storage, flushing, answered, dropped, DOMAIN calls \ {Head(ui)})
  BY <1>1, <1>2, TakeUI
<1>4. Fine(io, Tail(ui), storage) /\ "WithContext" \in {"Method", "WithContext", "Complete"}
  BY <1>2, <1>3 DEF Fine
<1>5. Once(Append(io, [kind |-> "WithContext", id |-> Head(ui)]), Tail(ui), storage, flushing, answered,
           dropped, DOMAIN calls)
  BY <1>3, <1>4, PutTask
<1> QED BY <1>1, <1>2, <1>5 DEF OnceInv, Fine

LEMMA StoreFlushedOnce ==
  ASSUME IInv, OnceInv, NEW id \in flushing, StoreFlushed(id)
  PROVE  OnceInv'
<1>1. /\ flushing' = flushing \ {id} /\ UNCHANGED <<calls, ui, storage, answered, dropped>>
      /\ io' = Append(io, [kind |-> "Complete", id |-> id])
  BY DEF StoreFlushed, RunAsyncCompletion, External, history
<1>2. /\ Fine(io, ui, storage) /\ Once(io, ui, storage, flushing, answered, dropped, DOMAIN calls)
      /\ id \in Id
  BY FineNow DEF IInv, TypeOK
<1>3. id \in DOMAIN calls /\ Once(io, ui, storage, flushing \ {id}, answered, dropped, DOMAIN calls \ {id})
  BY <1>2, TakeFlushing
<1>4. "Complete" \in {"Method", "WithContext", "Complete"}
  OBVIOUS
<1>5. Once(Append(io, [kind |-> "Complete", id |-> id]), ui, storage, flushing \ {id}, answered, dropped,
           DOMAIN calls)
  BY <1>2, <1>3, <1>4, PutTask
<1> QED BY <1>1, <1>2, <1>5 DEF OnceInv, Fine

LEMMA IdleOnce ==
  ASSUME OnceInv, UNCHANGED <<io, ui, storage, flushing, answered, dropped, calls>>
  PROVE  OnceInv'
BY DEF OnceInv

(* A store that has loaded its cookies answers what it was asked, and      *)
(* posts the callbacks that wait.                                          *)
LEMMA StoreLoadedOnce ==
  ASSUME IInv, OnceInv, NEW store \in Stores(storage), StoreLoaded(store)
  PROVE  OnceInv'
<1> DEFINE w == store.waiting
           d == [k \in 1 .. Len(w) |-> [kind |-> "Complete", id |-> w[k]]]
<1>1. /\ answered' = answered \cup store.asking /\ io' = io \o d
      /\ storage' = IF store = storage.store THEN [storage EXCEPT !.store = Loaded(store)]
                                             ELSE [storage EXCEPT !.older = @ \ {store}]
      /\ UNCHANGED <<calls, ui, flushing, dropped>>
  BY DEF StoreLoaded, External, history
<1>2. /\ Fine(io, ui, storage) /\ storage \in Storage
      /\ Once(io, ui, storage, flushing, answered, dropped, DOMAIN calls)
  BY FineNow
<1>3. /\ io \in Seq(Task) /\ IsFiniteSet(storage.older) /\ Short(storage.store)
      /\ \A s \in storage.older : Busy(s) /\ Short(s)
  BY <1>2 DEF Fine, Older
<1>4. store \in Store /\ (store # storage.store => store \in storage.older)
  BY <1>2 DEF Stores, Storage
<1>5. w \in Seq(Id)
  BY <1>4 DEF Store
<1> HIDE DEF w
<1>6. d \in Seq(Task) /\ Len(d) = Len(w) /\ \A k \in 1 .. Len(w) : d[k].id = w[k]
  <2>1. Len(w) \in Nat /\ \A k \in 1 .. Len(w) : w[k] \in Id
    BY <1>5
  <2>2. \A k \in 1 .. Len(w) : [kind |-> "Complete", id |-> w[k]] \in Task
    BY <2>1 DEF Task
  <2> QED BY <2>1, <2>2
<1> HIDE DEF d
<1>7. Ids(io') = Ids(io) \o w /\ Ids(io) \in Seq(Id)
  BY <1>1, <1>3, <1>5, <1>6, IdsConcat, IdsParts
<1>8. ASSUME NEW x PROVE Count(Ids(io'), x) = Count(Ids(io), x) + Count(w, x)
  BY <1>5, <1>7, CountConcat
<1>9. /\ Older(storage')
      /\ \A x : Held(storage'.store, x) + HeldBy(storage'.older, x) + Held(store, x)
                  = Held(storage.store, x) + HeldBy(storage.older, x)
      /\ \A x : Held(storage'.store, x) \in Nat /\ HeldBy(storage'.older, x) \in Nat
  <2>1. ASSUME NEW x
        PROVE  Held(store, x) \in Nat /\ Held(storage.store, x) \in Nat /\ HeldBy(storage.older, x) \in Nat
    BY <1>2, <1>3, <1>4, HeldType, HeldByType DEF Storage
  <2>2. CASE store = storage.store
    <3> DEFINE new == Loaded(store)
    <3>1. storage'.store = new /\ storage'.older = storage.older
      BY <1>1, <1>2, <2>2 DEF Storage
    <3>2. new.asking = {} /\ new.waiting = <<>>
      BY <1>4 DEF Loaded, Store
    <3> HIDE DEF new
    <3>3. ASSUME NEW x PROVE Held(new, x) = 0
      <4>1. One({}, x) = 0
        BY OneParts
      <4>2. Places(<<>>, x) = {}
        BY DEF Places
      <4>3. Count(<<>>, x) = 0
        BY <4>2, FS_EmptySet DEF Count
      <4> QED BY <3>2, <4>1, <4>3 DEF Held
    <3>4. Short(new)
      BY <3>2, CallsAssumption DEF Short
    <3>5. Older(storage')
      BY <1>3, <3>1, <3>4 DEF Older
    <3> QED BY <2>1, <2>2, <3>1, <3>3, <3>5
  <2>3. CASE store # storage.store
    <3>1. storage'.store = storage.store /\ storage'.older = storage.older \ {store}
      BY <1>1, <1>2, <2>3 DEF Storage
    <3>2. IsFiniteSet(storage.older \ {store})
      BY <1>3, FS_RemoveElement
    <3>3. ASSUME NEW x
          PROVE  /\ HeldBy(storage.older, x) = HeldBy(storage.older \ {store}, x) + Held(store, x)
                 /\ HeldBy(storage.older \ {store}, x) \in Nat
      BY <1>3, <1>4, <2>3, <3>2, HeldByRemove, HeldByType
    <3>4. Older(storage')
      BY <1>3, <3>1, <3>2 DEF Older
    <3>5. ASSUME NEW x
          PROVE  /\ Held(storage'.store, x) + HeldBy(storage'.older, x) + Held(store, x)
                      = Held(storage.store, x) + HeldBy(storage.older, x)
                 /\ Held(storage'.store, x) \in Nat /\ HeldBy(storage'.older, x) \in Nat
      <4> DEFINE h == Held(storage.store, x)
                 r == HeldBy(storage.older \ {store}, x)
                 g == Held(store, x)
      <4>1. h \in Nat /\ r \in Nat /\ g \in Nat
        BY <2>1, <3>3
      <4>2. HeldBy(storage.older, x) = r + g
        BY <3>3
      <4>3. Held(storage'.store, x) = h /\ HeldBy(storage'.older, x) = r
        BY <3>1
      <4>4. Held(storage.store, x) = h /\ Held(store, x) = g
        OBVIOUS
      <4> HIDE DEF h, r, g
      <4> QED BY ONLY <4>1, <4>2, <4>3, <4>4
    <3> QED BY <3>4, <3>5
  <2> QED BY <2>2, <2>3
<1>10. ASSUME NEW x \in Id
       PROVE  /\ One(answered', x) = One(answered, x) + One(store.asking, x)
              /\ Total(io', ui, storage', flushing, answered', dropped, x)
                   = Total(io, ui, storage, flushing, answered, dropped, x)
  <2>1. /\ Count(Ids(io), x) \in Nat /\ Count(ui, x) \in Nat
        /\ Held(storage.store, x) \in Nat /\ HeldBy(storage.older, x) \in Nat
        /\ One(flushing, x) \in Nat /\ One(answered, x) \in Nat /\ One(dropped, x) \in Nat
    BY <1>2, TotalType
  <2>2. /\ Held(store, x) = Count(w, x) + One(store.asking, x)
        /\ Count(w, x) \in Nat /\ One(store.asking, x) \in Nat
    BY <1>5, CountType, OneParts DEF Held, w
  <2>3. /\ Held(storage'.store, x) + HeldBy(storage'.older, x) + Held(store, x)
             = Held(storage.store, x) + HeldBy(storage.older, x)
        /\ Held(storage'.store, x) \in Nat /\ HeldBy(storage'.older, x) \in Nat
    BY <1>9
  <2>4. x \notin answered \/ x \notin store.asking
    <3>1. Held(storage.store, x) + HeldBy(storage.older, x) + One(answered, x) <= 1
      BY <1>2, HeldAtMostOnce
    <3>2. One(answered, x) = 0 \/ One(store.asking, x) = 0
      <4> DEFINE h == Held(storage.store, x) + HeldBy(storage.older, x)
                 r == Held(storage'.store, x) + HeldBy(storage'.older, x) + Count(w, x)
                 n == One(answered, x)
                 m == One(store.asking, x)
      <4>1. h \in Nat /\ r \in Nat /\ n \in Nat /\ m \in Nat
        BY ONLY <2>1, <2>2, <2>3
      <4>2. h = r + m
        BY ONLY <2>2, <2>3
      <4>3. h + n <= 1
        BY <3>1
      <4> HIDE DEF h, r, n, m
      <4>4. n = 0 \/ m = 0
        BY ONLY <4>1, <4>2, <4>3
      <4> QED BY <4>4 DEF n, m
    <3> QED BY <3>2, OneParts
  <2>5. One(answered', x) = One(answered, x) + One(store.asking, x)
    BY <1>1, <2>4, OneUnion
  <2>6. Count(Ids(io'), x) = Count(Ids(io), x) + Count(w, x)
    BY <1>8
  <2> QED BY <2>1, <2>2, <2>3, <2>5, <2>6 DEF Total
<1>11. Once(io', ui, storage', flushing, answered', dropped, DOMAIN calls)
  BY <1>2, <1>10 DEF Once
<1> QED BY <1>1, <1>9, <1>11 DEF OnceInv

LEMMA OnceInit ==
  Init => OnceInv
<1> SUFFICES ASSUME Init PROVE OnceInv
  OBVIOUS
<1>1. /\ io = <<>> /\ ui = <<>> /\ flushing = {} /\ answered = {} /\ dropped = {} /\ calls = <<>>
      /\ storage.store = NoStore /\ storage.older = {}
  BY DEF Init
<1>2. Older(storage)
  BY <1>1, FS_EmptySet, CallsAssumption DEF Older, Short, NoStore
<1>3. ASSUME NEW x PROVE Total(io, ui, storage, flushing, answered, dropped, x) = 0
  <2>1. Places(Ids(io), x) = {} /\ Places(ui, x) = {}
    BY <1>1 DEF Places, Ids
  <2>2. Count(Ids(io), x) = 0 /\ Count(ui, x) = 0
    BY <2>1, FS_EmptySet DEF Count
  <2>3. Held(storage.store, x) = 0
    <3>1. ~Busy(NoStore)
      BY DEF Busy, NoStore
    <3> QED BY <1>1, <3>1, BusyHolds
  <2>4. HeldBy(storage.older, x) = 0
    <3>1. WaitingAt({}, x) = {} /\ AskingAt({}, x) = {}
      BY DEF WaitingAt, AskingAt
    <3> QED BY <1>1, <3>1, FS_EmptySet DEF HeldBy
  <2>5. One(flushing, x) = 0 /\ One(answered, x) = 0 /\ One(dropped, x) = 0
    BY <1>1, OneParts
  <2> QED BY <2>2, <2>3, <2>4, <2>5 DEF Total
<1>4. DOMAIN calls = {}
  BY <1>1
<1> QED BY <1>2, <1>3, <1>4 DEF OnceInv, Once

LEMMA OnceStep ==
  IInv /\ OnceInv /\ [Next]_vars => OnceInv'
<1> SUFFICES ASSUME IInv, OnceInv, [Next]_vars PROVE OnceInv'
  OBVIOUS
<1>1. CASE GetBrowserContext \/ UNCHANGED vars
  <2>1. UNCHANGED <<io, ui, storage, flushing, answered, dropped, calls>>
    BY <1>1 DEF GetBrowserContext, vars, queues, history
  <2> QED BY <2>1, IdleOnce
<1>2. CASE \E t \in Caller \ {"UI"}, what \in Operation : CallMethod(t, what)
  <2>1. PICK t \in Caller, what \in Operation : CallMethod(t, what)
    BY <1>2
  <2> QED BY <2>1, CallMethodOnce
<1> QED
  BY <1>1, <1>2, CreateManagerOnce, GetDefaultOnce, RequestCookiesOnce, RunMethodOnce,
     RunWithContextOnce, RunCallbackOnce, RunUIOnce, StoreLoadedOnce, StoreFlushedOnce
  DEF Next, RunsTask, StoreWorks

(* The stores that OncePlaced looks at are the current one and the older.  *)
LEMMA OnceMeans ==
  IInv /\ OnceInv => OncePlaced
<1> SUFFICES ASSUME IInv, OnceInv, NEW id \in DOMAIN calls
             PROVE  Cardinality({k \in DOMAIN io : io[k].id = id})
                    + Cardinality({k \in DOMAIN ui : ui[k] = id})
                    + Cardinality({p \in Stores(storage) \X Id :
                                     p[2] \in DOMAIN p[1].waiting /\ p[1].waiting[p[2]] = id})
                    + Cardinality({store \in Stores(storage) : id \in store.asking})
                    + Cardinality({id} \cap flushing) + Cardinality({id} \cap answered)
                    + Cardinality({id} \cap dropped) = 1
  BY DEF OncePlaced
<1>1. /\ Fine(io, ui, storage) /\ storage \in Storage /\ Older(storage) /\ id \in Id
      /\ Once(io, ui, storage, flushing, answered, dropped, DOMAIN calls)
  BY FineNow DEF Fine
<1>2. Total(io, ui, storage, flushing, answered, dropped, id) = 1
  BY <1>1 DEF Once
<1>3. HeldBy(Stores(storage), id) = Held(storage.store, id) + HeldBy(storage.older, id)
  <2>1. /\ IsFiniteSet(storage.older) /\ Short(storage.store)
        /\ storage.store \in Store \cup {NoStore}
    BY <1>1 DEF Older, Storage
  <2>2. Held(storage.store, id) \in Nat /\ HeldBy(storage.older, id) \in Nat
    BY <2>1, HeldType, HeldByType
  <2>3. NoStore \notin storage.older
    BY <1>1 DEF Older, Busy, NoStore
  <2>4. CASE storage.store = NoStore
    <3>1. Stores(storage) = storage.older
      BY <2>3, <2>4 DEF Stores
    <3>2. Held(storage.store, id) = 0
      BY <2>1, <2>4, BusyHolds DEF Busy, NoStore
    <3> QED BY <2>2, <3>1, <3>2
  <2>5. CASE storage.store # NoStore
    <3>1. Stores(storage) = storage.older \cup {storage.store}
      BY <2>3, <2>5 DEF Stores
    <3>2. storage.store \notin storage.older
      <4>1. \A x \in Id : Held(storage.store, x) + HeldBy(storage.older, x) <= 1
        <5> SUFFICES ASSUME NEW x \in Id
                     PROVE  Held(storage.store, x) + HeldBy(storage.older, x) <= 1
          OBVIOUS
        <5>1. Held(storage.store, x) + HeldBy(storage.older, x) + One(answered, x) <= 1
          BY <1>1, HeldAtMostOnce
        <5>2. /\ One(answered, x) \in Nat
              /\ Held(storage.store, x) \in Nat /\ HeldBy(storage.older, x) \in Nat
          BY <1>1, TotalType
        <5> QED BY ONLY <5>1, <5>2
      <4> QED BY <1>1, <4>1, StoreApart
    <3>3. HeldBy(storage.older \cup {storage.store}, id)
            = HeldBy(storage.older, id) + Held(storage.store, id)
      BY <2>1, <3>2, HeldByAdd
    <3> QED BY <2>2, <3>1, <3>3
  <2> QED BY <2>4, <2>5
<1>4. /\ {k \in DOMAIN io : io[k].id = id} = Places(Ids(io), id)
      /\ {k \in DOMAIN ui : ui[k] = id} = Places(ui, id)
  BY DEF Places, Ids
<1>5. HeldBy(Stores(storage), id)
        = Cardinality({p \in Stores(storage) \X Id :
                         p[2] \in DOMAIN p[1].waiting /\ p[1].waiting[p[2]] = id})
          + Cardinality({store \in Stores(storage) : id \in store.asking})
  BY DEF HeldBy, WaitingAt, AskingAt
<1> DEFINE i == Cardinality({k \in DOMAIN io : io[k].id = id})
           u == Cardinality({k \in DOMAIN ui : ui[k] = id})
           w == Cardinality({p \in Stores(storage) \X Id :
                               p[2] \in DOMAIN p[1].waiting /\ p[1].waiting[p[2]] = id})
           s == Cardinality({store \in Stores(storage) : id \in store.asking})
           f == Cardinality({id} \cap flushing)
           a == Cardinality({id} \cap answered)
           d == Cardinality({id} \cap dropped)
           h == Held(storage.store, id)
           o == HeldBy(storage.older, id)
<1>6. i + u + h + o + f + a + d = 1
  BY <1>2, <1>4 DEF Total, Count, One
<1>7. w + s = h + o
  BY <1>3, <1>5
<1>8. i \in Nat /\ u \in Nat /\ h \in Nat /\ o \in Nat /\ f \in Nat /\ a \in Nat /\ d \in Nat
  BY <1>1, <1>4, TotalType DEF Count, One
<1>9. w \in Nat /\ s \in Nat
  <2>1. IsFiniteSet(Stores(storage))
    <3>1. IsFiniteSet(storage.older \cup {storage.store})
      BY <1>1, FS_AddElement DEF Older
    <3>2. Stores(storage) \in SUBSET (storage.older \cup {storage.store})
      BY DEF Stores
    <3> QED BY <3>1, <3>2, FS_Subset
  <2>2. IsFiniteSet(WaitingAt(Stores(storage), id)) /\ IsFiniteSet(AskingAt(Stores(storage), id))
    BY <2>1, HeldByType
  <2> QED BY <2>2, FS_CardinalityType DEF WaitingAt, AskingAt
<1> HIDE DEF i, u, w, s, f, a, d, h, o
<1>10. i + u + w + s + f + a + d = 1
  BY ONLY <1>6, <1>7, <1>8, <1>9
<1> QED BY <1>10 DEF i, u, w, s, f, a, d

(* No call is lost and none is answered twice: from when it is made, each  *)
(* one waits for a thread, for a store or for a flush, or was answered, or *)
(* given up, and it is in exactly one of these places, however the threads *)
(* and the stores that were replaced meanwhile take turns.                 *)
THEOREM NoCallIsLost == Spec => []OncePlaced
<1>1. Spec => [](IInv /\ OnceInv)
  BY InitHolds, NextStep, OnceInit, OnceStep, PTL DEF Spec
<1> QED BY <1>1, OnceMeans, PTL
=============================================================================
