-------------------------- MODULE MessageRouterProofs --------------------------
(***************************************************************************)
(* Theorems about MessageRouter, for every set of browsers, handlers and   *)
(* frames and every bound.                                                 *)
(***************************************************************************)
EXTENDS MessageRouter, FiniteSetTheorems, SequenceTheorems, WellFoundedInduction, TLAPS

(* The first of some numbers.                                              *)
LEMMA LeastExists ==
  ASSUME NEW P \in SUBSET Nat, P # {}
  PROVE  \E m \in P : \A p \in P : m <= p
<1>1. PICK m \in P : \A p \in P : ~(<<p, m>> \in OpToRel(<, Nat))
  BY NatLessThanWellFounded, WFMin, Zenon
<1>2. \A p \in P : ~(p < m)
  BY <1>1 DEF OpToRel
<1>3. m \in Nat /\ \A p \in P : p \in Nat
  OBVIOUS
<1> QED BY <1>2, <1>3

(* Every finite set of numbers can be listed in ascending order: there is  *)
(* no minimal one that cannot.                                             *)
Listable(Q) ==
  \E s \in [1 .. Cardinality(Q) -> Q] :
     \A i, j \in 1 .. Cardinality(Q) : i < j => s[i] < s[j]

LEMMA AscendingExists ==
  ASSUME NEW Q \in SUBSET Nat, IsFiniteSet(Q)
  PROVE  Listable(Q)
<1> DEFINE R == StrictSubsetOrdering(Nat)
           Bad == {P \in FiniteSubsetsOf(Nat) : ~Listable(P)}
<1>1. SUFFICES ASSUME Bad # {} PROVE FALSE
  BY DEF FiniteSubsetsOf
<1>2. PICK P \in Bad : \A U \in Bad : ~(<<U, P>> \in R)
  <2>1. IsWellFoundedOn(R, FiniteSubsetsOf(Nat))
    BY FS_StrictSubsetOrderingWellFounded
  <2>2. Bad \subseteq FiniteSubsetsOf(Nat)
    OBVIOUS
  <2> QED BY <1>1, <2>1, <2>2, WFMin, Zenon
<1>3. P \in SUBSET Nat /\ IsFiniteSet(P) /\ ~Listable(P)
  BY DEF FiniteSubsetsOf
<1>4. P # {}
  <2>1. Listable({})
    <3>1. Cardinality({}) = 0
      BY FS_EmptySet
    <3>2. [i \in 1 .. 0 |-> 0] \in [1 .. 0 -> {}]
      OBVIOUS
    <3> QED BY <3>1, <3>2 DEF Listable
  <2> QED BY <1>3, <2>1
<1>5. PICK m \in P : \A p \in P : m <= p
  BY <1>3, <1>4, LeastExists
<1> DEFINE U == P \ {m}
           n == Cardinality(P)
<1>6. U \in SUBSET Nat /\ IsFiniteSet(U) /\ n \in Nat /\ n # 0 /\ Cardinality(U) = n - 1
  BY <1>3, <1>4, FS_RemoveElement, FS_CardinalityType, FS_EmptySet
<1>7. Listable(U)
  <2>1. <<U, P>> \in R
    BY <1>3, <1>5, <1>6 DEF StrictSubsetOrdering, FiniteSubsetsOf
  <2>2. U \notin Bad
    BY <1>2, <2>1
  <2> QED BY <1>6, <2>2 DEF FiniteSubsetsOf
<1>8. PICK s \in [1 .. n - 1 -> U] : \A i, j \in 1 .. n - 1 : i < j => s[i] < s[j]
  BY <1>6, <1>7 DEF Listable
<1> DEFINE t == [i \in 1 .. n |-> IF i = 1 THEN m ELSE s[i - 1]]
<1>9. t \in [1 .. n -> P]
  BY <1>5, <1>6, <1>8
<1>10. \A i, j \in 1 .. n : i < j => t[i] < t[j]
  <2>1. SUFFICES ASSUME NEW i \in 1 .. n, NEW j \in 1 .. n, i < j PROVE t[i] < t[j]
    OBVIOUS
  <2>2. j - 1 \in 1 .. n - 1 /\ s[j - 1] \in U /\ t[j] = s[j - 1]
    BY <1>6, <1>8, <2>1
  <2>3. CASE i = 1
    <3>1. m <= s[j - 1] /\ m # s[j - 1] /\ m \in Nat /\ s[j - 1] \in Nat
      BY <1>3, <1>5, <2>2
    <3> QED BY <2>1, <2>2, <2>3, <3>1
  <2>4. CASE i # 1
    <3>1. i - 1 \in 1 .. n - 1 /\ t[i] = s[i - 1]
      BY <1>6, <2>1, <2>4
    <3> QED BY <1>6, <1>8, <2>1, <2>2, <3>1
  <2> QED BY <2>3, <2>4
<1> QED BY <1>3, <1>9, <1>10 DEF Listable

(* What Ascending returns: each query id once, in order.                   *)
LEMMA AscendingProperties ==
  ASSUME NEW Q \in SUBSET Nat, IsFiniteSet(Q)
  PROVE  /\ Cardinality(Q) \in Nat
         /\ Ascending(Q) \in [1 .. Cardinality(Q) -> Q]
         /\ \A q \in Q : \E i \in 1 .. Cardinality(Q) : Ascending(Q)[i] = q
<1> DEFINE n == Cardinality(Q)
           s == Ascending(Q)
<1>1. n \in Nat /\ IsFiniteSet(1 .. n) /\ Cardinality(1 .. n) = n
  BY FS_CardinalityType, FS_Interval
<1>2. s \in [1 .. n -> Q] /\ \A i, j \in 1 .. n : i < j => s[i] < s[j]
  BY AscendingExists DEF Listable, Ascending
<1>3. s \in Injection(1 .. n, Q)
  <2>1. ASSUME NEW i \in 1 .. n, NEW j \in 1 .. n, s[i] = s[j] PROVE i = j
    <3>1. s[i] \in Nat /\ s[j] \in Nat
      BY <1>2
    <3>2. ~(i < j) /\ ~(j < i)
      BY <1>2, <2>1, <3>1
    <3> QED BY <1>1, <2>1, <3>2
  <2> QED BY <1>2, <2>1 DEF Injection, IsInjective
<1>4. s \in Surjection(1 .. n, Q)
  BY <1>1, <1>3, FS_Injection, Zenon
<1>5. \A q \in Q : \E i \in 1 .. n : s[i] = q
  BY <1>4, Zenon DEF Surjection
<1> QED BY <1>1, <1>2, <1>5

-----------------------------------------------------------------------------
(* Types.  A message or a request exists only while its process does, a    *)
(* process has a number, and late messages are those of earlier processes. *)
Started ==
  \A b \in Browser :
     /\ proc[b] \in {"live", "dead"} => epoch[b] # 0
     /\ toBrowser[b] # <<>> => proc[b] \in {"live", "dead"}
     /\ requests[b] # {} => proc[b] = "live"
     /\ \A e \in Epoch : late[b][e] # <<>> => e < epoch[b] /\ proc[b] # "closed"

TypeInv == TypeOK /\ Started

LEMMA AnswerForType ==
  ASSUME BrowserSideTypeOK, NEW q \in DOMAIN queries, NEW success \in BOOLEAN
  PROVE  AnswerFor(q, success) \in Answer
BY DEF BrowserSideTypeOK, AnswerFor, AnswerMsg, Answer, QueryInfo

LEMMA FailuresType ==
  ASSUME BrowserSideTypeOK, NEW Q \in SUBSET DOMAIN queries
  PROVE  Failures(Q) \in [Browser -> Seq(Answer)]
<1>1. SUFFICES ASSUME NEW b \in Browser PROVE Failures(Q)[b] \in Seq(Answer)
  BY DEF Failures
<1> DEFINE P == {q \in Q : QueryOf(b, q)}
           n == Cardinality(P)
           s == Ascending(P)
<1>2. P \in SUBSET Nat /\ IsFiniteSet(P) /\ P \subseteq DOMAIN queries
  <2>1. P \in SUBSET QueryId
    BY DEF BrowserSideTypeOK
  <2>2. IsFiniteSet(QueryId) /\ QueryId \subseteq Nat
    BY HandlerAssumption, FS_Interval DEF QueryId
  <2> QED BY <2>1, <2>2, FS_Subset
<1>3. n \in Nat /\ s \in [1 .. n -> P]
  BY <1>2, AscendingProperties
<1> HIDE DEF n, s, P
<1>4. \A i \in 1 .. n : AnswerFor(s[i], FALSE) \in Answer
  <2>1. ASSUME NEW i \in 1 .. n PROVE AnswerFor(s[i], FALSE) \in Answer
    <3>1. s[i] \in DOMAIN queries
      BY <1>2, <1>3
    <3> QED BY <3>1 DEF BrowserSideTypeOK, AnswerFor, AnswerMsg, Answer, QueryInfo
  <2> QED BY <2>1
<1>5. [i \in 1 .. n |-> AnswerFor(s[i], FALSE)] \in Seq(Answer)
  <2> DEFINE f == [i \in 1 .. n |-> AnswerFor(s[i], FALSE)]
  <2>1. f \in [1 .. n -> Answer]
    BY <1>4
  <2> HIDE DEF f
  <2>2. f \in Seq(Answer)
    BY <1>3, <2>1
  <2> QED BY <2>2 DEF f
<1>6. Failures(Q)[b] = [i \in 1 .. n |-> AnswerFor(s[i], FALSE)]
  BY <1>3 DEF Failures, s, P
<1> QED BY <1>5, <1>6

LEMMA SendAllType ==
  ASSUME TransportTypeOK, NEW out \in [Browser -> Seq(Answer)], SendAll(out)
  PROVE  queued' \in [Browser -> Seq(Answer)] /\ toRenderer' \in [Browser -> Seq(Answer)]
BY DEF TransportTypeOK, SendAll

LEMMA ToType ==
  ASSUME NEW b \in Browser, NEW s \in Seq(Answer)
  PROVE  To(b, s) \in [Browser -> Seq(Answer)]
BY DEF To

LEMMA CallbackType ==
  ASSUME BrowserSideTypeOK, NEW q, NEW rest \in Seq(UiTask),
         CallbackSuccess(q, rest) \/ CallbackFailure(q, rest)
  PROVE  uiTasks' \in Seq(UiTask) /\ attached' \subseteq QueryId
<1>1. attached \subseteq QueryId
  BY DEF BrowserSideTypeOK
<1>2. CASE q \in attached
  <2>1. \A op \in {"OnCallbackSuccess", "OnCallbackFailure"} : QueryTask(op, q) \in UiTask
    BY <1>1, <1>2 DEF QueryTask, UiTask
  <2>2. \A t \in UiTask : Append(rest, t) \in Seq(UiTask)
    OBVIOUS
  <2>3. attached' \subseteq attached
    BY <1>2 DEF CallbackSuccess, CallbackFailure
  <2>4. uiTasks' \in Seq(UiTask)
    BY <1>2, <2>1, <2>2 DEF CallbackSuccess, CallbackFailure
  <2> QED BY <1>1, <2>3, <2>4
<1>3. CASE q \notin attached
  BY <1>1, <1>3 DEF CallbackSuccess, CallbackFailure
<1> QED BY <1>2, <1>3

LEMMA CancelQueriesType ==
  ASSUME BrowserSideTypeOK, NEW Q, CancelQueries(Q)
  PROVE  /\ DOMAIN queries' \subseteq QueryId
         /\ queries' \in [DOMAIN queries' -> QueryInfo]
         /\ attached' \subseteq QueryId
BY DEF BrowserSideTypeOK, CancelQueries, Without

LEMMA CancelSilentlyType ==
  ASSUME BrowserSideTypeOK, NEW B, CancelSilently(B)
  PROVE  /\ DOMAIN queries' \subseteq QueryId
         /\ queries' \in [DOMAIN queries' -> QueryInfo]
         /\ attached' \subseteq QueryId
         /\ dropped' \subseteq Uid
<1>1. \A q \in DOMAIN queries : UidOfQuery(q) \in Uid
  BY DEF BrowserSideTypeOK, QueryInfo, UidOfQuery, Uid
<1>2. dropped' \subseteq Uid
  BY <1>1 DEF CancelSilently, Matching, BrowserSideTypeOK
<1> QED BY <1>2, CancelQueriesType DEF CancelSilently

LEMMA CancelPendingForType ==
  ASSUME TransportTypeOK, BrowserSideTypeOK, NEW B, NEW H, CancelPendingFor(B, H)
  PROVE  /\ DOMAIN queries' \subseteq QueryId
         /\ queries' \in [DOMAIN queries' -> QueryInfo]
         /\ attached' \subseteq QueryId
         /\ dropped' = dropped
         /\ queued' \in [Browser -> Seq(Answer)]
         /\ toRenderer' \in [Browser -> Seq(Answer)]
<1>1. Matching(B, H) \in SUBSET DOMAIN queries
  BY DEF Matching
<1>2. Failures(Matching(B, H)) \in [Browser -> Seq(Answer)]
  BY <1>1, FailuresType
<1> QED BY <1>2, SendAllType, CancelQueriesType DEF CancelPendingFor

-----------------------------------------------------------------------------
(* Each action keeps the types: first the handlers' ...                    *)
LEMMA HandlerStepType ==
  ASSUME TypeInv, HandlerStep
  PROVE  TypeInv'
<1> USE DEF TypeInv, TypeOK, RendererSideTypeOK, rendererSideVars, transportVars,
            navigationVars
<1>1. ASSUME NEW h \in Handler, AddHandler(h),
             UNCHANGED <<rendererSideVars, navigationVars>>
      PROVE  TypeInv'
  BY <1>1 DEF AddHandler, TransportTypeOK, BrowserSideTypeOK, Started
<1>2. ASSUME NEW h \in Handler, RemoveHandler(h),
             UNCHANGED <<rendererSideVars, navigationVars>>
      PROVE  TypeInv'
  <2>1. CancelPendingFor(Browser, {h})
    BY <1>2 DEF RemoveHandler
  <2> QED BY <1>2, <2>1, CancelPendingForType
          DEF RemoveHandler, TransportTypeOK, BrowserSideTypeOK, Started
<1>3. ASSUME NEW B, NEW H, CancelPending(B, H),
             UNCHANGED <<rendererSideVars, navigationVars>>
      PROVE  TypeInv'
  <2>1. CancelPendingFor(B, H)
    BY <1>3 DEF CancelPending
  <2> QED BY <1>3, <2>1, CancelPendingForType
          DEF CancelPending, TransportTypeOK, BrowserSideTypeOK, Started
<1>4. ASSUME NEW B \in SUBSET Browser, NEW H \in SUBSET Handler, CancelPendingOffUI(B, H),
             UNCHANGED <<rendererSideVars, navigationVars>>
      PROVE  TypeInv'
  <2>1. CancelTask(B, H) \in UiTask
    BY DEF CancelTask, UiTask
  <2> QED BY <1>4, <2>1
          DEF CancelPendingOffUI, TransportTypeOK, BrowserSideTypeOK, Started
<1>5. ASSUME NEW q \in QueryId, Succeed(q) \/ Fail(q),
             UNCHANGED <<rendererSideVars, navigationVars>>
      PROVE  TypeInv'
  <2>1. CallbackSuccess(q, uiTasks) \/ CallbackFailure(q, uiTasks)
    BY <1>5 DEF Succeed, Fail
  <2>2. uiTasks' \in Seq(UiTask) /\ attached' \subseteq QueryId
    BY <2>1, CallbackType DEF BrowserSideTypeOK
  <2> QED BY <1>5, <2>2
          DEF Succeed, Fail, CallbackUnchanged, TransportTypeOK, BrowserSideTypeOK, Started
<1>6. ASSUME NEW q \in QueryId, NEW op \in {"Success", "Failure"}, AnswerOffUI(q, op),
             UNCHANGED <<rendererSideVars, navigationVars>>
      PROVE  TypeInv'
  <2>1. QueryTask(op, q) \in UiTask
    BY DEF QueryTask, UiTask
  <2> QED BY <1>6, <2>1
          DEF AnswerOffUI, CallbackUnchanged, TransportTypeOK, BrowserSideTypeOK, Started
<1>7. DOMAIN queries \subseteq QueryId
  BY DEF BrowserSideTypeOK
<1> QED BY <1>1, <1>2, <1>3, <1>4, <1>5, <1>6, <1>7 DEF HandlerStep

(* ... the tasks of the UI thread ...                                      *)
LEMMA UiTaskStepType ==
  ASSUME TypeInv, UiTaskStep
  PROVE  TypeInv'
<1> USE DEF TypeInv, TypeOK, RendererSideTypeOK, rendererSideVars, transportVars,
            navigationVars
<1>1. uiTasks # <<>> => Head(uiTasks) \in UiTask /\ Tail(uiTasks) \in Seq(UiTask)
  BY HeadTailProperties DEF BrowserSideTypeOK
<1>2. CASE RunSuccess \/ RunFailure
  <2>1. uiTasks # <<>> /\ (\/ CallbackSuccess(Head(uiTasks).query, Tail(uiTasks))
                         \/ CallbackFailure(Head(uiTasks).query, Tail(uiTasks)))
    BY <1>2 DEF RunSuccess, RunFailure, NextTask
  <2>2. uiTasks' \in Seq(UiTask) /\ attached' \subseteq QueryId
    BY <1>1, <2>1, CallbackType
  <2> QED BY <1>2, <2>2
          DEF UiTaskStep, RunSuccess, RunFailure, CallbackUnchanged,
              TransportTypeOK, BrowserSideTypeOK, Started
<1>3. CASE RunCancelPending
  <2>1. CancelPendingFor(Head(uiTasks).browsers, Head(uiTasks).handlers)
    BY <1>3 DEF RunCancelPending
  <2> QED BY <1>1, <1>3, <2>1, CancelPendingForType
          DEF UiTaskStep, RunCancelPending, NextTask, TransportTypeOK, BrowserSideTypeOK, Started
<1>4. ASSUME NEW success \in BOOLEAN, Deliver(Head(uiTasks).query, success),
             DeliverUnchanged, uiTasks # <<>>
      PROVE  TypeInv'
  <2> DEFINE q == Head(uiTasks).query
  <2>1. CASE q \in DOMAIN queries
    <3>1. AnswerFor(q, success) \in Answer /\ queries[q].browser \in Browser
      BY <2>1, AnswerForType DEF BrowserSideTypeOK, QueryInfo
    <3>2. To(queries[q].browser, <<AnswerFor(q, success)>>) \in [Browser -> Seq(Answer)]
      <4>1. <<AnswerFor(q, success)>> \in Seq(Answer)
        BY <3>1
      <4> QED BY <3>1, <4>1, ToType
    <3>3. queued' \in [Browser -> Seq(Answer)] /\ toRenderer' \in [Browser -> Seq(Answer)]
      BY <1>4, <2>1, <3>2, SendAllType DEF Deliver
    <3>4. DOMAIN queries' \subseteq QueryId /\ queries' \in [DOMAIN queries' -> QueryInfo]
      BY <1>4, <2>1 DEF Deliver, Without, BrowserSideTypeOK
    <3> QED BY <1>1, <1>4, <3>3, <3>4
            DEF UiTaskStep, DeliverUnchanged, TransportTypeOK, BrowserSideTypeOK, Started
  <2>2. CASE q \notin DOMAIN queries
    BY <1>1, <1>4, <2>2
    DEF UiTaskStep, Deliver, DeliverUnchanged, TransportTypeOK, BrowserSideTypeOK, Started
  <2> QED BY <2>1, <2>2
<1>5. CASE OnCallbackSuccess \/ OnCallbackFailure
  BY <1>4, <1>5 DEF OnCallbackSuccess, OnCallbackFailure, NextTask
<1> QED BY <1>2, <1>3, <1>5 DEF UiTaskStep

(* ... the messages from the renderer ...                                  *)
LEMMA ArrivedType ==
  ASSUME TypeInv, NEW b \in Browser, NEW kind, Arrived(b, kind)
  PROVE  /\ Head(toBrowser[b]) \in Request /\ Head(toBrowser[b]).kind = kind
         /\ [toBrowser EXCEPT ![b] = Tail(@)] \in [Browser -> Seq(Request)]
         /\ epoch[b] \in Epoch
         /\ proc[b] \in {"live", "dead"}
<1>1. toBrowser[b] \in Seq(Request) /\ toBrowser[b] # <<>>
  BY DEF Arrived, TypeInv, TypeOK, TransportTypeOK
<1>2. Head(toBrowser[b]) \in Request /\ Tail(toBrowser[b]) \in Seq(Request)
  BY <1>1, HeadTailProperties
<1>3. proc[b] \in {"live", "dead"} /\ epoch[b] # 0
  BY <1>1 DEF TypeInv, Started
<1> QED BY <1>1, <1>2, <1>3, BoundsAssumption
        DEF Arrived, Epoch, TypeInv, TypeOK, TransportTypeOK

LEMMA LateArrivedType ==
  ASSUME TypeInv, NEW b \in Browser, NEW e \in Epoch, NEW kind, LateArrived(b, e, kind)
  PROVE  /\ Head(late[b][e]) \in Request /\ Head(late[b][e]).kind = kind
         /\ [late EXCEPT ![b][e] = Tail(@)] \in [Browser -> [Epoch -> Seq(Request)]]
         /\ e < epoch[b] /\ proc[b] # "closed"
<1>1. late[b][e] \in Seq(Request) /\ late[b][e] # <<>>
  BY DEF LateArrived, TypeInv, TypeOK, TransportTypeOK
<1>2. Head(late[b][e]) \in Request /\ Tail(late[b][e]) \in Seq(Request)
  BY <1>1, HeadTailProperties
<1>3. [late EXCEPT ![b][e] = Tail(@)] \in [Browser -> [Epoch -> Seq(Request)]]
  BY <1>2 DEF TypeInv, TypeOK, TransportTypeOK
<1> QED BY <1>1, <1>2, <1>3 DEF LateArrived, TypeInv, Started

LEMMA LateTail ==
  ASSUME TypeInv, NEW b \in Browser, NEW e \in Epoch, NEW kind, LateArrived(b, e, kind),
         late' = [late EXCEPT ![b][e] = Tail(@)]
  PROVE  \A c \in Browser : \A x \in Epoch : late'[c][x] # <<>> => late[c][x] # <<>>
BY DEF LateArrived, TypeInv, TypeOK, TransportTypeOK

LEMMA TakeQueryType ==
  ASSUME TypeInv, NEW b \in Browser, NEW e \in Epoch, NEW m \in Request, m.kind = "query",
         NEW unguarded \in BOOLEAN, NEW taker, NEW removed,
         TakeQuery(b, e, m, unguarded, taker, removed)
  PROVE  /\ BrowserSideTypeOK'
         /\ queued' \in [Browser -> Seq(Answer)] /\ toRenderer' \in [Browser -> Seq(Answer)]
<1> DEFINE gone == Matching(Browser, removed)
<1>1. /\ BrowserSideTypeOK /\ TransportTypeOK
      /\ UNCHANGED <<uiTasks, dropped, unheard>> /\ handlers' \subseteq handlers
  BY DEF TakeQuery, TypeInv, TypeOK
<1>2. m.ctx \in Id /\ m.req \in Id /\ m.persistent \in BOOLEAN
  BY DEF Request
<1>3. gone \in SUBSET DOMAIN queries /\ Failures(gone) \in [Browser -> Seq(Answer)]
  <2>1. gone \in SUBSET DOMAIN queries
    BY DEF Matching
  <2> QED BY <2>1, FailuresType DEF TypeInv, TypeOK
<1>4. CancelUnhandledQuery(e, m) \in Seq(Answer)
  <2>1. AnswerMsg(e, m.ctx, m.req, FALSE) \in Answer
    BY <1>2 DEF AnswerMsg, Answer
  <2> DEFINE a == AnswerMsg(e, m.ctx, m.req, FALSE)
  <2> HIDE DEF a
  <2>2. a \in Answer
    BY <2>1 DEF a
  <2>3. <<a>> \in Seq(Answer)
    BY <2>2
  <2> QED BY <2>3 DEF CancelUnhandledQuery, a
<1>5. received' \subseteq Uid
  BY <1>2 DEF TakeQuery, Uid, TypeInv, TypeOK, BrowserSideTypeOK
<1>6. CASE taker \in handlers
  <2>1. queued' \in [Browser -> Seq(Answer)] /\ toRenderer' \in [Browser -> Seq(Answer)]
    BY <1>3, <1>6, SendAllType DEF TakeQuery, TypeInv, TypeOK
  <2>2. nextQueryId \in QueryId /\ nextQueryId' \in 1 .. (MaxQueries + 1)
    BY <1>6, HandlerAssumption
    DEF TakeQuery, QueryId, TypeInv, TypeOK, BrowserSideTypeOK
  <2> DEFINE info == [browser |-> b, epoch |-> e, ctx |-> m.ctx, req |-> m.req,
                      persistent |-> m.persistent, handler |-> taker,
                      unguarded |-> unguarded]
  <2>3. info \in QueryInfo
    BY <1>1, <1>2, <1>6 DEF QueryInfo, TypeInv, TypeOK, BrowserSideTypeOK
  <2>4. queries' = [q \in (DOMAIN queries \ gone) \cup {nextQueryId} |->
                      IF q = nextQueryId THEN info ELSE queries[q]]
    BY <1>6 DEF TakeQuery
  <2> HIDE DEF info, gone
  <2>5. DOMAIN queries' \subseteq QueryId /\ queries' \in [DOMAIN queries' -> QueryInfo]
    BY <2>2, <2>3, <2>4 DEF TypeInv, TypeOK, BrowserSideTypeOK
  <2>6. attached' \subseteq QueryId
    BY <1>6, <2>2 DEF TakeQuery, TypeInv, TypeOK, BrowserSideTypeOK
  <2> QED BY <1>1, <1>5, <2>1, <2>2, <2>5, <2>6 DEF BrowserSideTypeOK
<1>7. CASE taker \notin handlers
  <2>1. [Failures(gone) EXCEPT ![b] = @ \o CancelUnhandledQuery(e, m)] \in [Browser -> Seq(Answer)]
    BY <1>3, <1>4
  <2>2. queued' \in [Browser -> Seq(Answer)] /\ toRenderer' \in [Browser -> Seq(Answer)]
    BY <1>7, <2>1, SendAllType DEF TakeQuery, TypeInv, TypeOK
  <2>3. nextQueryId' \in 1 .. (MaxQueries + 1)
    BY HandlerAssumption DEF TakeQuery, TypeInv, TypeOK, BrowserSideTypeOK
  <2>4. CancelQueries(gone)
    BY <1>7 DEF TakeQuery
  <2>5. /\ DOMAIN queries' \subseteq QueryId /\ queries' \in [DOMAIN queries' -> QueryInfo]
        /\ attached' \subseteq QueryId
    BY <2>4, CancelQueriesType DEF TypeInv, TypeOK
  <2> QED BY <1>1, <1>5, <2>2, <2>3, <2>5 DEF BrowserSideTypeOK
<1> QED BY <1>6, <1>7

LEMMA ReceiveQueryType ==
  ASSUME TypeInv, NEW b \in Browser, NEW unguarded \in BOOLEAN, NEW taker, NEW removed,
         ReceiveQuery(b, unguarded, taker, removed),
         UNCHANGED <<rendererSideVars, navigationVars>>
  PROVE  TypeInv'
<1>1. /\ Head(toBrowser[b]) \in Request /\ Head(toBrowser[b]).kind = "query"
      /\ epoch[b] \in Epoch /\ proc[b] \in {"live", "dead"}
      /\ toBrowser' \in [Browser -> Seq(Request)]
  BY ArrivedType DEF ReceiveQuery, Epoch
<1>2. TakeQuery(b, epoch[b], Head(toBrowser[b]), unguarded, taker, removed)
  BY DEF ReceiveQuery
<1>3. /\ BrowserSideTypeOK'
      /\ queued' \in [Browser -> Seq(Answer)] /\ toRenderer' \in [Browser -> Seq(Answer)]
  BY <1>1, <1>2, TakeQueryType
<1> QED BY <1>1, <1>2, <1>3
        DEF ReceiveQuery, TakeQuery, TypeInv, TypeOK, TransportTypeOK, RendererSideTypeOK,
            rendererSideVars, navigationVars, Started

LEMMA ReceiveLateQueryType ==
  ASSUME TypeInv, NEW b \in Browser, NEW e \in Epoch, NEW taker, NEW removed,
         ReceiveLateQuery(b, e, taker, removed),
         UNCHANGED <<rendererSideVars, navigationVars>>
  PROVE  TypeInv'
<1>1. /\ Head(late[b][e]) \in Request /\ Head(late[b][e]).kind = "query"
      /\ late' \in [Browser -> [Epoch -> Seq(Request)]]
  BY LateArrivedType DEF ReceiveLateQuery
<1>2. TakeQuery(b, e, Head(late[b][e]), TRUE, taker, removed)
  BY DEF ReceiveLateQuery
<1>3. /\ BrowserSideTypeOK'
      /\ queued' \in [Browser -> Seq(Answer)] /\ toRenderer' \in [Browser -> Seq(Answer)]
  BY <1>1, <1>2, TakeQueryType
<1>4. \A c \in Browser : \A x \in Epoch : late'[c][x] # <<>> => late[c][x] # <<>>
  BY LateTail DEF ReceiveLateQuery
<1> QED BY <1>1, <1>2, <1>3, <1>4
        DEF ReceiveLateQuery, TakeQuery, TypeInv, TypeOK, TransportTypeOK, RendererSideTypeOK,
            rendererSideVars, navigationVars, Started

LEMMA CancelPendingRequestType ==
  ASSUME TypeInv, NEW b, NEW e, NEW c, NEW r, CancelPendingRequest(b, e, c, r)
  PROVE  BrowserSideTypeOK'
<1> DEFINE Q   == Canceled(b, c, r)
           hit == IF r = kReservedId THEN Q ELSE {q \in Q : \A p \in Q : q <= p}
<1>1. CancelQueries(hit)
  BY DEF CancelPendingRequest
<1>2. /\ DOMAIN queries' \subseteq QueryId /\ queries' \in [DOMAIN queries' -> QueryInfo]
      /\ attached' \subseteq QueryId
  BY <1>1, CancelQueriesType DEF TypeInv, TypeOK
<1>3. \A q \in DOMAIN queries : UidOfQuery(q) \in Uid
  BY DEF TypeInv, TypeOK, BrowserSideTypeOK, QueryInfo, UidOfQuery, Uid
<1>4. hit \subseteq Q /\ Q \subseteq DOMAIN queries
  BY DEF Canceled
<1>5. dropped' \subseteq Uid /\ unheard' \subseteq Uid
  BY <1>3, <1>4 DEF CancelPendingRequest, TypeInv, TypeOK, BrowserSideTypeOK
<1> QED BY <1>2, <1>5 DEF CancelPendingRequest, TypeInv, TypeOK, BrowserSideTypeOK

LEMMA ReceiveCancelType ==
  ASSUME TypeInv, NEW b \in Browser,
         ReceiveCancel(b) \/ \E e \in Epoch : ReceiveLateCancel(b, e),
         UNCHANGED <<rendererSideVars, navigationVars>>
  PROVE  TypeInv'
<1> USE DEF TypeInv, TypeOK, TransportTypeOK, RendererSideTypeOK, rendererSideVars,
            navigationVars, Started
<1>1. CASE ReceiveCancel(b)
  <2>1. BrowserSideTypeOK'
    BY <1>1, CancelPendingRequestType DEF ReceiveCancel
  <2>2. toBrowser' \in [Browser -> Seq(Request)] /\ proc[b] \in {"live", "dead"}
    BY <1>1, ArrivedType DEF ReceiveCancel
  <2> QED BY <1>1, <2>1, <2>2 DEF ReceiveCancel, CancelPendingRequest
<1>2. ASSUME NEW e \in Epoch, ReceiveLateCancel(b, e)
      PROVE  TypeInv'
  <2>1. BrowserSideTypeOK'
    BY <1>2, CancelPendingRequestType DEF ReceiveLateCancel
  <2>2. late' \in [Browser -> [Epoch -> Seq(Request)]]
    BY <1>2, LateArrivedType DEF ReceiveLateCancel
  <2>3. \A c \in Browser : \A x \in Epoch : late'[c][x] # <<>> => late[c][x] # <<>>
    BY <1>2, LateTail DEF ReceiveLateCancel
  <2> QED BY <1>2, <2>1, <2>2, <2>3 DEF ReceiveLateCancel, CancelPendingRequest
<1> QED BY <1>1, <1>2

-----------------------------------------------------------------------------
(* ... the renderer's steps ...                                            *)
LEMMA SendToBrowserType ==
  ASSUME TypeInv, NEW b \in Browser, NEW s \in Seq(Request), SendToBrowser(b, s)
  PROVE  toBrowser' \in [Browser -> Seq(Request)]
BY DEF SendToBrowser, TypeInv, TypeOK, TransportTypeOK

LEMMA JavaScriptStepType ==
  ASSUME TypeInv, NEW b \in Browser, JavaScriptStep(b)
  PROVE  TypeInv'
<1> USE DEF TypeInv, TypeOK, BrowserSideTypeOK, browserSideVars, navigationVars
<1>1. ASSUME NEW f \in Frame, UseContext(b, f)
      PROVE  /\ ContextId(b, f) \in Id /\ proc[b] = "live"
             /\ ctx' \in [Browser -> [Frame -> Id0]]
             /\ lastCtx' \in [Browser -> Id0]
  BY <1>1, BoundsAssumption DEF UseContext, ContextId, RendererSideTypeOK, Id0, Id, kReservedId
<1>2. ASSUME NEW f \in Frame, NEW persistent \in BOOLEAN, CefQuery(b, f, persistent),
             UNCHANGED <<browserSideVars, navigationVars>>
      PROVE  TypeInv'
  <2> DEFINE c == ContextId(b, f)
             r == lastReq[b] + 1
  <2>1. /\ c \in Id /\ r \in Id /\ proc[b] = "live"
        /\ ctx' \in [Browser -> [Frame -> Id0]] /\ lastCtx' \in [Browser -> Id0]
    BY <1>1, <1>2 DEF CefQuery
  <2>2. epoch[b] \in Epoch
    BY <2>1, BoundsAssumption DEF Epoch, Started, TransportTypeOK
  <2>3. toBrowser' \in [Browser -> Seq(Request)]
    <3>1. QueryMsg(c, r, persistent) \in Request
      BY <2>1 DEF QueryMsg, Request
    <3>2. <<QueryMsg(c, r, persistent)>> \in Seq(Request)
      BY <3>1
    <3> QED BY <1>2, <3>2, SendToBrowserType DEF CefQuery
  <2>4. requests' \in [Browser -> SUBSET RequestInfo]
    BY <1>2, <2>1 DEF CefQuery, RequestInfo, RendererSideTypeOK
  <2>5. RequestUid(b, r) \in [browser : Browser, epoch : Epoch, req : Id]
    BY <2>1, <2>2 DEF RequestUid
  <2>6. lastReq' \in [Browser -> Id0]
    BY <1>2, <2>1 DEF CefQuery, RendererSideTypeOK, Id0
  <2>7. Started'
    BY <1>2, <2>1 DEF CefQuery, SendToBrowser, Started, TransportTypeOK, RendererSideTypeOK
  <2> QED BY <1>2, <2>1, <2>3, <2>4, <2>5, <2>6, <2>7
          DEF CefQuery, TransportTypeOK, RendererSideTypeOK
<1>3. ASSUME NEW f \in Frame, NEW r \in Id, CefQueryCancel(b, f, r),
             UNCHANGED <<browserSideVars, navigationVars>>
      PROVE  TypeInv'
  <2> DEFINE c == ContextId(b, f)
             P == PendingRequests(b, c, r)
  <2>1. /\ c \in Id /\ proc[b] = "live"
        /\ ctx' \in [Browser -> [Frame -> Id0]] /\ lastCtx' \in [Browser -> Id0]
    BY <1>1, <1>3 DEF CefQueryCancel
  <2>2. toBrowser' \in [Browser -> Seq(Request)]
    <3>1. CancelMsg(c, r) \in Request
      BY <2>1 DEF CancelMsg, Request, Id0
    <3>2. (IF P = {} THEN <<>> ELSE <<CancelMsg(c, r)>>) \in Seq(Request)
      BY <3>1
    <3> QED BY <1>3, <3>2, SendToBrowserType DEF CefQueryCancel, SendCancel
  <2>3. requests' \in [Browser -> SUBSET RequestInfo]
    BY <1>3 DEF CefQueryCancel, SendCancel, RendererSideTypeOK
  <2>4. Started'
    BY <1>3, <2>1
    DEF CefQueryCancel, CancelUnchanged, SendCancel, SendToBrowser, Started,
        TransportTypeOK, RendererSideTypeOK
  <2> QED BY <1>3, <2>1, <2>2, <2>3, <2>4
          DEF CefQueryCancel, CancelUnchanged, TransportTypeOK, RendererSideTypeOK
<1> QED BY <1>2, <1>3 DEF JavaScriptStep

LEMMA ReleaseContextType ==
  ASSUME TypeInv, NEW b \in Browser, NEW f \in Frame, ReleaseContext(b, f)
  PROVE  TypeInv'
<1> USE DEF TypeInv, TypeOK, BrowserSideTypeOK, browserSideVars, navigationVars
<1> DEFINE c == ctx[b][f]
           P == PendingRequests(b, c, kReservedId)
<1>1. c \in Id /\ proc[b] = "live" /\ SendCancel(b, c, kReservedId)
  BY DEF ReleaseContext, OnContextReleased, RendererSideTypeOK, Id0
<1>2. toBrowser' \in [Browser -> Seq(Request)]
  <2>1. CancelMsg(c, kReservedId) \in Request
    BY <1>1 DEF CancelMsg, Request, Id0
  <2>2. (IF P = {} THEN <<>> ELSE <<CancelMsg(c, kReservedId)>>) \in Seq(Request)
    BY <2>1
  <2> QED BY <1>1, <2>2, SendToBrowserType DEF SendCancel
<1>3. requests' \in [Browser -> SUBSET RequestInfo]
  BY <1>1 DEF SendCancel, RendererSideTypeOK
<1>4. ctx' \in [Browser -> [Frame -> Id0]]
  BY DEF ReleaseContext, OnContextReleased, RendererSideTypeOK, Id0
<1>5. Started'
  BY <1>1
  DEF ReleaseContext, OnContextReleased, CancelUnchanged, SendCancel, SendToBrowser, Started,
      TransportTypeOK, RendererSideTypeOK
<1>6. navigating' \in [Browser -> BOOLEAN]
  BY DEF ReleaseContext
<1> QED BY <1>2, <1>3, <1>4, <1>5, <1>6
        DEF ReleaseContext, OnContextReleased, CancelUnchanged, TransportTypeOK, RendererSideTypeOK

LEMMA AnswerStepType ==
  ASSUME TypeInv, NEW b \in Browser, ReceiveAnswerStep(b) \/ ExecuteStep(b)
  PROVE  TypeInv'
<1> USE DEF TypeInv, TypeOK, BrowserSideTypeOK, browserSideVars, navigationVars
<1>1. CASE ReceiveAnswerStep(b)
  <2>1. Head(toRenderer[b]) \in Answer /\ Tail(toRenderer[b]) \in Seq(Answer)
    BY <1>1, HeadTailProperties DEF ReceiveAnswerStep, ReceiveAnswer, TransportTypeOK
  <2>2. TransportTypeOK' /\ Started'
    BY <1>1, <2>1 DEF ReceiveAnswerStep, ReceiveAnswer, TransportTypeOK, Started
  <2>3. RendererSideTypeOK'
    BY <1>1, <2>1 DEF ReceiveAnswerStep, ReceiveAnswer, RendererSideTypeOK
  <2> QED BY <1>1, <2>2, <2>3 DEF ReceiveAnswerStep
<1>2. CASE ExecuteStep(b)
  <2>1. PICK done \in SUBSET requests[b] :
           /\ requests' = [requests EXCEPT ![b] = @ \ done]
           /\ \/ answered' = answered \cup Told(b, done) /\ UNCHANGED misled
              \/ misled' = misled \cup Told(b, done) /\ UNCHANGED answered
    BY <1>2
    DEF ExecuteStep, ExecuteSuccessCallback, ExecuteFailureCallback, GetRequestInfo, EndRequests
  <2>2. Told(b, done) \subseteq [browser : Browser, epoch : Epoch, req : Id]
    <3>1. SUFFICES ASSUME NEW i \in done
                   PROVE  RequestUid(b, i.req) \in [browser : Browser, epoch : Epoch, req : Id]
      BY DEF Told
    <3>2. proc[b] = "live" /\ epoch[b] # 0
      BY DEF Started
    <3>3. epoch[b] \in Epoch /\ i.req \in Id
      BY <3>2, BoundsAssumption DEF Epoch, TransportTypeOK, RendererSideTypeOK, RequestInfo
    <3> QED BY <3>3 DEF RequestUid
  <2>3. jsTasks' \in [Browser -> Seq(Answer)]
    <3>1. Tail(jsTasks[b]) \in Seq(Answer)
      BY <1>2, HeadTailProperties
      DEF ExecuteStep, ExecuteSuccessCallback, ExecuteFailureCallback, RendererSideTypeOK
    <3> QED BY <1>2, <3>1
            DEF ExecuteStep, ExecuteSuccessCallback, ExecuteFailureCallback, RendererSideTypeOK
  <2>4. UNCHANGED <<ctx, lastCtx, lastReq, issued, transportVars, browserSideVars, navigationVars>>
    BY <1>2 DEF ExecuteStep, ExecuteSuccessCallback, ExecuteFailureCallback
  <2> QED BY <2>1, <2>2, <2>3, <2>4
          DEF transportVars, TransportTypeOK, RendererSideTypeOK, Started
<1> QED BY <1>1, <1>2

-----------------------------------------------------------------------------
(* ... and the life of the renderer process.                               *)
LEMMA NavigationType ==
  ASSUME TypeInv, NEW b \in Browser, OnBeforeBrowse(b) \/ StopLoad(b)
  PROVE  TypeInv'
<1> USE DEF TypeInv, TypeOK, TransportTypeOK, RendererSideTypeOK, Started,
            transportVars, rendererSideVars, navigationVars
<1>1. CASE OnBeforeBrowse(b)
  <2>1. /\ DOMAIN queries' \subseteq QueryId
        /\ queries' \in [DOMAIN queries' -> QueryInfo]
        /\ attached' \subseteq QueryId
        /\ dropped' \subseteq Uid
    BY <1>1, CancelSilentlyType DEF OnBeforeBrowse
  <2> QED BY <1>1, <2>1 DEF OnBeforeBrowse, BrowserSideTypeOK
<1>2. CASE StopLoad(b)
  BY <1>2 DEF StopLoad, BrowserSideTypeOK, browserSideVars
<1> QED BY <1>1, <1>2

LEMMA LaunchType ==
  ASSUME TypeInv, NEW b \in Browser, LaunchRenderer(b) \/ RenderViewReady(b)
  PROVE  TypeInv'
<1> USE DEF TypeInv, TypeOK, RendererSideTypeOK, BrowserSideTypeOK, Started,
            browserSideVars, rendererSideVars, navigationVars
<1>1. CASE LaunchRenderer(b)
  <2>1. epoch[b] \in Nat /\ epoch[b] + 1 \in 0 .. MaxEpochs /\ epoch[b] + 1 # 0
    BY <1>1, BoundsAssumption DEF LaunchRenderer, LaunchProcess, TransportTypeOK
  <2>2. TransportTypeOK'
    BY <1>1, <2>1 DEF LaunchRenderer, LaunchProcess, TransportTypeOK, ProcState
  <2>3. \A c \in Browser : \A e \in Epoch :
           late'[c][e] # <<>> => e < epoch'[c] /\ proc'[c] # "closed"
    <3>1. \A e \in Epoch : e < epoch[b] => e < epoch[b] + 1
      BY <2>1 DEF Epoch
    <3> QED BY <1>1, <3>1 DEF LaunchRenderer, LaunchProcess, TransportTypeOK
  <2> QED BY <1>1, <2>1, <2>2, <2>3 DEF LaunchRenderer, LaunchProcess, TransportTypeOK
<1>2. CASE RenderViewReady(b)
  <2>1. toRenderer' \in [Browser -> Seq(Answer)] /\ queued' \in [Browser -> Seq(Answer)]
    BY <1>2 DEF RenderViewReady, FlushQueue, TransportTypeOK
  <2> QED BY <1>2, <2>1 DEF RenderViewReady, FlushQueue, TransportTypeOK
<1> QED BY <1>1, <1>2

LEMMA ForgetProcessType ==
  ASSUME RendererSideTypeOK, NEW b \in Browser, ForgetProcess(b)
  PROVE  /\ ctx' \in [Browser -> [Frame -> Id0]]
         /\ lastCtx' \in [Browser -> Id0]
         /\ lastReq' \in [Browser -> Id0]
         /\ requests' \in [Browser -> SUBSET RequestInfo]
         /\ requests'[b] = {}
         /\ jsTasks' \in [Browser -> Seq(Answer)]
         /\ issued' = issued /\ answered' = answered /\ misled' = misled
BY DEF RendererSideTypeOK, ForgetProcess, NoContexts, Id0

LEMMA CommitElsewhereType ==
  ASSUME TypeInv, NEW b \in Browser, CommitElsewhere(b)
  PROVE  TypeInv'
<1> USE DEF TypeInv, TypeOK, Started, ProcState, navigationVars
<1> DEFINE s == toBrowser[b] \o LastCancel(b)
<1>1. ForgetProcess(b) /\ SwapProcess(b, LastCancel(b))
  BY DEF CommitElsewhere
<1>2. /\ proc[b] = "live" /\ epoch[b] \in Epoch /\ epoch[b] + 1 \in Epoch
      /\ epoch' = [epoch EXCEPT ![b] = @ + 1] /\ UNCHANGED proc
      /\ toBrowser' = [toBrowser EXCEPT ![b] = <<>>]
      /\ toRenderer' = [toRenderer EXCEPT ![b] = <<>>]
  BY <1>1, BoundsAssumption DEF SwapProcess, TransportTypeOK, Epoch
<1>3. LastCancel(b) \in Seq(Request)
  <2> DEFINE c == ctx[b][MainFrame]
  <2>1. CASE PendingRequests(b, c, kReservedId) = {}
    BY <2>1 DEF LastCancel
  <2>2. CASE PendingRequests(b, c, kReservedId) # {}
    <3>1. c \in Id
      BY <2>2 DEF PendingRequests, RendererSideTypeOK, RequestInfo
    <3>2. CancelMsg(c, kReservedId) \in Request
      BY <3>1 DEF CancelMsg, Request, Id0
    <3>3. <<CancelMsg(c, kReservedId)>> \in Seq(Request)
      BY <3>2
    <3> QED BY <2>2, <3>3 DEF LastCancel
  <2> QED BY <2>1, <2>2
<1>4. s \in Seq(Request)
  BY <1>3 DEF TransportTypeOK
<1>5. PICK n \in 0 .. Len(s) : late' = [late EXCEPT ![b][epoch[b]] = SubSeq(s, 1, n)]
  BY <1>1 DEF SwapProcess
<1> HIDE DEF s
<1>6. SubSeq(s, 1, n) \in Seq(Request)
  BY <1>4
<1>7. late' \in [Browser -> [Epoch -> Seq(Request)]]
  BY <1>2, <1>5, <1>6 DEF TransportTypeOK
<1>8. \A c \in Browser : \A e \in Epoch :
         late'[c][e] # <<>> => e < epoch'[c] /\ proc'[c] # "closed"
  <2>1. ASSUME NEW c \in Browser, NEW e \in Epoch, late'[c][e] # <<>>
        PROVE  e < epoch'[c] /\ proc'[c] # "closed"
    <3>1. e \in Nat /\ epoch[c] \in Nat
      BY BoundsAssumption DEF Epoch, TransportTypeOK
    <3>2. CASE c = b /\ e = epoch[b]
      BY <1>2, <3>1, <3>2 DEF TransportTypeOK
    <3>3. CASE ~(c = b /\ e = epoch[b])
      <4>1. late'[c][e] = late[c][e]
        BY <1>2, <1>5, <3>3 DEF TransportTypeOK
      <4> QED BY <1>2, <2>1, <3>1, <4>1 DEF TransportTypeOK
    <3> QED BY <3>2, <3>3
  <2> QED BY <2>1
<1>9. TransportTypeOK'
  BY <1>1, <1>2, <1>7, BoundsAssumption DEF SwapProcess, TransportTypeOK, Epoch
<1>10. RendererSideTypeOK' /\ \A c \in Browser : requests'[c] # {} => proc'[c] = "live"
  BY <1>1, <1>2, ForgetProcessType DEF ForgetProcess, RendererSideTypeOK
<1>11. \A c \in Browser : /\ toBrowser'[c] # <<>> => proc'[c] \in {"live", "dead"}
                          /\ proc'[c] \in {"live", "dead"} => epoch'[c] # 0
  BY <1>2 DEF TransportTypeOK, Epoch
<1>12. BrowserSideTypeOK' /\ navigating' \in [Browser -> BOOLEAN] /\ UNCHANGED unreported
  BY DEF CommitElsewhere, BrowserSideTypeOK, browserSideVars
<1> QED BY <1>8, <1>9, <1>10, <1>11, <1>12

LEMMA ProcessEndType ==
  ASSUME TypeInv, NEW b \in Browser,
         Crash(b) \/ (\E normal \in BOOLEAN : RenderProcessGone(b, normal)) \/ OnBeforeClose(b)
  PROVE  TypeInv'
<1> USE DEF TypeInv, TypeOK, Started, ProcState, navigationVars
<1>1. CASE Crash(b)
  <2>1. PICK n \in 0 .. Len(toBrowser[b]) :
           toBrowser' = [toBrowser EXCEPT ![b] = SubSeq(@, 1, n)]
    BY <1>1 DEF Crash, ProcessDies
  <2>2. SubSeq(toBrowser[b], 1, n) \in Seq(Request)
    BY DEF TransportTypeOK
  <2>3. toBrowser' \in [Browser -> Seq(Request)]
    BY <2>1, <2>2 DEF TransportTypeOK
  <2>4. epoch[b] # 0
    BY <1>1 DEF Crash, ProcessDies
  <2>5. ForgetProcess(b)
    BY <1>1 DEF Crash
  <2>6. \A c \in Browser : requests'[c] # {} => proc'[c] = "live"
    BY <1>1, <2>5, ForgetProcessType
    DEF Crash, ProcessDies, ForgetProcess, TransportTypeOK, RendererSideTypeOK
  <2>7. \A c \in Browser : toBrowser'[c] # <<>> => proc'[c] \in {"live", "dead"}
    BY <1>1, <2>1 DEF Crash, ProcessDies, TransportTypeOK
  <2>8. RendererSideTypeOK'
    BY <2>5, ForgetProcessType DEF RendererSideTypeOK
  <2>9. TransportTypeOK' /\ \A c \in Browser : proc'[c] \in {"live", "dead"} => epoch'[c] # 0
    BY <1>1, <2>3, <2>4 DEF Crash, ProcessDies, TransportTypeOK
  <2>10. BrowserSideTypeOK' /\ navigating' \in [Browser -> BOOLEAN] /\ UNCHANGED unreported
    BY <1>1 DEF Crash, BrowserSideTypeOK, browserSideVars
  <2>11. \A c \in Browser : \A e \in Epoch :
            late'[c][e] # <<>> => e < epoch'[c] /\ proc'[c] # "closed"
    BY <1>1 DEF Crash, ProcessDies, TransportTypeOK
  <2> QED BY <2>6, <2>7, <2>8, <2>9, <2>10, <2>11
<1>2. ASSUME NEW normal \in BOOLEAN, RenderProcessGone(b, normal) PROVE TypeInv'
  <2>1. /\ DOMAIN queries' \subseteq QueryId
        /\ queries' \in [DOMAIN queries' -> QueryInfo]
        /\ attached' \subseteq QueryId
        /\ dropped' \subseteq Uid
    BY <1>2, CancelSilentlyType DEF RenderProcessGone, BrowserSideTypeOK
  <2>2. unreported' \in [Browser -> SUBSET Epoch]
    <3>1. epoch[b] \in Epoch
      BY <1>2, BoundsAssumption DEF RenderProcessGone, ChannelError, TransportTypeOK, Epoch
    <3> QED BY <1>2, <3>1 DEF RenderProcessGone
  <2> QED BY <1>2, <2>1, <2>2
          DEF RenderProcessGone, ChannelError, TransportTypeOK, RendererSideTypeOK,
              BrowserSideTypeOK, rendererSideVars
<1>3. CASE OnBeforeClose(b)
  <2>1. /\ DOMAIN queries' \subseteq QueryId
        /\ queries' \in [DOMAIN queries' -> QueryInfo]
        /\ attached' \subseteq QueryId
        /\ dropped' \subseteq Uid
    BY <1>3, CancelSilentlyType DEF OnBeforeClose
  <2>2. ForgetProcess(b)
    BY <1>3 DEF OnBeforeClose
  <2>3. \A c \in Browser : requests'[c] # {} => proc'[c] = "live"
    BY <1>3, <2>2, ForgetProcessType
    DEF OnBeforeClose, DestroyChannel, ForgetProcess, TransportTypeOK, RendererSideTypeOK
  <2>4. \A c \in Browser : toBrowser'[c] # <<>> => proc'[c] \in {"live", "dead"}
    BY <1>3 DEF OnBeforeClose, DestroyChannel, TransportTypeOK
  <2>5. RendererSideTypeOK'
    BY <2>2, ForgetProcessType DEF RendererSideTypeOK
  <2>6. TransportTypeOK' /\ \A c \in Browser : proc'[c] \in {"live", "dead"} => epoch'[c] # 0
    BY <1>3 DEF OnBeforeClose, DestroyChannel, TransportTypeOK
  <2>7. BrowserSideTypeOK' /\ navigating' \in [Browser -> BOOLEAN] /\ UNCHANGED unreported
    BY <1>3, <2>1 DEF OnBeforeClose, BrowserSideTypeOK
  <2>8. \A c \in Browser : \A e \in Epoch :
           late'[c][e] # <<>> => e < epoch'[c] /\ proc'[c] # "closed"
    BY <1>3 DEF OnBeforeClose, DestroyChannel, TransportTypeOK
  <2> QED BY <2>3, <2>4, <2>5, <2>6, <2>7, <2>8
<1> QED BY <1>1, <1>2, <1>3

LEMMA TypeInvInit == Init => TypeInv
BY BoundsAssumption, HandlerAssumption
DEF Init, TransportInit, BrowserSideInit, RendererSideInit, NoContexts, TypeInv, TypeOK,
    TransportTypeOK, BrowserSideTypeOK, RendererSideTypeOK, Started, ProcState, Id0

LEMMA TypeInvStep == TypeInv /\ [Next]_vars => TypeInv'
<1> SUFFICES ASSUME TypeInv, [Next]_vars PROVE TypeInv'
  OBVIOUS
<1>1. CASE HandlerStep
  BY <1>1, HandlerStepType
<1>2. CASE UiTaskStep
  BY <1>2, UiTaskStepType
<1>3. ASSUME NEW b \in Browser, BrowserStep(b) PROVE TypeInv'
  <2>1. CASE OnProcessMessageReceived(b)
    <3>1. navigating[b] \in BOOLEAN
      BY DEF TypeInv, TypeOK
    <3> QED BY <2>1, <3>1, ReceiveQueryType, ReceiveCancelType DEF OnProcessMessageReceived
  <2>2. CASE \E f \in Frame : ReleaseContext(b, f)
    BY <2>2, ReleaseContextType
  <2>3. CASE ReceiveLate(b)
    BY <2>3, ReceiveLateQueryType, ReceiveCancelType DEF ReceiveLate
  <2> QED BY <1>3, <2>1, <2>2, <2>3, JavaScriptStepType, AnswerStepType, NavigationType,
             CommitElsewhereType, LaunchType, ProcessEndType DEF BrowserStep
<1>4. CASE UNCHANGED vars
  BY <1>4 DEF vars, transportVars, browserSideVars, rendererSideVars, navigationVars, TypeInv, TypeOK,
     TransportTypeOK, BrowserSideTypeOK, RendererSideTypeOK, Started
<1> QED BY <1>1, <1>2, <1>3, <1>4 DEF Next

(* Every variable of the router keeps its type: every message in flight,   *)
(* queued or answered names ids that a generator handed out, every pending *)
(* query a handler, a browser and a process that were started.             *)
THEOREM TypeCorrect == Spec => []TypeOK
<1>1. TypeInv => TypeOK
  BY DEF TypeInv
<1> QED BY <1>1, TypeInvInit, TypeInvStep, PTL DEF Spec

-----------------------------------------------------------------------------
(* What happens to the map of pending queries in a step, whatever the      *)
(* step: it loses some, and ReceiveQuery may add one.                      *)
Kept(q) == q \in DOMAIN queries' => q \in DOMAIN queries /\ queries'[q] = queries[q]

LEMMA CancelQueriesKept ==
  ASSUME NEW Q, CancelQueries(Q)
  PROVE  \A q : Kept(q) /\ (q \in Q => q \notin DOMAIN queries')
BY DEF CancelQueries, Without, Kept

LEMMA CancelSilentlyKept ==
  ASSUME NEW B, CancelSilently(B), BrowserSideTypeOK
  PROVE  /\ \A q : Kept(q)
         /\ \A q \in DOMAIN queries : queries[q].browser \in B => q \notin DOMAIN queries'
<1>1. CancelQueries(Matching(B, Handler))
  BY DEF CancelSilently
<1> QED BY <1>1, CancelQueriesKept DEF Matching, BrowserSideTypeOK, QueryInfo

LEMMA CancelPendingForKept ==
  ASSUME NEW B, NEW H, CancelPendingFor(B, H), BrowserSideTypeOK
  PROVE  /\ \A q : Kept(q)
         /\ \A q \in DOMAIN queries :
               queries[q].browser \in B /\ queries[q].handler \in H => q \notin DOMAIN queries'
<1>1. CancelQueries(Matching(B, H))
  BY DEF CancelPendingFor
<1> QED BY <1>1, CancelQueriesKept DEF Matching

LEMMA HandlerStepKept ==
  ASSUME TypeInv, HandlerStep
  PROVE  \A q : Kept(q)
<1> USE DEF TypeInv, TypeOK
<1>1. CASE \E h \in Handler : AddHandler(h) \/ RemoveHandler(h)
  BY <1>1, CancelPendingForKept DEF AddHandler, RemoveHandler, Kept
<1>2. CASE \E B, H : CancelPending(B, H) \/ CancelPendingOffUI(B, H)
  BY <1>2, CancelPendingForKept DEF CancelPending, CancelPendingOffUI, Kept
<1>3. CASE \E q \in DOMAIN queries :
             Succeed(q) \/ Fail(q) \/ \E op \in {"Success", "Failure"} : AnswerOffUI(q, op)
  BY <1>3 DEF Succeed, Fail, AnswerOffUI, CallbackUnchanged, Kept
<1> QED BY <1>1, <1>2, <1>3 DEF HandlerStep

LEMMA UiTaskStepKept ==
  ASSUME TypeInv, UiTaskStep
  PROVE  \A q : Kept(q)
<1> USE DEF TypeInv, TypeOK
<1>1. CASE RunSuccess \/ RunFailure
  BY <1>1 DEF RunSuccess, RunFailure, CallbackUnchanged, Kept
<1>2. CASE RunCancelPending
  BY <1>2, CancelPendingForKept DEF RunCancelPending
<1>3. CASE OnCallbackSuccess \/ OnCallbackFailure
  BY <1>3 DEF OnCallbackSuccess, OnCallbackFailure, Deliver, Without, Kept
<1> QED BY <1>1, <1>2, <1>3 DEF UiTaskStep

(* A query a message adds is of the process that sent it.                  *)
LEMMA TakeQueryAdds ==
  ASSUME NEW b, NEW e, NEW m, NEW unguarded, NEW taker, NEW removed,
         TakeQuery(b, e, m, unguarded, taker, removed)
  PROVE  \A q : Kept(q) \/ /\ queries'[q].browser = b
                           /\ queries'[q].epoch = e
                           /\ queries'[q].handler = taker
                           /\ unguarded => queries'[q].unguarded
                           /\ taker \in handlers
<1>1. CASE taker \in handlers
  BY <1>1 DEF TakeQuery, Kept
<1>2. CASE taker \notin handlers
  <2>1. CancelQueries(Matching(Browser, removed))
    BY <1>2 DEF TakeQuery
  <2> QED BY <2>1, CancelQueriesKept
<1> QED BY <1>1, <1>2

(* The renderer's own steps leave the map alone.                           *)
LEMMA RendererStepKept ==
  ASSUME NEW b \in Browser,
         \/ JavaScriptStep(b) \/ ReceiveAnswerStep(b) \/ ExecuteStep(b)
         \/ (\E f \in Frame : ReleaseContext(b, f))
         \/ StopLoad(b) \/ CommitElsewhere(b) \/ LaunchRenderer(b) \/ RenderViewReady(b)
         \/ Crash(b)
  PROVE  UNCHANGED <<handlers, queries>>
BY DEF JavaScriptStep, ReceiveAnswerStep, ExecuteStep, ReleaseContext, StopLoad,
       CommitElsewhere, LaunchRenderer, RenderViewReady, Crash, browserSideVars

(* So only a query message adds a query.                                   *)
AddsLate(b, e, taker, removed) ==
  ReceiveLateQuery(b, e, taker, removed) /\ UNCHANGED <<rendererSideVars, navigationVars>>
Adds(b, taker, removed) ==
  /\ ReceiveQuery(b, navigating[b], taker, removed)
  /\ UNCHANGED <<rendererSideVars, navigationVars>>

LEMMA AddedByReceiveQuery ==
  ASSUME TypeInv, [Next]_vars, NEW q, ~Kept(q)
  PROVE  \E b \in Browser : \E taker, removed :
            Adds(b, taker, removed) \/ \E e \in Epoch : AddsLate(b, e, taker, removed)
<1>1. UNCHANGED queries => Kept(q)
  BY DEF Kept
<1>2. ASSUME NEW b \in Browser, CancelSilently({b}) PROVE FALSE
  BY <1>2, CancelSilentlyKept DEF TypeInv, TypeOK
<1>3. ASSUME NEW b \in Browser,
             \/ OnBeforeBrowse(b) \/ OnBeforeClose(b)
             \/ \E normal \in BOOLEAN : RenderProcessGone(b, normal)
      PROVE  FALSE
  BY <1>1, <1>2, <1>3 DEF OnBeforeBrowse, OnBeforeClose, RenderProcessGone
<1>4. ASSUME NEW b \in Browser, ReceiveCancel(b) \/ \E e \in Epoch : ReceiveLateCancel(b, e)
      PROVE FALSE
  BY <1>4, CancelQueriesKept DEF ReceiveCancel, ReceiveLateCancel, CancelPendingRequest
<1>5. CASE UNCHANGED vars
  BY <1>1, <1>5 DEF vars, browserSideVars
<1> QED BY <1>1, <1>3, <1>4, <1>5, HandlerStepKept, UiTaskStepKept, RendererStepKept
        DEF Next, BrowserStep, OnProcessMessageReceived, ReceiveLate, Adds, AddsLate

-----------------------------------------------------------------------------
(* The processes, their numbers and the navigations change only where a    *)
(* query could be left behind if nobody canceled it.                       *)
LEMMA ProcessKept ==
  ASSUME TypeInv, [Next]_vars, NEW b \in Browser, proc[b] # "closed"
  PROVE  \/ /\ proc'[b] # "closed"
            /\ proc[b] \in {"live", "dead"} =>
                  proc'[b] \in {"live", "dead"} /\ epoch'[b] = epoch[b]
            /\ navigating'[b] => navigating[b]
            /\ unreported'[b] = unreported[b]
         \/ OnBeforeBrowse(b) \/ CommitElsewhere(b) \/ OnBeforeClose(b)
         \/ \E normal \in BOOLEAN : RenderProcessGone(b, normal)
<1> USE DEF TypeInv, TypeOK, TransportTypeOK, navigationVars
<1>1. CASE HandlerStep
  BY <1>1 DEF HandlerStep, AddHandler, RemoveHandler, CancelPending, CancelPendingOffUI,
     Succeed, Fail, AnswerOffUI, CallbackUnchanged, transportVars
<1>2. CASE UiTaskStep
  BY <1>2 DEF UiTaskStep, RunSuccess, RunFailure, RunCancelPending, OnCallbackSuccess,
     OnCallbackFailure, CallbackUnchanged, DeliverUnchanged, transportVars
<1>3. ASSUME NEW c \in Browser,
             \/ OnProcessMessageReceived(c) \/ ReceiveLate(c) \/ JavaScriptStep(c)
             \/ ReceiveAnswerStep(c) \/ ExecuteStep(c)
      PROVE  UNCHANGED <<proc, epoch, navigating, unreported>>
  BY <1>3
  DEF OnProcessMessageReceived, ReceiveQuery, TakeQuery, ReceiveCancel, CancelPendingRequest,
      ReceiveLate, ReceiveLateQuery, ReceiveLateCancel, JavaScriptStep, CefQuery,
      CefQueryCancel, CancelUnchanged, ReceiveAnswerStep, ReceiveAnswer, ExecuteStep,
      ExecuteSuccessCallback, ExecuteFailureCallback, transportVars
<1>4. ASSUME NEW c \in Browser,
             (\E f \in Frame : ReleaseContext(c, f)) \/ StopLoad(c)
      PROVE  /\ UNCHANGED <<proc, epoch, unreported>>
             /\ navigating'[b] => navigating[b]
  BY <1>4 DEF ReleaseContext, OnContextReleased, CancelUnchanged, StopLoad, transportVars
<1>5. ASSUME NEW c \in Browser, LaunchRenderer(c) \/ RenderViewReady(c) \/ Crash(c)
      PROVE  /\ proc'[b] # "closed"
             /\ proc[b] \in {"live", "dead"} =>
                   proc'[b] \in {"live", "dead"} /\ epoch'[b] = epoch[b]
             /\ navigating'[b] => navigating[b]
             /\ unreported'[b] = unreported[b]
  BY <1>5 DEF LaunchRenderer, LaunchProcess, RenderViewReady, FlushQueue, Crash, ProcessDies
<1>6. ASSUME NEW c \in Browser, c # b,
             \/ OnBeforeBrowse(c) \/ CommitElsewhere(c) \/ OnBeforeClose(c)
             \/ \E normal \in BOOLEAN : RenderProcessGone(c, normal)
      PROVE  /\ proc'[b] = proc[b] /\ epoch'[b] = epoch[b]
             /\ navigating'[b] = navigating[b] /\ unreported'[b] = unreported[b]
  BY <1>6 DEF RenderProcessGone, ChannelError, OnBeforeClose, DestroyChannel, OnBeforeBrowse,
     CommitElsewhere, SwapProcess, transportVars
<1>7. CASE UNCHANGED vars
  BY <1>7 DEF vars, transportVars
<1> QED BY <1>1, <1>2, <1>3, <1>4, <1>5, <1>6, <1>7 DEF Next, BrowserStep

(* Inductive: while the main frame navigates, a query of the page that is  *)
(* about to be left is there only because it came after OnBeforeBrowse.    *)
Ending(q) ==
  LET b == queries[q].browser
  IN  /\ proc[b] # "closed"
      /\ \/ /\ proc[b] \in {"live", "dead"} /\ queries[q].epoch = epoch[b]
            /\ navigating[b] => queries[q].unguarded
         \/ queries[q].unguarded
         \/ queries[q].epoch \in unreported[b]

EndingInv == \A q \in DOMAIN queries : Ending(q)

LEMMA EndingStep ==
  ASSUME TypeInv, EndingInv, [Next]_vars
  PROVE  EndingInv'
<1> SUFFICES ASSUME NEW q \in DOMAIN queries' PROVE Ending(q)'
  BY DEF EndingInv
<1> DEFINE b == queries'[q].browser
<1>1. b \in Browser
  BY TypeInvStep DEF TypeInv, TypeOK, BrowserSideTypeOK, QueryInfo
<1>2. CASE Kept(q)
  <2>1. /\ q \in DOMAIN queries /\ queries'[q] = queries[q] /\ b = queries[q].browser
        /\ Ending(q)
    BY <1>2 DEF Kept, EndingInv
  <2>2. proc[b] # "closed"
    BY <2>1 DEF Ending
  <2>3. ASSUME CancelSilently({b}) PROVE FALSE
    BY <2>1, <2>3, CancelSilentlyKept DEF TypeInv, TypeOK
  <2>4. ~OnBeforeClose(b) /\ ~OnBeforeBrowse(b) /\ ~RenderProcessGone(b, FALSE)
    BY <2>3 DEF OnBeforeClose, OnBeforeBrowse, RenderProcessGone
  <2>5. CASE RenderProcessGone(b, TRUE)
    <3>1. /\ unreported'[b] = unreported[b] \cup {epoch[b]} /\ proc'[b] = "absent"
      BY <1>1, <2>5
      DEF RenderProcessGone, ChannelError, TypeInv, TypeOK, TransportTypeOK
    <3> QED BY <2>1, <3>1 DEF Ending
  <2>6. CASE CommitElsewhere(b)
    <3>1. navigating[b] /\ UNCHANGED <<unreported, proc>>
      BY <2>6 DEF CommitElsewhere, SwapProcess
    <3> QED BY <2>1, <3>1 DEF Ending
  <2>7. CASE /\ proc'[b] # "closed"
             /\ proc[b] \in {"live", "dead"} =>
                   proc'[b] \in {"live", "dead"} /\ epoch'[b] = epoch[b]
             /\ navigating'[b] => navigating[b]
             /\ unreported'[b] = unreported[b]
    BY <2>1, <2>7 DEF Ending
  <2> QED BY <1>1, <2>2, <2>4, <2>5, <2>6, <2>7, ProcessKept
<1>3. CASE ~Kept(q)
  <2>0. PICK c \in Browser : \E taker, removed :
           Adds(c, taker, removed) \/ \E e \in Epoch : AddsLate(c, e, taker, removed)
    BY <1>3, AddedByReceiveQuery
  <2>1. PICK taker, removed :
           Adds(c, taker, removed) \/ \E e \in Epoch : AddsLate(c, e, taker, removed)
    BY <2>0
  <2>2. CASE Adds(c, taker, removed)
    <3>1. TakeQuery(c, epoch[c], Head(toBrowser[c]), navigating[c], taker, removed)
      BY <2>2 DEF Adds, ReceiveQuery
    <3>2. b = c /\ queries'[q].epoch = epoch[c] /\ (navigating[c] => queries'[q].unguarded)
      BY <1>3, <3>1, TakeQueryAdds
    <3>3. proc[c] \in {"live", "dead"} /\ UNCHANGED <<proc, epoch, navigating>>
      BY <2>2, ArrivedType DEF Adds, ReceiveQuery, TakeQuery, navigationVars
    <3> QED BY <3>2, <3>3 DEF Ending
  <2>3. ASSUME NEW e \in Epoch, AddsLate(c, e, taker, removed) PROVE Ending(q)'
    <3>1. TakeQuery(c, e, Head(late[c][e]), TRUE, taker, removed)
      BY <2>3 DEF AddsLate, ReceiveLateQuery
    <3>3. b = c /\ queries'[q].unguarded
      BY <1>3, <3>1, TakeQueryAdds
    <3>4. proc[c] # "closed" /\ UNCHANGED proc
      BY <2>3, <3>1, LateArrivedType DEF AddsLate, ReceiveLateQuery, TakeQuery
    <3> QED BY <3>3, <3>4 DEF Ending
  <2> QED BY <2>1, <2>2, <2>3
<1> QED BY <1>2, <1>3

(* A query outlives its page only if it came too late for the call of      *)
(* OnBeforeBrowse, and its process only if its end was not reported; none  *)
(* outlives its browser.                                                   *)
THEOREM QueriesEnd == Spec => []QueriesEndWithProcess
<1> DEFINE IInv == TypeInv /\ EndingInv
<1>1. Init => IInv
  BY TypeInvInit DEF Init, BrowserSideInit, EndingInv
<1>2. IInv /\ [Next]_vars => IInv'
  BY TypeInvStep, EndingStep
<1>3. IInv => QueriesEndWithProcess
  BY DEF EndingInv, Ending, QueriesEndWithProcess
<1> HIDE DEF IInv
<1> QED BY <1>1, <1>2, <1>3, PTL DEF Spec

-----------------------------------------------------------------------------
(* Every pending query has a registered handler.                           *)
Registered == \A q \in DOMAIN queries : queries[q].handler \in handlers

LEMMA RegisteredIsIdle ==
  ASSUME TypeInv, Registered
  PROVE  RemovedHandlerIsIdle
<1> SUFFICES ASSUME NEW h \in Handler \ handlers PROVE GetPendingCount(Browser, {h}) = 0
  BY DEF RemovedHandlerIsIdle
<1>1. Matching(Browser, {h}) = {}
  BY DEF Matching, Registered
<1> QED BY <1>1, FS_EmptySet DEF GetPendingCount

(* Handlers are unregistered by RemoveHandler and, where they may, from    *)
(* inside OnQuery.                                                         *)
LEMMA HandlersKept ==
  ASSUME TypeInv, [Next]_vars, ~ReentrantRemoval
  PROVE  handlers \subseteq handlers' \/ \E h \in Handler : RemoveHandler(h)
<1>1. CASE HandlerStep
  BY <1>1 DEF HandlerStep, AddHandler, CancelPending, CancelPendingOffUI,
     Succeed, Fail, AnswerOffUI, CallbackUnchanged
<1>2. CASE UiTaskStep
  BY <1>2 DEF UiTaskStep, RunSuccess, RunFailure, RunCancelPending, OnCallbackSuccess,
     OnCallbackFailure, CallbackUnchanged, DeliverUnchanged
<1>3. ASSUME NEW b \in Browser, OnProcessMessageReceived(b) \/ ReceiveLate(b)
      PROVE  handlers' = handlers
  BY <1>3 DEF OnProcessMessageReceived, ReceiveLate, ReceiveQuery, ReceiveLateQuery, TakeQuery,
     ReceiveCancel, ReceiveLateCancel, CancelPendingRequest
<1>4. ASSUME NEW b \in Browser,
             \/ OnBeforeBrowse(b) \/ OnBeforeClose(b)
             \/ \E normal \in BOOLEAN : RenderProcessGone(b, normal)
      PROVE  handlers' = handlers
  BY <1>4 DEF OnBeforeBrowse, OnBeforeClose, RenderProcessGone
<1>5. CASE UNCHANGED vars
  BY <1>5 DEF vars, browserSideVars
<1> QED BY <1>1, <1>2, <1>3, <1>4, <1>5, RendererStepKept DEF Next, BrowserStep

LEMMA RegisteredStep ==
  ASSUME TypeInv, Registered, [Next]_vars, ~ReentrantRemoval
  PROVE  Registered'
<1> SUFFICES ASSUME NEW q \in DOMAIN queries' PROVE queries'[q].handler \in handlers'
  BY DEF Registered
<1>1. CASE Kept(q)
  <2>1. q \in DOMAIN queries /\ queries'[q] = queries[q] /\ queries[q].handler \in handlers
    BY <1>1 DEF Kept, Registered
  <2>2. ASSUME NEW h \in Handler, RemoveHandler(h) PROVE queries[q].handler \in handlers'
    <3>1. handlers' = handlers \ {h} /\ CancelPendingFor(Browser, {h})
      BY <2>2 DEF RemoveHandler
    <3>2. queries[q].browser \in Browser
      BY <2>1 DEF TypeInv, TypeOK, BrowserSideTypeOK, QueryInfo
    <3>3. queries[q].handler # h
      BY <2>1, <3>1, <3>2, CancelPendingForKept DEF TypeInv, TypeOK
    <3> QED BY <2>1, <3>1, <3>3
  <2> QED BY <2>1, <2>2, HandlersKept
<1>2. CASE ~Kept(q)
  <2>0. PICK b \in Browser : \E taker, removed :
           Adds(b, taker, removed) \/ \E e \in Epoch : AddsLate(b, e, taker, removed)
    BY <1>2, AddedByReceiveQuery
  <2>1. PICK taker, removed :
           Adds(b, taker, removed) \/ \E e \in Epoch : AddsLate(b, e, taker, removed)
    BY <2>0
  <2>2. PICK e, m, unguarded : TakeQuery(b, e, m, unguarded, taker, removed)
    BY <2>1 DEF Adds, AddsLate, ReceiveQuery, ReceiveLateQuery
  <2>3. queries'[q].handler = taker /\ taker \in handlers
    BY <1>2, <2>2, TakeQueryAdds
  <2>4. handlers' = handlers
    BY <2>2 DEF TakeQuery
  <2> QED BY <2>3, <2>4
<1> QED BY <1>1, <1>2

(* Where OnQuery does not call RemoveHandler, nothing is pending for a     *)
(* handler that was removed: the application may delete it.                *)
THEOREM RemovedIsIdle == ~ReentrantRemoval => (Spec => []RemovedHandlerIsIdle)
<1> SUFFICES ASSUME ~ReentrantRemoval PROVE Spec => []RemovedHandlerIsIdle
  OBVIOUS
<1> DEFINE IInv == TypeInv /\ Registered
<1>1. Init => IInv
  BY TypeInvInit DEF Init, BrowserSideInit, Registered
<1>2. IInv /\ [Next]_vars => IInv'
  BY TypeInvStep, RegisteredStep
<1>3. IInv => RemovedHandlerIsIdle
  BY RegisteredIsIdle
<1> HIDE DEF IInv
<1> QED BY <1>1, <1>2, <1>3, PTL DEF Spec


-----------------------------------------------------------------------------
(* The two sides of the router, browser by browser: what is on its way     *)
(* between them, pending at one side and awaited at the other.             *)
Elements(s) == {s[n] : n \in 1 .. Len(s)}

(* Only what is of the process that b has now matters to it: |Own|.        *)
PendingOf(b) ==
  {q \in DOMAIN queries : queries[q].browser = b /\ queries[q].epoch = epoch[b]}
QueryMsgs(b) == {m \in Elements(toBrowser[b]) : m.kind = "query"}
CancelMsgs(b) == {m \in Elements(toBrowser[b]) : m.kind = "cancel"}
Own(b, s) == {a \in Elements(s) : a.epoch = epoch[b]}
Answers(b) == Own(b, toRenderer[b]) \cup Own(b, jsTasks[b])

(* An answer with the ids of a message, a query or a request, and one that *)
(* ends it.                                                                *)
AnswerTo(a, x) == a.req = x.req /\ a.ctx = x.ctx
ForGood(a, x) == AnswerTo(a, x) /\ (~a.success \/ ~x.persistent)

(* The generators never hand out an id twice.                              *)
IdsKnown(b) ==
  /\ \A f \in Frame : ctx[b][f] <= lastCtx[b]
  /\ \A f, g \in Frame : ctx[b][f] = ctx[b][g] /\ ctx[b][f] # kReservedId => f = g
  /\ \A i \in requests[b] : i.req <= lastReq[b] /\ i.ctx <= lastCtx[b]
  /\ \A i \in requests[b] : \E f \in Frame : ctx[b][f] = i.ctx
  /\ \A m \in Elements(toBrowser[b]) : m.req <= lastReq[b] /\ m.ctx <= lastCtx[b]
  /\ \A q \in PendingOf(b) : queries[q].req <= lastReq[b]
  /\ \A a \in Answers(b) : a.req <= lastReq[b]

(* A request has one message, and then one pending query.                  *)
AskedOnce(b) ==
  /\ \A n, k \in 1 .. Len(toBrowser[b]) :
        /\ toBrowser[b][n].kind = "query" /\ toBrowser[b][k].kind = "query"
        /\ toBrowser[b][n].req = toBrowser[b][k].req
        => n = k
  /\ \A q, p \in PendingOf(b) : queries[q].req = queries[p].req => q = p
  /\ \A q \in PendingOf(b) : \A m \in QueryMsgs(b) : queries[q].req # m.req

(* Both sides have the same idea of a request.                             *)
SameAs(x, i) == x.req = i.req => x.ctx = i.ctx /\ x.persistent = i.persistent
BothAgree(b) ==
  \A i \in requests[b] :
     /\ \A m \in QueryMsgs(b) : SameAs(m, i)
     /\ \A q \in PendingOf(b) : SameAs(queries[q], i)

(* Nobody waits for what is being canceled.                                *)
CancelsMeant(b) ==
  \A m \in CancelMsgs(b) :
     /\ \A i \in requests[b] : ~(i.ctx = m.ctx /\ m.req \in {kReservedId, i.req})
     /\ m.req = kReservedId => \A f \in Frame : ctx[b][f] # m.ctx

(* What was answered is not pending, unless it is persistent.              *)
AnswersMeant(b) ==
  \A a \in Answers(b) :
     /\ \A m \in QueryMsgs(b) : m.req # a.req
     /\ \A q \in PendingOf(b) : queries[q].req = a.req => a.success /\ queries[q].persistent

(* NoOrphanQuery and NoOrphanRequest, of a browser whose process lives.    *)
Misled(b, r) == UidOf(b, r) \in misled
Excused(b, r) == UidOf(b, r) \in misled \cup unheard

QueriesAwaited(b) ==
  /\ \A q \in PendingOf(b) :
        \/ Waiting(b, queries[q].ctx, queries[q].req)
        \/ CancelBehind(b, queries[q].ctx, queries[q].req, 0)
        \/ Excused(b, queries[q].req)
  /\ \A n \in 1 .. Len(toBrowser[b]) :
        LET m == toBrowser[b][n]
        IN  m.kind = "query" =>
              \/ Waiting(b, m.ctx, m.req)
              \/ CancelBehind(b, m.ctx, m.req, n)
              \/ Misled(b, m.req)

RequestsKept(b) ==
  \A i \in requests[b] :
     \/ \E m \in QueryMsgs(b) : m.req = i.req
     \/ \E q \in PendingOf(b) : queries[q].req = i.req
     \/ \E a \in Answers(b) : ForGood(a, i)
     \/ UidOf(b, i.req) \in dropped

Linked(b) ==
  /\ IdsKnown(b) /\ AskedOnce(b) /\ BothAgree(b) /\ CancelsMeant(b) /\ AnswersMeant(b)
  /\ QueriesAwaited(b) /\ RequestsKept(b)

(* Before its view is ready nothing is pending or queued for a process.    *)
NothingQueued ==
  \A b \in Browser :
     proc[b] = "live" /\ queueing[b] => PendingOf(b) = {} /\ Own(b, queued[b]) = {}

(* No message or query is of a process yet to come.                        *)
QueriesPast == \A q \in DOMAIN queries : queries[q].epoch <= epoch[queries[q].browser]
QueuedPast(b) ==
  \A a \in Elements(queued[b]) : a.epoch < epoch[b] \/ a.epoch = epoch[b]
EpochsPast == QueriesPast /\ \A b \in Browser : QueuedPast(b)

IdsAscend == \A q \in DOMAIN queries : q < nextQueryId

-----------------------------------------------------------------------------
(* The elements of a sequence.                                             *)
LEMMA ElementsOfConcat ==
  ASSUME NEW S, NEW s \in Seq(S), NEW t \in Seq(S)
  PROVE  Elements(s \o t) = Elements(s) \cup Elements(t)
<1> DEFINE u == s \o t
<1>1. /\ Len(s) \in Nat /\ Len(t) \in Nat /\ Len(u) = Len(s) + Len(t)
      /\ \A n \in 1 .. Len(s) : u[n] = s[n]
      /\ \A n \in 1 .. Len(t) : u[Len(s) + n] = t[n]
  BY LenProperties, ConcatProperties
<1>2. ASSUME NEW n \in 1 .. Len(u) PROVE u[n] \in Elements(s) \cup Elements(t)
  <2>1. CASE n <= Len(s)
    BY <1>1, <2>1 DEF Elements
  <2>2. CASE ~(n <= Len(s))
    <3>1. n - Len(s) \in 1 .. Len(t) /\ n = Len(s) + (n - Len(s))
      BY <1>1, <2>2
    <3>2. u[n] = t[n - Len(s)]
      BY <1>1, <3>1
    <3> QED BY <3>1, <3>2 DEF Elements
  <2> QED BY <2>1, <2>2
<1>3. \A n \in 1 .. Len(s) : s[n] \in Elements(u)
  <2>1. ASSUME NEW n \in 1 .. Len(s) PROVE n \in 1 .. Len(u) /\ u[n] = s[n]
    BY <1>1
  <2> QED BY <2>1 DEF Elements
<1>4. \A n \in 1 .. Len(t) : t[n] \in Elements(u)
  <2>1. ASSUME NEW n \in 1 .. Len(t) PROVE Len(s) + n \in 1 .. Len(u) /\ u[Len(s) + n] = t[n]
    BY <1>1
  <2> QED BY <2>1 DEF Elements
<1>5. Elements(u) = Elements(s) \cup Elements(t)
  <2> HIDE DEF u
  <2>1. Elements(u) \subseteq Elements(s) \cup Elements(t)
    <3>1. Elements(u) = {u[n] : n \in 1 .. Len(u)}
      BY DEF Elements
    <3> QED BY <1>2, <3>1
  <2>2. Elements(s) \subseteq Elements(u)
    <3>1. Elements(s) = {s[n] : n \in 1 .. Len(s)}
      BY DEF Elements
    <3> QED BY <1>3, <3>1
  <2>3. Elements(t) \subseteq Elements(u)
    <3>1. Elements(t) = {t[n] : n \in 1 .. Len(t)}
      BY DEF Elements
    <3> QED BY <1>4, <3>1
  <2> QED BY <2>1, <2>2, <2>3
<1> QED BY <1>5

LEMMA ElementsOfTail ==
  ASSUME NEW S, NEW s \in Seq(S), s # <<>>
  PROVE  Elements(s) = {Head(s)} \cup Elements(Tail(s))
<1>1. /\ Len(s) \in Nat \ {0} /\ Len(Tail(s)) = Len(s) - 1 /\ Head(s) = s[1]
      /\ \A n \in 1 .. Len(Tail(s)) : Tail(s)[n] = s[n + 1]
  BY EmptySeq, HeadTailProperties, LenProperties
<1>2. ASSUME NEW n \in 1 .. Len(s) PROVE s[n] \in {Head(s)} \cup Elements(Tail(s))
  <2>1. CASE n = 1
    BY <1>1, <2>1
  <2>2. CASE n # 1
    <3>1. n - 1 \in 1 .. Len(Tail(s)) /\ Tail(s)[n - 1] = s[n]
      BY <1>1, <2>2
    <3> QED BY <3>1 DEF Elements
  <2> QED BY <2>1, <2>2
<1>3. Head(s) \in Elements(s)
  BY <1>1 DEF Elements
<1>4. ASSUME NEW n \in 1 .. Len(Tail(s)) PROVE Tail(s)[n] \in Elements(s)
  <2>1. n + 1 \in 1 .. Len(s) /\ Tail(s)[n] = s[n + 1]
    BY <1>1
  <2> QED BY <2>1 DEF Elements
<1> QED BY <1>2, <1>3, <1>4 DEF Elements

LEMMA ElementsType ==
  ASSUME NEW S, NEW s \in Seq(S)
  PROVE  Elements(s) \subseteq S
BY ElementOfSeq DEF Elements

LEMMA ElementsOfOne ==
  ASSUME NEW x
  PROVE  Elements(<<x>>) = {x} /\ Elements(<<>>) = {}
BY DEF Elements

-----------------------------------------------------------------------------
(* What the handler side may do to the pending queries of a browser: one   *)
(* that leaves the map is answered for good, or dropped, and an answer is  *)
(* for good unless its query is persistent.                                *)
LeavesAnswered(b, New) ==
  /\ proc'[b] = proc[b] /\ epoch'[b] = epoch[b]
  /\ UNCHANGED <<ctx[b], lastCtx[b], lastReq[b], requests[b], jsTasks[b]>>
  /\ dropped \subseteq dropped' /\ misled \subseteq misled' /\ unheard \subseteq unheard'
  /\ Own(b, toRenderer[b])' = Own(b, toRenderer[b]) \cup New
  /\ \A q \in PendingOf(b) :
        q \notin PendingOf(b)' =>
           UidOf(b, queries[q].req) \in dropped' \/ \E a \in New : ForGood(a, queries[q])

AnswersOneOf(b, a) ==
  \E q \in PendingOf(b) :
     /\ AnswerTo(a, queries[q])
     /\ q \notin PendingOf(b)' \/ (a.success /\ queries[q].persistent)

Settles(b) ==
  /\ toBrowser'[b] = toBrowser[b]
  /\ \A q \in PendingOf(b)' : q \in PendingOf(b) /\ queries'[q] = queries[q]
  /\ \E New : /\ LeavesAnswered(b, New)
              /\ \A a \in New : AnswersOneOf(b, a)

LEMMA SettlesLinked ==
  ASSUME NEW b \in Browser, Settles(b), Linked(b)
  PROVE  Linked(b)'
<1>1. /\ \A q \in PendingOf(b)' : q \in PendingOf(b) /\ queries'[q] = queries[q]
      /\ toBrowser'[b] = toBrowser[b]
      /\ QueryMsgs(b)' = QueryMsgs(b) /\ CancelMsgs(b)' = CancelMsgs(b)
  BY DEF Settles, QueryMsgs, CancelMsgs
<1>2. PICK New : LeavesAnswered(b, New) /\ \A a \in New : AnswersOneOf(b, a)
  BY DEF Settles
<1>3. /\ ctx'[b] = ctx[b] /\ lastCtx'[b] = lastCtx[b] /\ lastReq'[b] = lastReq[b]
      /\ requests'[b] = requests[b] /\ epoch'[b] = epoch[b]
      /\ dropped \subseteq dropped'
      /\ Answers(b)' = Answers(b) \cup New
      /\ \A r : /\ Misled(b, r) => Misled(b, r)'
                /\ Excused(b, r) => Excused(b, r)'
                /\ Misled(b, r) => Excused(b, r)
  <2>1. Own(b, jsTasks[b])' = Own(b, jsTasks[b])
    BY <1>2 DEF LeavesAnswered, Own, Elements
  <2> QED BY <1>2, <2>1 DEF LeavesAnswered, Answers, Misled, Excused, UidOf
<1>4. \A a \in New : \E q \in PendingOf(b) :
         /\ AnswerTo(a, queries[q])
         /\ q \notin PendingOf(b)' \/ (a.success /\ queries[q].persistent)
  BY <1>2 DEF AnswersOneOf
<1>5. \A q \in PendingOf(b) : q \notin PendingOf(b)' =>
         UidOf(b, queries[q].req) \in dropped' \/ \E a \in New : ForGood(a, queries[q])
  BY <1>2 DEF LeavesAnswered
<1>6. IdsKnown(b)'
  BY <1>1, <1>3, <1>4 DEF Linked, IdsKnown, AnswerTo
<1>7. AskedOnce(b)'
  BY <1>1 DEF Linked, AskedOnce
<1>8. BothAgree(b)'
  BY <1>1, <1>3 DEF Linked, BothAgree
<1>9. CancelsMeant(b)'
  BY <1>1, <1>3 DEF Linked, CancelsMeant
<1>10. AnswersMeant(b)'
  <2> SUFFICES ASSUME NEW a \in Answers(b)'
               PROVE  /\ \A m \in QueryMsgs(b)' : m.req # a.req
                      /\ \A q \in PendingOf(b)' :
                            queries'[q].req = a.req => a.success /\ queries'[q].persistent
    BY DEF AnswersMeant
  <2>1. CASE a \in Answers(b)
    BY <1>1, <2>1 DEF Linked, AnswersMeant
  <2>2. CASE a \in New
    BY <1>1, <1>4, <2>2 DEF Linked, AskedOnce, AnswerTo
  <2> QED BY <1>3, <2>1, <2>2
<1>11. QueriesAwaited(b)'
  <2>1. /\ \A c, r : Waiting(b, c, r)' <=> Waiting(b, c, r)
        /\ \A c, r, n : CancelBehind(b, c, r, n)' <=> CancelBehind(b, c, r, n)
    BY <1>1, <1>3 DEF Waiting, CancelBehind
  <2> QED BY <1>1, <1>3, <2>1 DEF Linked, QueriesAwaited
<1>12. RequestsKept(b)'
  <2> SUFFICES ASSUME NEW i \in requests[b]
               PROVE  \/ \E m \in QueryMsgs(b)' : m.req = i.req
                      \/ \E q \in PendingOf(b)' : queries'[q].req = i.req
                      \/ \E a \in Answers(b)' : ForGood(a, i)
                      \/ UidOf(b, i.req)' \in dropped'
    BY <1>3 DEF RequestsKept
  <2>0. UidOf(b, i.req)' = UidOf(b, i.req)
    BY <1>3 DEF UidOf
  <2>1. CASE \E q \in PendingOf(b) : queries[q].req = i.req
    <3>1. PICK q \in PendingOf(b) : queries[q].req = i.req
      BY <2>1
    <3>2. queries[q].ctx = i.ctx /\ queries[q].persistent = i.persistent
      BY <3>1 DEF Linked, BothAgree, SameAs
    <3>3. CASE q \in PendingOf(b)'
      BY <1>1, <3>1, <3>3
    <3>4. CASE \E a \in New : ForGood(a, queries[q])
      BY <1>3, <3>1, <3>2, <3>4 DEF ForGood, AnswerTo
    <3> QED BY <1>5, <2>0, <3>1, <3>3, <3>4
  <2>2. CASE ~\E q \in PendingOf(b) : queries[q].req = i.req
    BY <1>1, <1>3, <2>0, <2>2 DEF Linked, RequestsKept
  <2> QED BY <2>1, <2>2
<1> QED BY <1>6, <1>7, <1>8, <1>9, <1>10, <1>11, <1>12 DEF Linked

(* The head of the stream to the browser is handled.                       *)
LEMMA BehindTheHead ==
  ASSUME NEW b \in Browser, toBrowser[b] \in Seq(Request), toBrowser[b] # <<>>,
         toBrowser'[b] = Tail(toBrowser[b]), NEW c, NEW r
  PROVE  /\ \A n \in Nat : CancelBehind(b, c, r, n + 1) => CancelBehind(b, c, r, n)'
         /\ CancelBehind(b, c, r, 0) =>
               \/ CancelBehind(b, c, r, 0)'
               \/ LET m == Head(toBrowser[b])
                  IN  m.kind = "cancel" /\ m.ctx = c /\ m.req \in {kReservedId, r}
<1> DEFINE s == toBrowser[b]
           t == toBrowser'[b]
<1>1. /\ Len(s) \in Nat \ {0} /\ Len(t) = Len(s) - 1 /\ Head(s) = s[1]
      /\ \A n \in 1 .. Len(t) : t[n] = s[n + 1]
  BY EmptySeq, HeadTailProperties, LenProperties
<1>2. ASSUME NEW n \in Nat, NEW j \in n + 2 .. Len(s)
      PROVE  j - 1 \in n + 1 .. Len(t) /\ t[j - 1] = s[j]
  <2>1. j - 1 \in 1 .. Len(t) /\ (j - 1) + 1 = j
    BY <1>1, <1>2
  <2> QED BY <1>1, <1>2, <2>1
<1>3. ASSUME NEW n \in Nat, CancelBehind(b, c, r, n + 1) PROVE CancelBehind(b, c, r, n)'
  <2>1. PICK j \in (n + 1) + 1 .. Len(s) :
           s[j].kind = "cancel" /\ s[j].ctx = c /\ s[j].req \in {kReservedId, r}
    BY <1>3 DEF CancelBehind
  <2>2. j \in n + 2 .. Len(s)
    BY <1>1, <2>1
  <2>3. j - 1 \in n + 1 .. Len(t) /\ t[j - 1] = s[j]
    BY <1>2, <2>2
  <2> QED BY <2>1, <2>3 DEF CancelBehind
<1>4. ASSUME CancelBehind(b, c, r, 0), ~CancelBehind(b, c, r, 1)
      PROVE  s[1].kind = "cancel" /\ s[1].ctx = c /\ s[1].req \in {kReservedId, r}
  <2>1. PICK j \in 0 + 1 .. Len(s) :
           s[j].kind = "cancel" /\ s[j].ctx = c /\ s[j].req \in {kReservedId, r}
    BY <1>4 DEF CancelBehind
  <2>2. ~(j \in 1 + 1 .. Len(s))
    BY <1>4, <2>1 DEF CancelBehind
  <2>3. j = 1
    BY <1>1, <2>1, <2>2
  <2> QED BY <2>1, <2>3
<1> QED BY <1>1, <1>3, <1>4

LEMMA ElementsAfterHead ==
  ASSUME NEW b \in Browser, toBrowser[b] \in Seq(Request), toBrowser[b] # <<>>,
         toBrowser'[b] = Tail(toBrowser[b])
  PROVE  /\ Elements(toBrowser[b]) = {Head(toBrowser[b])} \cup Elements(toBrowser[b])'
         /\ \A n \in 1 .. Len(toBrowser'[b]) :
               n + 1 \in 1 .. Len(toBrowser[b]) /\ toBrowser'[b][n] = toBrowser[b][n + 1]
<1>1. Elements(toBrowser[b])' = Elements(Tail(toBrowser[b]))
  BY DEF Elements
<1>2. Elements(toBrowser[b]) = {Head(toBrowser[b])} \cup Elements(Tail(toBrowser[b]))
  BY ElementsOfTail
<1>3. /\ Len(toBrowser[b]) \in Nat \ {0} /\ Len(toBrowser'[b]) = Len(toBrowser[b]) - 1
      /\ \A n \in 1 .. Len(toBrowser'[b]) : toBrowser'[b][n] = toBrowser[b][n + 1]
  BY EmptySeq, HeadTailProperties, LenProperties
<1> QED BY <1>1, <1>2, <1>3

(* The browser side takes a query: it becomes pending under a new id, or   *)
(* is failed.                                                              *)
Adopts(b, q0, m) ==
  /\ q0 \notin PendingOf(b)
  /\ \A q \in PendingOf(b)' :
        \/ q \in PendingOf(b) /\ queries'[q] = queries[q]
        \/ /\ q = q0 /\ queries'[q].req = m.req /\ queries'[q].ctx = m.ctx
           /\ queries'[q].persistent = m.persistent
  /\ \E New :
        /\ LeavesAnswered(b, New)
        /\ q0 \in PendingOf(b)' \/ \E a \in New : AnswerTo(a, m) /\ ~a.success
        /\ \A a \in New : AnswersOneOf(b, a) \/ (AnswerTo(a, m) /\ q0 \notin PendingOf(b)')

Takes(b, q0) ==
  LET m == Head(toBrowser[b])
  IN
  /\ toBrowser[b] # <<>> /\ m.kind = "query" /\ toBrowser'[b] = Tail(toBrowser[b])
  /\ Adopts(b, q0, m)

LEMMA TakesLinked ==
  ASSUME NEW b \in Browser, NEW q0, Takes(b, q0), toBrowser[b] \in Seq(Request), Linked(b)
  PROVE  Linked(b)'
<1> DEFINE m == Head(toBrowser[b])
<1>1. /\ toBrowser[b] # <<>> /\ m.kind = "query" /\ toBrowser'[b] = Tail(toBrowser[b])
      /\ q0 \notin PendingOf(b)
      /\ \A q \in PendingOf(b)' :
            \/ q \in PendingOf(b) /\ queries'[q] = queries[q]
            \/ /\ q = q0 /\ queries'[q].req = m.req /\ queries'[q].ctx = m.ctx
               /\ queries'[q].persistent = m.persistent
  BY DEF Takes, Adopts
<1>2. PICK New :
        /\ LeavesAnswered(b, New)
        /\ q0 \in PendingOf(b)' \/ \E a \in New : AnswerTo(a, m) /\ ~a.success
        /\ \A a \in New : AnswersOneOf(b, a) \/ (AnswerTo(a, m) /\ q0 \notin PendingOf(b)')
  BY DEF Takes, Adopts
<1>3. /\ ctx'[b] = ctx[b] /\ lastCtx'[b] = lastCtx[b] /\ lastReq'[b] = lastReq[b]
      /\ requests'[b] = requests[b] /\ epoch'[b] = epoch[b]
      /\ dropped \subseteq dropped'
      /\ Answers(b)' = Answers(b) \cup New
      /\ \A r : /\ Misled(b, r) => Misled(b, r)'
                /\ Excused(b, r) => Excused(b, r)'
                /\ Misled(b, r) => Excused(b, r)
  <2>1. Own(b, jsTasks[b])' = Own(b, jsTasks[b])
    BY <1>2 DEF LeavesAnswered, Own, Elements
  <2> QED BY <1>2, <2>1 DEF LeavesAnswered, Answers, Misled, Excused, UidOf
<1>4. \A a \in New :
         \/ \E q \in PendingOf(b) :
               /\ AnswerTo(a, queries[q])
               /\ q \notin PendingOf(b)' \/ (a.success /\ queries[q].persistent)
         \/ AnswerTo(a, m) /\ q0 \notin PendingOf(b)'
  BY <1>2 DEF AnswersOneOf
<1>5. \A q \in PendingOf(b) : q \notin PendingOf(b)' =>
         UidOf(b, queries[q].req) \in dropped' \/ \E a \in New : ForGood(a, queries[q])
  BY <1>2 DEF LeavesAnswered
<1>6. /\ Elements(toBrowser[b]) = {m} \cup Elements(toBrowser[b])'
      /\ \A n \in 1 .. Len(toBrowser'[b]) :
            n + 1 \in 1 .. Len(toBrowser[b]) /\ toBrowser'[b][n] = toBrowser[b][n + 1]
  BY <1>1, ElementsAfterHead
<1>7. /\ QueryMsgs(b) = {m} \cup QueryMsgs(b)' /\ CancelMsgs(b) = CancelMsgs(b)'
      /\ m \in QueryMsgs(b)
  BY <1>1, <1>6 DEF QueryMsgs, CancelMsgs
<1>8. \A x \in QueryMsgs(b)' : x.req # m.req
  <2> SUFFICES ASSUME NEW n \in 1 .. Len(toBrowser'[b]), toBrowser'[b][n].kind = "query"
               PROVE  toBrowser'[b][n].req # m.req
    BY DEF QueryMsgs, Elements
  <2>1. n + 1 \in 1 .. Len(toBrowser[b]) /\ toBrowser'[b][n] = toBrowser[b][n + 1]
    BY <1>6
  <2>2. 1 \in 1 .. Len(toBrowser[b]) /\ toBrowser[b][1] = m
    BY <1>1, EmptySeq
  <2>3. n + 1 # 1
    OBVIOUS
  <2> QED BY <1>1, <2>1, <2>2, <2>3 DEF Linked, AskedOnce
<1>9. IdsKnown(b)'
  <2>1. m.req <= lastReq[b]
    BY <1>6 DEF Linked, IdsKnown
  <2> QED BY <1>1, <1>3, <1>4, <1>6, <2>1 DEF Linked, IdsKnown, AnswerTo
<1>10. AskedOnce(b)'
  <2>1. ASSUME NEW n \in 1 .. Len(toBrowser'[b]), NEW k \in 1 .. Len(toBrowser'[b]),
               toBrowser'[b][n].kind = "query", toBrowser'[b][k].kind = "query",
               toBrowser'[b][n].req = toBrowser'[b][k].req
        PROVE  n = k
    <3>1. n + 1 = k + 1
      BY <1>6, <2>1 DEF Linked, AskedOnce
    <3> QED BY <3>1
  <2>2. \A q, p \in PendingOf(b)' : queries'[q].req = queries'[p].req => q = p
    BY <1>1, <1>7 DEF Linked, AskedOnce
  <2>3. \A q \in PendingOf(b)' : \A x \in QueryMsgs(b)' : queries'[q].req # x.req
    BY <1>1, <1>7, <1>8 DEF Linked, AskedOnce
  <2> QED BY <2>1, <2>2, <2>3 DEF AskedOnce
<1>11. BothAgree(b)'
  BY <1>1, <1>3, <1>7 DEF Linked, BothAgree, SameAs
<1>12. CancelsMeant(b)'
  BY <1>3, <1>7 DEF Linked, CancelsMeant
<1>13. AnswersMeant(b)'
  <2> SUFFICES ASSUME NEW a \in Answers(b)'
               PROVE  /\ \A x \in QueryMsgs(b)' : x.req # a.req
                      /\ \A q \in PendingOf(b)' :
                            queries'[q].req = a.req => a.success /\ queries'[q].persistent
    BY DEF AnswersMeant
  <2>1. CASE a \in Answers(b)
    BY <1>1, <1>7, <2>1 DEF Linked, AnswersMeant
  <2>2. CASE AnswerTo(a, m) /\ q0 \notin PendingOf(b)'
    BY <1>1, <1>7, <1>8, <2>2 DEF Linked, AskedOnce, AnswerTo
  <2>3. ASSUME NEW q \in PendingOf(b), AnswerTo(a, queries[q]),
               q \notin PendingOf(b)' \/ (a.success /\ queries[q].persistent)
        PROVE  /\ \A x \in QueryMsgs(b)' : x.req # a.req
               /\ \A p \in PendingOf(b)' :
                     queries'[p].req = a.req => a.success /\ queries'[p].persistent
    BY <1>1, <1>7, <2>3 DEF Linked, AskedOnce, AnswerTo
  <2> QED BY <1>3, <1>4, <2>1, <2>2, <2>3
<1>14. QueriesAwaited(b)'
  <2> DEFINE W(c, r) == \E i \in requests[b] : i.ctx = c /\ i.req = r
             C(c, r, n) == \E j \in n + 1 .. Len(toBrowser'[b]) :
                              /\ toBrowser'[b][j].kind = "cancel"
                              /\ toBrowser'[b][j].ctx = c
                              /\ toBrowser'[b][j].req \in {kReservedId, r}
             M(r) == [browser |-> b, epoch |-> epoch'[b], req |-> r] \in misled'
             E(r) == [browser |-> b, epoch |-> epoch'[b], req |-> r] \in misled' \cup unheard'
  <2>1. /\ \A c, r : Waiting(b, c, r) <=> W(c, r)
        /\ \A r : /\ Misled(b, r) => M(r)
                  /\ Excused(b, r) => E(r)
                  /\ M(r) => E(r)
    BY <1>3 DEF Waiting, Misled, Excused, UidOf
  <2> HIDE DEF W, C, M, E
  <2>2. /\ \A c, r : \A n \in Nat : CancelBehind(b, c, r, n + 1) => C(c, r, n)
        /\ \A c, r : CancelBehind(b, c, r, 0) => C(c, r, 0)
    <3> SUFFICES ASSUME NEW c, NEW r
                 PROVE  /\ \A n \in Nat : CancelBehind(b, c, r, n + 1) => C(c, r, n)
                        /\ CancelBehind(b, c, r, 0) => C(c, r, 0)
      OBVIOUS
    <3>1. \A n \in Nat : CancelBehind(b, c, r, n)' <=> C(c, r, n)
      BY DEF CancelBehind, C
    <3>2. /\ \A n \in Nat : CancelBehind(b, c, r, n + 1) => CancelBehind(b, c, r, n)'
          /\ CancelBehind(b, c, r, 0) => CancelBehind(b, c, r, 0)'
      BY <1>1, BehindTheHead
    <3> QED BY <3>1, <3>2
  <2>3. SUFFICES /\ \A q \in PendingOf(b)' :
                       LET x == queries'[q]
                       IN  W(x.ctx, x.req) \/ C(x.ctx, x.req, 0) \/ E(x.req)
                 /\ \A n \in 1 .. Len(toBrowser'[b]) :
                       LET x == toBrowser'[b][n]
                       IN  x.kind = "query" =>
                             W(x.ctx, x.req) \/ C(x.ctx, x.req, n) \/ M(x.req)
    BY <1>3 DEF QueriesAwaited, Waiting, CancelBehind, W, C, Misled, Excused, UidOf, M, E
  <2>4. ASSUME NEW n \in 1 .. Len(toBrowser[b]), toBrowser[b][n].kind = "query"
        PROVE  \/ W(toBrowser[b][n].ctx, toBrowser[b][n].req)
               \/ C(toBrowser[b][n].ctx, toBrowser[b][n].req, n - 1)
               \/ M(toBrowser[b][n].req)
    <3>1. n - 1 \in Nat /\ (n - 1) + 1 = n
      OBVIOUS
    <3>2. \/ Waiting(b, toBrowser[b][n].ctx, toBrowser[b][n].req)
          \/ CancelBehind(b, toBrowser[b][n].ctx, toBrowser[b][n].req, n)
          \/ Misled(b, toBrowser[b][n].req)
      BY <2>4 DEF Linked, QueriesAwaited
    <3> QED BY <2>1, <2>2, <3>1, <3>2
  <2>5. W(m.ctx, m.req) \/ C(m.ctx, m.req, 0) \/ M(m.req)
    <3>1. 1 \in 1 .. Len(toBrowser[b]) /\ toBrowser[b][1] = m
      BY <1>1, EmptySeq
    <3>2. W(m.ctx, m.req) \/ C(m.ctx, m.req, 1 - 1) \/ M(m.req)
      BY <1>1, <2>4, <3>1
    <3> QED BY <3>2
  <2>6. ASSUME NEW q \in PendingOf(b)'
        PROVE  \/ W(queries'[q].ctx, queries'[q].req)
               \/ C(queries'[q].ctx, queries'[q].req, 0)
               \/ E(queries'[q].req)
    <3>1. CASE q \in PendingOf(b) /\ queries'[q] = queries[q]
      <4>1. \/ Waiting(b, queries[q].ctx, queries[q].req)
            \/ CancelBehind(b, queries[q].ctx, queries[q].req, 0)
            \/ Excused(b, queries[q].req)
        BY <3>1 DEF Linked, QueriesAwaited
      <4> QED BY <2>1, <2>2, <3>1, <4>1
    <3> QED BY <1>1, <2>1, <2>5, <2>6, <3>1
  <2>7. ASSUME NEW n \in 1 .. Len(toBrowser'[b]), toBrowser'[b][n].kind = "query"
        PROVE  \/ W(toBrowser'[b][n].ctx, toBrowser'[b][n].req)
               \/ C(toBrowser'[b][n].ctx, toBrowser'[b][n].req, n)
               \/ M(toBrowser'[b][n].req)
    <3>1. (n + 1) - 1 = n
      OBVIOUS
    <3> QED BY <1>6, <2>4, <2>7, <3>1
  <2> QED BY <2>6, <2>7
<1>15. RequestsKept(b)'
  <2> SUFFICES ASSUME NEW i \in requests[b]
               PROVE  \/ \E x \in QueryMsgs(b)' : x.req = i.req
                      \/ \E q \in PendingOf(b)' : queries'[q].req = i.req
                      \/ \E a \in Answers(b)' : ForGood(a, i)
                      \/ UidOf(b, i.req)' \in dropped'
    BY <1>3 DEF RequestsKept
  <2>0. UidOf(b, i.req)' = UidOf(b, i.req)
    BY <1>3 DEF UidOf
  <2>1. CASE \E q \in PendingOf(b) : queries[q].req = i.req
    <3>1. PICK q \in PendingOf(b) : queries[q].req = i.req
      BY <2>1
    <3>2. queries[q].ctx = i.ctx /\ queries[q].persistent = i.persistent
      BY <3>1 DEF Linked, BothAgree, SameAs
    <3>3. CASE q \in PendingOf(b)'
      BY <1>1, <3>1, <3>3
    <3>4. CASE \E a \in New : ForGood(a, queries[q])
      BY <1>3, <3>1, <3>2, <3>4 DEF ForGood, AnswerTo
    <3> QED BY <1>5, <2>0, <3>1, <3>3, <3>4
  <2>2. CASE m.req = i.req
    <3>1. m.ctx = i.ctx
      BY <1>7, <2>2 DEF Linked, BothAgree, SameAs
    <3>2. CASE q0 \in PendingOf(b)'
      BY <1>1, <2>2, <3>2
    <3>3. CASE \E a \in New : AnswerTo(a, m) /\ ~a.success
      BY <1>3, <2>2, <3>1, <3>3 DEF AnswerTo, ForGood
    <3> QED BY <1>2, <3>2, <3>3
  <2>3. CASE m.req # i.req /\ ~\E q \in PendingOf(b) : queries[q].req = i.req
    BY <1>3, <1>7, <2>0, <2>3 DEF Linked, RequestsKept
  <2> QED BY <2>1, <2>2, <2>3
<1> QED BY <1>9, <1>10, <1>11, <1>12, <1>13, <1>14, <1>15 DEF Linked

(* The browser side takes a cancel: the queries it means are not pending   *)
(* any more, but for one in whose place another's was canceled.            *)
Means(m, x) == m.ctx = x.ctx /\ m.req \in {kReservedId, x.req}

Cancels(b) ==
  LET m == Head(toBrowser[b])
  IN
  /\ toBrowser[b] # <<>> /\ m.kind = "cancel" /\ toBrowser'[b] = Tail(toBrowser[b])
  /\ proc'[b] = proc[b] /\ epoch'[b] = epoch[b] /\ dropped \subseteq dropped'
  /\ misled \subseteq misled' /\ unheard \subseteq unheard'
  /\ UNCHANGED <<ctx[b], lastCtx[b], lastReq[b], requests[b], jsTasks[b], toRenderer[b]>>
  /\ \A q \in PendingOf(b)' :
        /\ q \in PendingOf(b) /\ queries'[q] = queries[q]
        /\ ~Means(m, queries[q]) \/ UidOf(b, queries[q].req) \in unheard'
  /\ \A q \in PendingOf(b) : q \in PendingOf(b)' \/ Means(m, queries[q])

LEMMA CancelsLinked ==
  ASSUME NEW b \in Browser, Cancels(b), toBrowser[b] \in Seq(Request), Linked(b)
  PROVE  Linked(b)'
<1> DEFINE m == Head(toBrowser[b])
<1>1. /\ toBrowser[b] # <<>> /\ m.kind = "cancel" /\ toBrowser'[b] = Tail(toBrowser[b])
      /\ epoch'[b] = epoch[b] /\ dropped \subseteq dropped'
      /\ ctx'[b] = ctx[b] /\ lastCtx'[b] = lastCtx[b] /\ lastReq'[b] = lastReq[b]
      /\ requests'[b] = requests[b] /\ Answers(b)' = Answers(b)
      /\ misled \subseteq misled' /\ unheard \subseteq unheard'
  BY DEF Cancels, Answers, Own, Elements
<1>2. /\ \A q \in PendingOf(b)' : /\ q \in PendingOf(b) /\ queries'[q] = queries[q]
                                  /\ \/ ~Means(m, queries[q])
                                     \/ UidOf(b, queries[q].req) \in unheard'
      /\ \A q \in PendingOf(b) : q \in PendingOf(b)' \/ Means(m, queries[q])
  BY DEF Cancels
<1>3. /\ Elements(toBrowser[b]) = {m} \cup Elements(toBrowser[b])'
      /\ \A n \in 1 .. Len(toBrowser'[b]) :
            n + 1 \in 1 .. Len(toBrowser[b]) /\ toBrowser'[b][n] = toBrowser[b][n + 1]
  BY <1>1, ElementsAfterHead
<1>4. /\ QueryMsgs(b)' = QueryMsgs(b) /\ CancelMsgs(b)' \subseteq CancelMsgs(b)
      /\ m \in CancelMsgs(b)
  BY <1>1, <1>3 DEF QueryMsgs, CancelMsgs
<1>5. IdsKnown(b)'
  BY <1>1, <1>2, <1>3 DEF Linked, IdsKnown
<1>6. AskedOnce(b)'
  <2>1. ASSUME NEW n \in 1 .. Len(toBrowser'[b]), NEW k \in 1 .. Len(toBrowser'[b]),
               toBrowser'[b][n].kind = "query", toBrowser'[b][k].kind = "query",
               toBrowser'[b][n].req = toBrowser'[b][k].req
        PROVE  n = k
    <3>1. n + 1 = k + 1
      BY <1>3, <2>1 DEF Linked, AskedOnce
    <3> QED BY <3>1
  <2> QED BY <1>2, <1>4, <2>1 DEF Linked, AskedOnce
<1>7. BothAgree(b)'
  BY <1>1, <1>2, <1>4 DEF Linked, BothAgree
<1>8. CancelsMeant(b)'
  BY <1>1, <1>4 DEF Linked, CancelsMeant
<1>9. AnswersMeant(b)'
  BY <1>1, <1>2, <1>4 DEF Linked, AnswersMeant
<1>10. QueriesAwaited(b)'
  <2> DEFINE W(c, r) == \E i \in requests[b] : i.ctx = c /\ i.req = r
             C(c, r, n) == \E j \in n + 1 .. Len(toBrowser'[b]) :
                              /\ toBrowser'[b][j].kind = "cancel"
                              /\ toBrowser'[b][j].ctx = c
                              /\ toBrowser'[b][j].req \in {kReservedId, r}
             M(r) == [browser |-> b, epoch |-> epoch'[b], req |-> r] \in misled'
             E(r) == [browser |-> b, epoch |-> epoch'[b], req |-> r] \in misled' \cup unheard'
  <2>1. /\ \A c, r : Waiting(b, c, r) <=> W(c, r)
        /\ \A r : /\ Misled(b, r) => M(r)
                  /\ Excused(b, r) => E(r)
                  /\ M(r) => E(r)
        /\ \A r : UidOf(b, r) \in unheard' => E(r)
    BY <1>1 DEF Waiting, Misled, Excused, UidOf
  <2> HIDE DEF W, C, M, E
  <2>2. ASSUME NEW c, NEW r
        PROVE  /\ \A n \in Nat : CancelBehind(b, c, r, n + 1) => C(c, r, n)
               /\ CancelBehind(b, c, r, 0) =>
                     C(c, r, 0) \/ (m.ctx = c /\ m.req \in {kReservedId, r})
    <3>1. \A n \in Nat : CancelBehind(b, c, r, n)' <=> C(c, r, n)
      BY DEF CancelBehind, C
    <3>2. /\ \A n \in Nat : CancelBehind(b, c, r, n + 1) => CancelBehind(b, c, r, n)'
          /\ CancelBehind(b, c, r, 0) =>
                CancelBehind(b, c, r, 0)' \/ (m.ctx = c /\ m.req \in {kReservedId, r})
      BY <1>1, BehindTheHead
    <3> QED BY <3>1, <3>2
  <2>3. SUFFICES /\ \A q \in PendingOf(b)' :
                       LET x == queries'[q]
                       IN  W(x.ctx, x.req) \/ C(x.ctx, x.req, 0) \/ E(x.req)
                 /\ \A n \in 1 .. Len(toBrowser'[b]) :
                       LET x == toBrowser'[b][n]
                       IN  x.kind = "query" => W(x.ctx, x.req) \/ C(x.ctx, x.req, n) \/ M(x.req)
    BY <1>1 DEF QueriesAwaited, Waiting, CancelBehind, Misled, Excused, UidOf, W, C, M, E
  <2>4. ASSUME NEW q \in PendingOf(b)'
        PROVE  \/ W(queries'[q].ctx, queries'[q].req)
               \/ C(queries'[q].ctx, queries'[q].req, 0)
               \/ E(queries'[q].req)
    <3>1. /\ q \in PendingOf(b) /\ queries'[q] = queries[q]
          /\ ~Means(m, queries[q]) \/ E(queries[q].req)
      BY <1>2, <2>1
    <3>2. \/ Waiting(b, queries[q].ctx, queries[q].req)
          \/ CancelBehind(b, queries[q].ctx, queries[q].req, 0)
          \/ Excused(b, queries[q].req)
      BY <3>1 DEF Linked, QueriesAwaited
    <3> QED BY <2>1, <2>2, <3>1, <3>2 DEF Means
  <2>5. ASSUME NEW n \in 1 .. Len(toBrowser'[b]), toBrowser'[b][n].kind = "query"
        PROVE  \/ W(toBrowser'[b][n].ctx, toBrowser'[b][n].req)
               \/ C(toBrowser'[b][n].ctx, toBrowser'[b][n].req, n)
               \/ M(toBrowser'[b][n].req)
    <3>1. n + 1 \in 1 .. Len(toBrowser[b]) /\ toBrowser'[b][n] = toBrowser[b][n + 1]
      BY <1>3
    <3>2. \/ Waiting(b, toBrowser[b][n + 1].ctx, toBrowser[b][n + 1].req)
          \/ CancelBehind(b, toBrowser[b][n + 1].ctx, toBrowser[b][n + 1].req, n + 1)
          \/ Misled(b, toBrowser[b][n + 1].req)
      BY <2>5, <3>1 DEF Linked, QueriesAwaited
    <3>3. n \in Nat
      OBVIOUS
    <3> QED BY <2>1, <2>2, <3>1, <3>2, <3>3
  <2> QED BY <2>4, <2>5
<1>11. RequestsKept(b)'
  <2> SUFFICES ASSUME NEW i \in requests[b]
               PROVE  \/ \E x \in QueryMsgs(b)' : x.req = i.req
                      \/ \E q \in PendingOf(b)' : queries'[q].req = i.req
                      \/ \E a \in Answers(b)' : ForGood(a, i)
                      \/ UidOf(b, i.req)' \in dropped'
    BY <1>1 DEF RequestsKept
  <2>0. UidOf(b, i.req)' = UidOf(b, i.req)
    BY <1>1 DEF UidOf
  <2>1. ASSUME NEW q \in PendingOf(b), queries[q].req = i.req PROVE q \in PendingOf(b)'
    <3>1. queries[q].ctx = i.ctx
      BY <2>1 DEF Linked, BothAgree, SameAs
    <3>2. ~Means(m, queries[q])
      BY <1>4, <2>1, <3>1 DEF Linked, CancelsMeant, Means
    <3> QED BY <1>2, <3>2
  <2> QED BY <1>1, <1>2, <1>4, <2>0, <2>1 DEF Linked, RequestsKept
<1> QED BY <1>5, <1>6, <1>7, <1>8, <1>9, <1>10, <1>11 DEF Linked

-----------------------------------------------------------------------------
(* The renderer side sends messages behind those on their way.             *)
LEMMA BehindTheEnd ==
  ASSUME NEW b \in Browser, toBrowser[b] \in Seq(Request), NEW m \in Request,
         toBrowser'[b] = toBrowser[b] \o <<m>>
  PROVE  /\ Elements(toBrowser[b])' = Elements(toBrowser[b]) \cup {m}
         /\ Len(toBrowser[b]) \in Nat /\ Len(toBrowser'[b]) = Len(toBrowser[b]) + 1
         /\ \A n \in 1 .. Len(toBrowser[b]) : toBrowser'[b][n] = toBrowser[b][n]
         /\ toBrowser'[b][Len(toBrowser'[b])] = m
<1> DEFINE t == <<m>>
<1>1. t \in Seq(Request) /\ Len(t) = 1 /\ t[1] = m /\ Elements(t) = {m}
  BY ElementsOfOne
<1> HIDE DEF t
<1>2. toBrowser'[b] = toBrowser[b] \o t
  BY DEF t
<1>3. Elements(toBrowser[b])' = Elements(toBrowser[b]) \cup {m}
  <2>1. Elements(toBrowser[b] \o t) = Elements(toBrowser[b]) \cup {m}
    BY <1>1, ElementsOfConcat
  <2>2. Elements(toBrowser[b])' = Elements(toBrowser'[b])
    BY DEF Elements
  <2> QED BY <1>2, <2>1, <2>2
<1>4. Len(toBrowser[b]) \in Nat
  BY LenProperties
<1>5. /\ Len(toBrowser[b] \o t) = Len(toBrowser[b]) + 1
      /\ \A n \in 1 .. Len(toBrowser[b]) + 1 :
            (toBrowser[b] \o t)[n] = IF n <= Len(toBrowser[b]) THEN toBrowser[b][n]
                                    ELSE t[n - Len(toBrowser[b])]
  BY <1>1, ConcatProperties
<1> QED BY <1>1, <1>2, <1>3, <1>4, <1>5

(* cefQuery(): a request nobody knows yet.                                 *)
Asks(b, f, i) ==
  /\ toBrowser'[b] = toBrowser[b] \o <<QueryMsg(i.ctx, i.req, i.persistent)>>
  /\ requests'[b] = requests[b] \cup {i}
  /\ i.req = lastReq[b] + 1 /\ lastReq'[b] = lastReq[b] + 1
  /\ i.ctx = ContextId(b, f) /\ ctx'[b] = [ctx[b] EXCEPT ![f] = i.ctx]
  /\ lastCtx'[b] = (IF ctx[b][f] = kReservedId THEN lastCtx[b] + 1 ELSE lastCtx[b])
  /\ UNCHANGED <<jsTasks[b], toRenderer[b], epoch[b], queries, dropped, misled, unheard>>

LEMMA AsksLinked ==
  ASSUME TypeOK, NEW b \in Browser, NEW f \in Frame, NEW i \in RequestInfo, Asks(b, f, i),
         Linked(b)
  PROVE  Linked(b)'
<1> DEFINE m == QueryMsg(i.ctx, i.req, i.persistent)
<1>1. /\ toBrowser'[b] = toBrowser[b] \o <<m>>
      /\ requests'[b] = requests[b] \cup {i}
      /\ i.req = lastReq[b] + 1 /\ lastReq'[b] = lastReq[b] + 1
      /\ i.ctx = ContextId(b, f) /\ ctx'[b] = [ctx[b] EXCEPT ![f] = i.ctx]
      /\ lastCtx'[b] = (IF ctx[b][f] = kReservedId THEN lastCtx[b] + 1 ELSE lastCtx[b])
      /\ PendingOf(b)' = PendingOf(b) /\ queries' = queries
      /\ Answers(b)' = Answers(b) /\ epoch'[b] = epoch[b] /\ dropped' = dropped
      /\ misled' = misled /\ unheard' = unheard
  BY DEF Asks, PendingOf, Answers, Own, Elements
<1>2. /\ toBrowser[b] \in Seq(Request) /\ lastReq[b] \in Nat /\ lastCtx[b] \in Nat
      /\ ctx[b] \in [Frame -> Nat] /\ kReservedId = 0
      /\ \A j \in requests[b] : j.req \in Nat /\ j.ctx \in Nat \ {0}
      /\ \A q \in PendingOf(b) : queries[q].req \in Nat
  BY DEF TypeOK, TransportTypeOK, RendererSideTypeOK, BrowserSideTypeOK, RequestInfo, QueryInfo,
         Id, Id0, kReservedId, PendingOf
<1>3. m \in Request /\ m.kind = "query" /\ SameAs(m, i) /\ m.req = i.req /\ m.ctx = i.ctx
  BY DEF QueryMsg, Request, RequestInfo, SameAs
<1> HIDE DEF m
<1>4. /\ Elements(toBrowser[b])' = Elements(toBrowser[b]) \cup {m}
      /\ Len(toBrowser[b]) \in Nat /\ Len(toBrowser'[b]) = Len(toBrowser[b]) + 1
      /\ \A n \in 1 .. Len(toBrowser[b]) : toBrowser'[b][n] = toBrowser[b][n]
      /\ toBrowser'[b][Len(toBrowser'[b])] = m
  BY <1>1, <1>2, <1>3, BehindTheEnd
<1>5. QueryMsgs(b)' = QueryMsgs(b) \cup {m} /\ CancelMsgs(b)' = CancelMsgs(b)
  BY <1>3, <1>4 DEF QueryMsgs, CancelMsgs
<1>6. \A x \in Elements(toBrowser[b]) : x.req \in Nat /\ x.ctx \in Nat
  BY <1>2, ElementOfSeq DEF Elements, Request, Id, Id0, kReservedId
<1>7. \A a \in Answers(b) : a.req \in Nat
  <2>1. toRenderer[b] \in Seq(Answer) /\ jsTasks[b] \in Seq(Answer)
    BY DEF TypeOK, TransportTypeOK, RendererSideTypeOK
  <2>2. Elements(toRenderer[b]) \subseteq Answer /\ Elements(jsTasks[b]) \subseteq Answer
    BY <2>1, ElementsType
  <2> QED BY <2>2 DEF Answers, Own, Answer, Id
<1>8. /\ \A x \in Elements(toBrowser[b]) : x.req # i.req
      /\ \A q \in PendingOf(b) : queries[q].req # i.req
      /\ \A j \in requests[b] : j.req # i.req
      /\ \A a \in Answers(b) : a.req # i.req
  BY <1>1, <1>2, <1>6, <1>7 DEF Linked, IdsKnown
<1>9. /\ i.ctx <= lastCtx'[b] /\ lastCtx[b] <= lastCtx'[b]
      /\ \A g \in Frame : \/ ctx'[b][g] = ctx[b][g]
                          \/ g = f /\ ctx'[b][g] = lastCtx[b] + 1
      /\ \A g \in Frame : ctx'[b][g] <= lastCtx'[b]
      /\ i.ctx = ctx[b][f] \/ i.ctx = lastCtx[b] + 1
  BY <1>1, <1>2 DEF ContextId, Linked, IdsKnown
<1>10. IdsKnown(b)'
  <2>1. \A g, h \in Frame : ctx'[b][g] = ctx'[b][h] /\ ctx'[b][g] # kReservedId => g = h
    BY <1>2, <1>9 DEF Linked, IdsKnown
  <2>2. \A j \in requests'[b] : j.req <= lastReq'[b] /\ j.ctx <= lastCtx'[b]
    BY <1>1, <1>2, <1>9 DEF Linked, IdsKnown
  <2>6. \A j \in requests'[b] : \E g \in Frame : ctx'[b][g] = j.ctx
    <3>1. ctx'[b][f] = i.ctx
      BY <1>1, <1>2
    <3>2. ASSUME NEW j \in requests[b] PROVE \E g \in Frame : ctx'[b][g] = j.ctx
      <4>1. PICK g \in Frame : ctx[b][g] = j.ctx
        BY DEF Linked, IdsKnown
      <4>2. ctx'[b][g] = j.ctx
        BY <1>1, <1>2, <4>1 DEF ContextId
      <4> QED BY <4>2
    <3> QED BY <1>1, <3>1, <3>2
  <2>3. \A x \in Elements(toBrowser[b])' : x.req <= lastReq'[b] /\ x.ctx <= lastCtx'[b]
    BY <1>1, <1>2, <1>3, <1>4, <1>6, <1>9 DEF Linked, IdsKnown
  <2>4. \A q \in PendingOf(b)' : queries'[q].req <= lastReq'[b]
    BY <1>1, <1>2 DEF Linked, IdsKnown
  <2>5. \A a \in Answers(b)' : a.req <= lastReq'[b]
    BY <1>1, <1>2, <1>7 DEF Linked, IdsKnown
  <2> QED BY <1>9, <2>1, <2>2, <2>3, <2>4, <2>5, <2>6 DEF IdsKnown
<1>11. AskedOnce(b)'
  <2>1. ASSUME NEW n \in 1 .. Len(toBrowser'[b]), NEW k \in 1 .. Len(toBrowser'[b]),
               toBrowser'[b][n].kind = "query", toBrowser'[b][k].kind = "query",
               toBrowser'[b][n].req = toBrowser'[b][k].req
        PROVE  n = k
    <3>1. \A l \in 1 .. Len(toBrowser[b]) : toBrowser'[b][l].req # m.req
      BY <1>3, <1>4, <1>8 DEF Elements
    <3>2. CASE n = Len(toBrowser'[b]) \/ k = Len(toBrowser'[b])
      BY <1>4, <2>1, <3>1, <3>2
    <3>3. CASE n # Len(toBrowser'[b]) /\ k # Len(toBrowser'[b])
      <4>1. n \in 1 .. Len(toBrowser[b]) /\ k \in 1 .. Len(toBrowser[b])
        BY <1>4, <3>3
      <4> QED BY <1>4, <2>1, <4>1 DEF Linked, AskedOnce
    <3> QED BY <3>2, <3>3
  <2>2. \A q, p \in PendingOf(b)' : queries'[q].req = queries'[p].req => q = p
    BY <1>1 DEF Linked, AskedOnce
  <2>3. \A q \in PendingOf(b)' : \A x \in QueryMsgs(b)' : queries'[q].req # x.req
    BY <1>1, <1>3, <1>5, <1>8 DEF Linked, AskedOnce
  <2> QED BY <2>1, <2>2, <2>3 DEF AskedOnce
<1>12. BothAgree(b)'
  <2>1. \A x \in QueryMsgs(b) : SameAs(x, i)
    BY <1>8 DEF QueryMsgs, SameAs
  <2>2. \A q \in PendingOf(b) : SameAs(queries[q], i)
    BY <1>8 DEF SameAs
  <2>3. \A j \in requests[b] : SameAs(m, j)
    BY <1>3, <1>8 DEF SameAs
  <2> QED BY <1>1, <1>3, <1>5, <2>1, <2>2, <2>3 DEF Linked, BothAgree
<1>13. CancelsMeant(b)'
  <2> SUFFICES ASSUME NEW x \in CancelMsgs(b)
               PROVE  /\ \A j \in requests'[b] : ~(j.ctx = x.ctx /\ x.req \in {kReservedId, j.req})
                      /\ x.req = kReservedId => \A g \in Frame : ctx'[b][g] # x.ctx
    BY <1>5 DEF CancelsMeant
  <2>1. /\ \A j \in requests[b] : ~(j.ctx = x.ctx /\ x.req \in {kReservedId, j.req})
        /\ x.req = kReservedId => \A g \in Frame : ctx[b][g] # x.ctx
    BY DEF Linked, CancelsMeant
  <2>2. x.req # i.req /\ x.ctx \in Nat /\ x.ctx <= lastCtx[b]
    BY <1>6, <1>8 DEF CancelMsgs, Linked, IdsKnown
  <2>3. x.ctx # lastCtx[b] + 1
    BY <1>2, <2>2
  <2> QED BY <1>1, <1>9, <2>1, <2>2, <2>3
<1>14. AnswersMeant(b)'
  BY <1>1, <1>3, <1>5, <1>8 DEF Linked, AnswersMeant
<1>15. QueriesAwaited(b)'
  <2> DEFINE W(c, r) == \E j \in requests'[b] : j.ctx = c /\ j.req = r
             C(c, r, n) == \E k \in n + 1 .. Len(toBrowser'[b]) :
                              /\ toBrowser'[b][k].kind = "cancel"
                              /\ toBrowser'[b][k].ctx = c
                              /\ toBrowser'[b][k].req \in {kReservedId, r}
             M(r) == [browser |-> b, epoch |-> epoch'[b], req |-> r] \in misled'
             E(r) == [browser |-> b, epoch |-> epoch'[b], req |-> r] \in misled' \cup unheard'
  <2>1. /\ \A c, r : Waiting(b, c, r) => W(c, r)
        /\ \A r : /\ Misled(b, r) => M(r)
                  /\ Excused(b, r) => E(r)
                  /\ M(r) => E(r)
    BY <1>1 DEF Waiting, Misled, Excused, UidOf
  <2>2. \A c, r : \A n \in Nat : CancelBehind(b, c, r, n) => C(c, r, n)
    BY <1>4 DEF CancelBehind
  <2>3. W(m.ctx, m.req)
    BY <1>1, <1>3
  <2> HIDE DEF W, C, M, E
  <2>4. SUFFICES /\ \A q \in PendingOf(b)' :
                       LET x == queries'[q]
                       IN  W(x.ctx, x.req) \/ C(x.ctx, x.req, 0) \/ E(x.req)
                 /\ \A n \in 1 .. Len(toBrowser'[b]) :
                       LET x == toBrowser'[b][n]
                       IN  x.kind = "query" => W(x.ctx, x.req) \/ C(x.ctx, x.req, n) \/ M(x.req)
    BY DEF QueriesAwaited, Waiting, CancelBehind, Misled, Excused, UidOf, W, C, M, E
  <2>5. \A q \in PendingOf(b)' :
           LET x == queries'[q] IN W(x.ctx, x.req) \/ C(x.ctx, x.req, 0) \/ E(x.req)
    BY <1>1, <2>1, <2>2 DEF Linked, QueriesAwaited
  <2>6. ASSUME NEW n \in 1 .. Len(toBrowser'[b]), toBrowser'[b][n].kind = "query"
        PROVE  \/ W(toBrowser'[b][n].ctx, toBrowser'[b][n].req)
               \/ C(toBrowser'[b][n].ctx, toBrowser'[b][n].req, n)
               \/ M(toBrowser'[b][n].req)
    <3>1. CASE n = Len(toBrowser'[b])
      BY <1>4, <2>3, <3>1
    <3>2. CASE n # Len(toBrowser'[b])
      <4>1. n \in 1 .. Len(toBrowser[b]) /\ n \in Nat /\ toBrowser'[b][n] = toBrowser[b][n]
        BY <1>4, <3>2
      <4> QED BY <2>1, <2>2, <2>6, <4>1 DEF Linked, QueriesAwaited
    <3> QED BY <3>1, <3>2
  <2> QED BY <2>5, <2>6
<1>16. RequestsKept(b)'
  <2> SUFFICES ASSUME NEW j \in requests'[b]
               PROVE  \/ \E x \in QueryMsgs(b)' : x.req = j.req
                      \/ \E q \in PendingOf(b)' : queries'[q].req = j.req
                      \/ \E a \in Answers(b)' : ForGood(a, j)
                      \/ UidOf(b, j.req)' \in dropped'
    BY DEF RequestsKept
  <2>1. CASE j = i
    BY <1>3, <1>5, <2>1
  <2>2. CASE j \in requests[b]
    <3>1. UidOf(b, j.req)' = UidOf(b, j.req)
      BY <1>1 DEF UidOf
    <3> QED BY <1>1, <1>5, <2>2, <3>1 DEF Linked, RequestsKept
  <2> QED BY <1>1, <2>1, <2>2
<1> QED BY <1>10, <1>11, <1>12, <1>13, <1>14, <1>15, <1>16 DEF Linked

(* cefQueryCancel() and the release of a context: nobody waits for the     *)
(* requests any more, and a cancel is sent that tells it.                  *)
Withdraws(b, c, r) ==
  LET P == PendingRequests(b, c, r)
  IN
  /\ toBrowser'[b] = (IF P = {} THEN toBrowser[b] ELSE toBrowser[b] \o <<CancelMsg(c, r)>>)
  /\ requests'[b] = requests[b] \ P
  /\ r <= lastReq[b] /\ c <= lastCtx'[b] /\ lastCtx'[b] \in {lastCtx[b], lastCtx[b] + 1}
  /\ \A g \in Frame : \/ ctx'[b][g] \in {ctx[b][g], kReservedId}
                      \/ ctx'[b][g] = lastCtx[b] + 1 /\ lastCtx'[b] = lastCtx[b] + 1
  /\ \A g, h \in Frame : ctx'[b][g] = ctx'[b][h] /\ ctx'[b][g] # kReservedId => g = h
  /\ r = kReservedId => \A g \in Frame : ctx'[b][g] # c
  /\ \A i \in requests[b] \ P : \E g \in Frame : ctx'[b][g] = i.ctx
  /\ UNCHANGED <<lastReq[b], jsTasks[b], toRenderer[b], epoch[b], queries, dropped, misled, unheard>>

LEMMA WithdrawsLinked ==
  ASSUME TypeOK, NEW b \in Browser, NEW c \in Id, NEW r \in Id0, Withdraws(b, c, r), Linked(b)
  PROVE  Linked(b)'
<1> DEFINE P == PendingRequests(b, c, r)
           m == CancelMsg(c, r)
<1>1. /\ toBrowser'[b] = (IF P = {} THEN toBrowser[b] ELSE toBrowser[b] \o <<m>>)
      /\ requests'[b] = requests[b] \ P
      /\ r <= lastReq[b] /\ c <= lastCtx'[b] /\ lastCtx'[b] \in {lastCtx[b], lastCtx[b] + 1}
      /\ \A g \in Frame : \/ ctx'[b][g] \in {ctx[b][g], kReservedId}
                          \/ ctx'[b][g] = lastCtx[b] + 1 /\ lastCtx'[b] = lastCtx[b] + 1
      /\ \A g, h \in Frame : ctx'[b][g] = ctx'[b][h] /\ ctx'[b][g] # kReservedId => g = h
      /\ r = kReservedId => \A g \in Frame : ctx'[b][g] # c
      /\ lastReq'[b] = lastReq[b]
      /\ PendingOf(b)' = PendingOf(b) /\ queries' = queries
      /\ Answers(b)' = Answers(b) /\ epoch'[b] = epoch[b] /\ dropped' = dropped
      /\ \A i \in requests[b] \ P : \E g \in Frame : ctx'[b][g] = i.ctx
      /\ misled' = misled /\ unheard' = unheard
  BY DEF Withdraws, PendingOf, Answers, Own, Elements
<1>2. /\ toBrowser[b] \in Seq(Request) /\ lastReq[b] \in Nat /\ lastCtx[b] \in Nat
      /\ ctx[b] \in [Frame -> Nat] /\ kReservedId = 0
      /\ c \in Nat \ {0} /\ r \in Nat
      /\ \A j \in requests[b] : j.req \in Nat \ {0} /\ j.ctx \in Nat
  BY DEF TypeOK, TransportTypeOK, RendererSideTypeOK, RequestInfo, Id, Id0, kReservedId
<1>3. m \in Request /\ m.kind = "cancel" /\ m.req = r /\ m.ctx = c
  BY DEF CancelMsg, Request
<1>4. P = {i \in requests[b] : i.ctx = c /\ r \in {kReservedId, i.req}}
  BY DEF PendingRequests
<1> HIDE DEF m, P
<1>5. /\ Elements(toBrowser[b])' = Elements(toBrowser[b]) \cup (IF P = {} THEN {} ELSE {m})
      /\ Len(toBrowser[b]) \in Nat
      /\ P = {} => Len(toBrowser'[b]) = Len(toBrowser[b])
      /\ P # {} => Len(toBrowser'[b]) = Len(toBrowser[b]) + 1
      /\ \A n \in 1 .. Len(toBrowser[b]) : toBrowser'[b][n] = toBrowser[b][n]
      /\ P # {} => toBrowser'[b][Len(toBrowser'[b])] = m
  <2>1. CASE P = {}
    BY <1>1, <1>2, <2>1, LenProperties DEF Elements
  <2>2. CASE P # {}
    <3>1. toBrowser'[b] = toBrowser[b] \o <<m>>
      BY <1>1, <2>2
    <3>2. /\ Elements(toBrowser[b])' = Elements(toBrowser[b]) \cup {m}
          /\ Len(toBrowser[b]) \in Nat /\ Len(toBrowser'[b]) = Len(toBrowser[b]) + 1
          /\ \A n \in 1 .. Len(toBrowser[b]) : toBrowser'[b][n] = toBrowser[b][n]
          /\ toBrowser'[b][Len(toBrowser'[b])] = m
      BY <1>2, <1>3, <3>1, BehindTheEnd
    <3> QED BY <2>2, <3>2
  <2> QED BY <2>1, <2>2
<1>6. /\ QueryMsgs(b)' = QueryMsgs(b)
      /\ CancelMsgs(b)' \subseteq CancelMsgs(b) \cup {m}
  BY <1>3, <1>5 DEF QueryMsgs, CancelMsgs
<1>7. \A x \in Elements(toBrowser[b]) : x.req \in Nat /\ x.ctx \in Nat \ {0}
  <2>1. Elements(toBrowser[b]) \subseteq Request
    BY <1>2, ElementsType
  <2> QED BY <2>1 DEF Request, Id, Id0, kReservedId
<1>8. IdsKnown(b)'
  <2>1. ASSUME NEW g \in Frame PROVE ctx'[b][g] <= lastCtx'[b]
    <3>1. ctx[b][g] \in Nat /\ ctx[b][g] <= lastCtx[b]
      BY <1>2 DEF Linked, IdsKnown
    <3>2. lastCtx'[b] \in Nat /\ lastCtx[b] <= lastCtx'[b]
      BY <1>1, <1>2
    <3>3. \/ ctx'[b][g] = ctx[b][g] \/ ctx'[b][g] = kReservedId
          \/ ctx'[b][g] = lastCtx'[b]
      BY <1>1
    <3> QED BY <1>2, <3>1, <3>2, <3>3
  <2>2. \A j \in requests'[b] : j.req <= lastReq'[b] /\ j.ctx <= lastCtx'[b]
    BY <1>1, <1>2 DEF Linked, IdsKnown
  <2>3. \A x \in Elements(toBrowser[b])' : x.req <= lastReq'[b] /\ x.ctx <= lastCtx'[b]
    BY <1>1, <1>2, <1>3, <1>5, <1>7 DEF Linked, IdsKnown
  <2>4. \A q \in PendingOf(b)' : queries'[q].req <= lastReq'[b]
    BY <1>1 DEF Linked, IdsKnown
  <2>5. \A a \in Answers(b)' : a.req <= lastReq'[b]
    BY <1>1 DEF Linked, IdsKnown
  <2> QED BY <1>1, <2>1, <2>2, <2>3, <2>4, <2>5 DEF IdsKnown
<1>9. AskedOnce(b)'
  <2>1. ASSUME NEW n \in 1 .. Len(toBrowser'[b]), toBrowser'[b][n].kind = "query"
        PROVE  n \in 1 .. Len(toBrowser[b]) /\ toBrowser'[b][n] = toBrowser[b][n]
    <3>1. CASE P # {} /\ n = Len(toBrowser'[b])
      BY <1>3, <1>5, <2>1, <3>1
    <3>2. CASE ~(P # {} /\ n = Len(toBrowser'[b]))
      BY <1>5, <3>2
    <3> QED BY <3>1, <3>2
  <2>2. \A q, p \in PendingOf(b)' : queries'[q].req = queries'[p].req => q = p
    BY <1>1 DEF Linked, AskedOnce
  <2>3. \A q \in PendingOf(b)' : \A x \in QueryMsgs(b)' : queries'[q].req # x.req
    BY <1>1, <1>6 DEF Linked, AskedOnce
  <2> QED BY <2>1, <2>2, <2>3 DEF Linked, AskedOnce
<1>10. BothAgree(b)'
  BY <1>1, <1>6 DEF Linked, BothAgree
<1>11. CancelsMeant(b)'
  <2> SUFFICES ASSUME NEW x \in CancelMsgs(b)'
               PROVE  /\ \A j \in requests'[b] : ~(j.ctx = x.ctx /\ x.req \in {kReservedId, j.req})
                      /\ x.req = kReservedId => \A g \in Frame : ctx'[b][g] # x.ctx
    BY DEF CancelsMeant
  <2>1. CASE x = m
    BY <1>1, <1>3, <1>4, <2>1
  <2>2. CASE x \in CancelMsgs(b)
    <3>1. /\ \A j \in requests[b] : ~(j.ctx = x.ctx /\ x.req \in {kReservedId, j.req})
          /\ x.req = kReservedId => \A g \in Frame : ctx[b][g] # x.ctx
      BY <2>2 DEF Linked, CancelsMeant
    <3>2. x.ctx \in Nat \ {0} /\ x.ctx <= lastCtx[b]
      BY <1>7, <2>2 DEF CancelMsgs, Linked, IdsKnown
    <3>3. x.ctx # lastCtx[b] + 1 /\ x.ctx # kReservedId
      BY <1>2, <3>2
    <3> QED BY <1>1, <3>1, <3>3
  <2> QED BY <1>6, <2>1, <2>2
<1>12. AnswersMeant(b)'
  BY <1>1, <1>6 DEF Linked, AnswersMeant
<1>13. QueriesAwaited(b)'
  <2> DEFINE W(u, v) == \E j \in requests'[b] : j.ctx = u /\ j.req = v
             C(u, v, n) == \E k \in n + 1 .. Len(toBrowser'[b]) :
                              /\ toBrowser'[b][k].kind = "cancel"
                              /\ toBrowser'[b][k].ctx = u
                              /\ toBrowser'[b][k].req \in {kReservedId, v}
             M(v) == [browser |-> b, epoch |-> epoch'[b], req |-> v] \in misled'
             E(v) == [browser |-> b, epoch |-> epoch'[b], req |-> v] \in misled' \cup unheard'
  <2>6. \A v : (Misled(b, v) => M(v)) /\ (Excused(b, v) => E(v))
    BY <1>1 DEF Misled, Excused, UidOf
  <2>1. ASSUME NEW u, NEW v, NEW n \in 0 .. Len(toBrowser[b]), Waiting(b, u, v)
        PROVE  W(u, v) \/ C(u, v, n)
    <3>1. PICK j \in requests[b] : j.ctx = u /\ j.req = v
      BY <2>1 DEF Waiting
    <3>2. CASE j \notin P
      BY <1>1, <3>1, <3>2
    <3>3. CASE j \in P
      <4>1. u = c /\ r \in {kReservedId, v}
        BY <1>4, <3>1, <3>3
      <4>2. P # {} /\ Len(toBrowser'[b]) \in n + 1 .. Len(toBrowser'[b])
        BY <1>5, <3>3
      <4> QED BY <1>3, <1>5, <4>1, <4>2
    <3> QED BY <3>2, <3>3
  <2>2. ASSUME NEW u, NEW v, NEW n \in Nat, CancelBehind(b, u, v, n)
        PROVE  C(u, v, n)
    <3>1. PICK k \in n + 1 .. Len(toBrowser[b]) :
             /\ toBrowser[b][k].kind = "cancel" /\ toBrowser[b][k].ctx = u
             /\ toBrowser[b][k].req \in {kReservedId, v}
      BY <2>2 DEF CancelBehind
    <3>2. k \in 1 .. Len(toBrowser[b]) /\ k \in n + 1 .. Len(toBrowser'[b])
      BY <1>5, <3>1
    <3>3. toBrowser'[b][k] = toBrowser[b][k]
      BY <1>5, <3>2
    <3> QED BY <3>1, <3>2, <3>3
  <2> HIDE DEF W, C, M, E
  <2>3. SUFFICES /\ \A q \in PendingOf(b)' :
                       LET x == queries'[q]
                       IN  W(x.ctx, x.req) \/ C(x.ctx, x.req, 0) \/ E(x.req)
                 /\ \A n \in 1 .. Len(toBrowser'[b]) :
                       LET x == toBrowser'[b][n]
                       IN  x.kind = "query" => W(x.ctx, x.req) \/ C(x.ctx, x.req, n) \/ M(x.req)
    BY DEF QueriesAwaited, Waiting, CancelBehind, Misled, Excused, UidOf, W, C, M, E
  <2>4. ASSUME NEW q \in PendingOf(b)
        PROVE  \/ W(queries[q].ctx, queries[q].req)
               \/ C(queries[q].ctx, queries[q].req, 0)
               \/ E(queries[q].req)
    <3>1. 0 \in 0 .. Len(toBrowser[b]) /\ 0 \in Nat
      BY <1>5
    <3>2. \/ Waiting(b, queries[q].ctx, queries[q].req)
          \/ CancelBehind(b, queries[q].ctx, queries[q].req, 0)
          \/ Excused(b, queries[q].req)
      BY DEF Linked, QueriesAwaited
    <3> QED BY <2>1, <2>2, <2>6, <3>1, <3>2
  <2>5. ASSUME NEW n \in 1 .. Len(toBrowser'[b]), toBrowser'[b][n].kind = "query"
        PROVE  \/ W(toBrowser'[b][n].ctx, toBrowser'[b][n].req)
               \/ C(toBrowser'[b][n].ctx, toBrowser'[b][n].req, n)
               \/ M(toBrowser'[b][n].req)
    <3>1. CASE P # {} /\ n = Len(toBrowser'[b])
      BY <1>3, <1>5, <2>5, <3>1
    <3>2. CASE ~(P # {} /\ n = Len(toBrowser'[b]))
      <4>1. /\ n \in 1 .. Len(toBrowser[b]) /\ n \in Nat /\ n \in 0 .. Len(toBrowser[b])
            /\ toBrowser'[b][n] = toBrowser[b][n]
        BY <1>5, <3>2
      <4>2. \/ Waiting(b, toBrowser[b][n].ctx, toBrowser[b][n].req)
            \/ CancelBehind(b, toBrowser[b][n].ctx, toBrowser[b][n].req, n)
            \/ Misled(b, toBrowser[b][n].req)
        BY <2>5, <4>1 DEF Linked, QueriesAwaited
      <4> QED BY <2>1, <2>2, <2>6, <4>1, <4>2
    <3> QED BY <3>1, <3>2
  <2> QED BY <1>1, <2>4, <2>5
<1>14. RequestsKept(b)'
  <2> SUFFICES ASSUME NEW j \in requests[b]
               PROVE  \/ \E x \in QueryMsgs(b)' : x.req = j.req
                      \/ \E q \in PendingOf(b)' : queries'[q].req = j.req
                      \/ \E a \in Answers(b)' : ForGood(a, j)
                      \/ UidOf(b, j.req)' \in dropped'
    BY <1>1 DEF RequestsKept
  <2>1. UidOf(b, j.req)' = UidOf(b, j.req)
    BY <1>1 DEF UidOf
  <2> QED BY <1>1, <1>6, <2>1 DEF Linked, RequestsKept
<1> QED BY <1>8, <1>9, <1>10, <1>11, <1>12, <1>13, <1>14 DEF Linked

(* An answer is applied: the request it ends is not pending any more, and  *)
(* is misled if it was not for it.                                         *)
Applies(b) ==
  LET a == Head(jsTasks[b])
  IN
  /\ jsTasks[b] # <<>> /\ jsTasks'[b] = Tail(jsTasks[b])
  /\ requests'[b] = {i \in requests[b] : ~ForGood(a, i)}
  /\ UNCHANGED <<toBrowser[b], toRenderer[b], ctx[b], lastCtx[b], lastReq[b], epoch[b],
                 queries, dropped, unheard>>
  /\ misled \subseteq misled'
  /\ a.epoch # epoch[b] =>
        \A i \in requests[b] : ForGood(a, i) => UidOf(b, i.req) \in misled'

LEMMA AppliesLinked ==
  ASSUME NEW b \in Browser, jsTasks[b] \in Seq(Answer), Applies(b), Linked(b)
  PROVE  Linked(b)'
<1> DEFINE a == Head(jsTasks[b])
<1>1. /\ jsTasks[b] # <<>> /\ jsTasks'[b] = Tail(jsTasks[b])
      /\ requests'[b] = {i \in requests[b] : ~ForGood(a, i)}
      /\ toBrowser'[b] = toBrowser[b] /\ toRenderer'[b] = toRenderer[b]
      /\ ctx'[b] = ctx[b] /\ lastCtx'[b] = lastCtx[b] /\ lastReq'[b] = lastReq[b]
      /\ epoch'[b] = epoch[b] /\ queries' = queries /\ dropped' = dropped
      /\ misled \subseteq misled' /\ unheard' = unheard
      /\ a.epoch # epoch[b] =>
            \A i \in requests[b] : ForGood(a, i) => UidOf(b, i.req) \in misled'
      /\ PendingOf(b)' = PendingOf(b)
      /\ QueryMsgs(b)' = QueryMsgs(b) /\ CancelMsgs(b)' = CancelMsgs(b)
  BY DEF Applies, PendingOf, QueryMsgs, CancelMsgs
<1>2. Answers(b) = Answers(b)' \cup (IF a.epoch = epoch[b] THEN {a} ELSE {})
  <2>1. Elements(jsTasks[b]) = {a} \cup Elements(jsTasks[b])'
    <3>1. Elements(jsTasks[b]) = {a} \cup Elements(Tail(jsTasks[b]))
      BY <1>1, ElementsOfTail
    <3> QED BY <1>1, <3>1 DEF Elements
  <2>2. Elements(toRenderer[b])' = Elements(toRenderer[b])
    BY <1>1 DEF Elements
  <2> QED BY <1>1, <2>1, <2>2 DEF Answers, Own
<1>3. a.epoch = epoch[b] => \A q \in PendingOf(b) :
         queries[q].req = a.req => a.success /\ queries[q].persistent
  BY <1>2 DEF Linked, AnswersMeant
<1>4. a.epoch = epoch[b] => \A x \in QueryMsgs(b) : x.req # a.req
  BY <1>2 DEF Linked, AnswersMeant
<1> HIDE DEF a
<1>5. IdsKnown(b)'
  BY <1>1, <1>2 DEF Linked, IdsKnown
<1>6. AskedOnce(b)'
  BY <1>1 DEF Linked, AskedOnce
<1>7. BothAgree(b)'
  BY <1>1 DEF Linked, BothAgree
<1>8. CancelsMeant(b)'
  BY <1>1 DEF Linked, CancelsMeant
<1>9. AnswersMeant(b)'
  BY <1>1, <1>2 DEF Linked, AnswersMeant
<1>10. QueriesAwaited(b)'
  <2> DEFINE W(u, v) == \E j \in requests'[b] : j.ctx = u /\ j.req = v
             M(r) == [browser |-> b, epoch |-> epoch'[b], req |-> r] \in misled'
             E(r) == [browser |-> b, epoch |-> epoch'[b], req |-> r] \in misled' \cup unheard'
  <2>0. \A r : (Misled(b, r) => M(r)) /\ (Excused(b, r) => E(r)) /\ (M(r) => E(r))
    BY <1>1 DEF Misled, Excused, UidOf
  <2>1. SUFFICES /\ \A q \in PendingOf(b) :
                       \/ W(queries[q].ctx, queries[q].req)
                       \/ CancelBehind(b, queries[q].ctx, queries[q].req, 0)
                       \/ E(queries[q].req)
                 /\ \A n \in 1 .. Len(toBrowser[b]) :
                       LET x == toBrowser[b][n]
                       IN  x.kind = "query" =>
                             \/ W(x.ctx, x.req)
                             \/ CancelBehind(b, x.ctx, x.req, n)
                             \/ M(x.req)
    <3>1. \A u, v : Waiting(b, u, v)' <=> W(u, v)
      BY DEF Waiting
    <3>2. \A u, v, k : CancelBehind(b, u, v, k)' <=> CancelBehind(b, u, v, k)
      BY <1>1 DEF CancelBehind
    <3>3. \A q : (queries[q].ctx)' = queries[q].ctx /\ (queries[q].req)' = queries[q].req
      BY <1>1
    <3>4. \A r : (Misled(b, r)' <=> M(r)) /\ (Excused(b, r)' <=> E(r))
      BY DEF Misled, Excused, UidOf
    <3> HIDE DEF W, M, E
    <3> QED BY <1>1, <3>1, <3>2, <3>3, <3>4 DEF QueriesAwaited
  <2>2. ASSUME NEW q \in PendingOf(b), Waiting(b, queries[q].ctx, queries[q].req)
        PROVE  W(queries[q].ctx, queries[q].req) \/ E(queries[q].req)
    <3>1. PICK j \in requests[b] : j.ctx = queries[q].ctx /\ j.req = queries[q].req
      BY <2>2 DEF Waiting
    <3>2. j.persistent = queries[q].persistent
      BY <3>1 DEF Linked, BothAgree, SameAs
    <3>3. a.epoch = epoch[b] => ~ForGood(a, j)
      BY <1>3, <3>1, <3>2 DEF ForGood, AnswerTo
    <3>4. UidOf(b, j.req) \in misled' => M(queries[q].req)
      BY <1>1, <3>1 DEF UidOf
    <3> HIDE DEF M, E
    <3> QED BY <1>1, <2>0, <3>1, <3>3, <3>4
  <2>3. ASSUME NEW n \in 1 .. Len(toBrowser[b]), toBrowser[b][n].kind = "query",
               Waiting(b, toBrowser[b][n].ctx, toBrowser[b][n].req)
        PROVE  W(toBrowser[b][n].ctx, toBrowser[b][n].req) \/ M(toBrowser[b][n].req)
    <3>1. PICK j \in requests[b] : j.ctx = toBrowser[b][n].ctx /\ j.req = toBrowser[b][n].req
      BY <2>3 DEF Waiting
    <3>2. a.epoch = epoch[b] => ~ForGood(a, j)
      BY <1>4, <2>3, <3>1 DEF QueryMsgs, Elements, ForGood, AnswerTo
    <3>3. UidOf(b, j.req) \in misled' => M(toBrowser[b][n].req)
      BY <1>1, <3>1 DEF UidOf
    <3> HIDE DEF M
    <3> QED BY <1>1, <3>1, <3>2, <3>3
  <2> HIDE DEF W, M, E
  <2> QED BY <2>0, <2>2, <2>3 DEF Linked, QueriesAwaited
<1>11. RequestsKept(b)'
  <2> SUFFICES ASSUME NEW j \in requests[b], ~ForGood(a, j)
               PROVE  \/ \E x \in QueryMsgs(b)' : x.req = j.req
                      \/ \E q \in PendingOf(b)' : queries'[q].req = j.req
                      \/ \E y \in Answers(b)' : ForGood(y, j)
                      \/ UidOf(b, j.req)' \in dropped'
    BY <1>1 DEF RequestsKept
  <2>1. UidOf(b, j.req)' = UidOf(b, j.req)
    BY <1>1 DEF UidOf
  <2> QED BY <1>1, <1>2, <2>1 DEF Linked, RequestsKept
<1> QED BY <1>5, <1>6, <1>7, <1>8, <1>9, <1>10, <1>11 DEF Linked

(* An answer arrives, and waits for its task.                              *)
Arrives(b) ==
  /\ Answers(b)' = Answers(b)
  /\ UNCHANGED <<toBrowser[b], ctx[b], lastCtx[b], lastReq[b], requests[b], epoch[b],
                 queries, dropped, misled, unheard>>

LEMMA ArrivesLinked ==
  ASSUME NEW b \in Browser, Arrives(b), Linked(b)
  PROVE  Linked(b)'
BY DEF Arrives, Linked, PendingOf, QueryMsgs, CancelMsgs, IdsKnown, AskedOnce, BothAgree,
       CancelsMeant, AnswersMeant, QueriesAwaited, Waiting, CancelBehind, Misled, Excused,
       RequestsKept, UidOf

-----------------------------------------------------------------------------
(* Which steps of the router do what to which browser.  An answer to a     *)
(* query of the living process is on its way at once: nothing is pending   *)
(* before its view is ready.                                               *)
Queues(b) ==
  \A a \in Elements(queued[b])' :
     \/ a \in Elements(queued[b])
     \/ a.epoch < epoch[b]
     \/ a.epoch = epoch[b] /\ PendingOf(b) # {}

LEMMA SendAllElements ==
  ASSUME TypeOK, NEW out \in [Browser -> Seq(Answer)], SendAll(out), NEW b \in Browser,
         epoch'[b] = epoch[b],
         proc[b] = "live" /\ queueing[b] => Own(b, out[b]) = {}
  PROVE  /\ Elements(queued[b])' = Elements(queued[b]) \cup
                                      (IF queueing[b] THEN Elements(out[b]) ELSE {})
         /\ proc[b] # "live" => toRenderer'[b] = toRenderer[b]
         /\ proc[b] = "live" =>
               Own(b, toRenderer[b])' = Own(b, toRenderer[b]) \cup Own(b, out[b])
<1> DEFINE r == toRenderer'[b]
           u == queued'[b]
<1>1. toRenderer[b] \in Seq(Answer) /\ queued[b] \in Seq(Answer) /\ out[b] \in Seq(Answer)
  BY DEF TypeOK, TransportTypeOK
<1>2. /\ Elements(toRenderer[b] \o out[b]) = Elements(toRenderer[b]) \cup Elements(out[b])
      /\ Elements(queued[b] \o out[b]) = Elements(queued[b]) \cup Elements(out[b])
  BY <1>1, ElementsOfConcat
<1>3. /\ u = IF queueing[b] THEN queued[b] \o out[b] ELSE queued[b]
      /\ r = IF ~queueing[b] /\ proc[b] = "live" THEN toRenderer[b] \o out[b]
             ELSE toRenderer[b]
  BY DEF SendAll
<1>4. /\ Elements(queued[b])' = Elements(u)
      /\ Own(b, toRenderer[b])' = {a \in Elements(r) : a.epoch = epoch[b]}
  BY DEF Elements, Own
<1> HIDE DEF r, u
<1>5. Elements(u) = Elements(queued[b]) \cup (IF queueing[b] THEN Elements(out[b]) ELSE {})
  BY <1>2, <1>3
<1>6. proc[b] # "live" => r = toRenderer[b]
  BY <1>3
<1>7. ASSUME proc[b] = "live"
      PROVE  {a \in Elements(r) : a.epoch = epoch[b]}
                = Own(b, toRenderer[b]) \cup Own(b, out[b])
  <2>1. CASE queueing[b]
    BY <1>3, <1>7, <2>1 DEF Own
  <2>2. CASE ~queueing[b]
    BY <1>2, <1>3, <1>7, <2>2 DEF Own
  <2> QED BY <2>1, <2>2
<1> QED BY <1>4, <1>5, <1>6, <1>7 DEF r

(* The answers CancelQuery sends.                                          *)
LEMMA FailuresElements ==
  ASSUME TypeOK, NEW Q \in SUBSET DOMAIN queries, NEW b \in Browser
  PROVE  Elements(Failures(Q)[b]) = {AnswerFor(q, FALSE) : q \in {p \in Q : QueryOf(b, p)}}
<1> DEFINE P == {q \in Q : QueryOf(b, q)}
           n == Cardinality(P)
           s == Ascending(P)
           t == [i \in DOMAIN s |-> AnswerFor(s[i], FALSE)]
<1>1. P \in SUBSET Nat /\ IsFiniteSet(P)
  <2>1. P \in SUBSET QueryId
    BY DEF TypeOK, BrowserSideTypeOK
  <2>2. IsFiniteSet(QueryId) /\ QueryId \subseteq Nat
    BY HandlerAssumption, FS_Interval DEF QueryId
  <2> QED BY <2>1, <2>2, FS_Subset
<1>2. /\ n \in Nat /\ s \in [1 .. n -> P]
      /\ \A q \in P : \E i \in 1 .. n : s[i] = q
  BY <1>1, AscendingProperties
<1>3. Failures(Q)[b] = t
  BY DEF Failures
<1> HIDE DEF n, s, P
<1>4. DOMAIN s = 1 .. n /\ Len(t) = n /\ \A i \in 1 .. n : t[i] = AnswerFor(s[i], FALSE)
  BY <1>2
<1> HIDE DEF t
<1>5. Elements(t) = {AnswerFor(q, FALSE) : q \in P}
  <2>1. Elements(t) = {t[i] : i \in 1 .. n}
    BY <1>4 DEF Elements
  <2>2. \A i \in 1 .. n : t[i] \in {AnswerFor(q, FALSE) : q \in P}
    BY <1>2, <1>4
  <2>3. ASSUME NEW q \in P PROVE AnswerFor(q, FALSE) \in {t[i] : i \in 1 .. n}
    <3>1. PICK i \in 1 .. n : s[i] = q
      BY <1>2
    <3> QED BY <1>4, <3>1
  <2> QED BY <2>1, <2>2, <2>3
<1> QED BY <1>3, <1>5 DEF P

HandlerSide(b) ==
  /\ Queues(b)
  /\ proc[b] # "live" => toRenderer'[b] = toRenderer[b]
  /\ proc[b] = "live" => Settles(b)

(* Nothing happens between a browser and its process.                      *)
LEMMA NothingHappens ==
  ASSUME NEW b \in Browser, queries' = queries,
         dropped \subseteq dropped', misled \subseteq misled', unheard \subseteq unheard',
         UNCHANGED <<proc[b], epoch[b], toBrowser[b], toRenderer[b], queued[b]>>,
         UNCHANGED <<ctx[b], lastCtx[b], lastReq[b], requests[b], jsTasks[b]>>
  PROVE  HandlerSide(b)
<1>1. PendingOf(b)' = PendingOf(b)
  BY DEF PendingOf
<1>2. /\ Elements(queued[b])' = Elements(queued[b])
      /\ Own(b, toRenderer[b])' = Own(b, toRenderer[b])
  BY DEF Elements, Own
<1>3. LeavesAnswered(b, {})
  BY <1>1, <1>2 DEF LeavesAnswered
<1>4. Settles(b)
  BY <1>1, <1>3 DEF Settles
<1> QED BY <1>2, <1>4 DEF HandlerSide, Queues

(* The answers to queries of a process are of that process.                *)
LEMMA OwnAnswers ==
  ASSUME TypeOK, EpochsPast, NEW Q \in SUBSET DOMAIN queries, NEW b \in Browser,
         NEW New,
         New = {AnswerFor(q, FALSE) : q \in {p \in Q : QueryOf(b, p)}}
  PROVE  /\ {a \in New : a.epoch = epoch[b]}
               = {AnswerFor(q, FALSE) : q \in Q \cap PendingOf(b)}
         /\ \A a \in New : \/ a.epoch < epoch[b]
                           \/ a.epoch = epoch[b] /\ PendingOf(b) # {}
<1>1. \A q \in Q : AnswerFor(q, FALSE).epoch = queries[q].epoch
  BY DEF AnswerFor, AnswerMsg
<1>2. \A q \in {p \in Q : QueryOf(b, p)} :
         \/ queries[q].epoch < epoch[b]
         \/ queries[q].epoch = epoch[b] /\ q \in PendingOf(b)
  <2>1. \A q \in DOMAIN queries : queries[q].epoch \in Int
    BY BoundsAssumption DEF TypeOK, BrowserSideTypeOK, QueryInfo, Epoch
  <2>2. epoch[b] \in Int
    BY BoundsAssumption DEF TypeOK, TransportTypeOK
  <2> QED BY <2>1, <2>2 DEF EpochsPast, QueriesPast, QueryOf, PendingOf
<1>3. \A q \in Q : q \in PendingOf(b) <=> QueryOf(b, q) /\ queries[q].epoch = epoch[b]
  BY DEF PendingOf, QueryOf
<1>4. \A a \in New : \E q \in Q : QueryOf(b, q) /\ a = AnswerFor(q, FALSE)
  OBVIOUS
<1>5. \A q \in Q : QueryOf(b, q) => AnswerFor(q, FALSE) \in New
  OBVIOUS
<1>6. ASSUME NEW a \in New
      PROVE  a.epoch < epoch[b] \/ (a.epoch = epoch[b] /\ PendingOf(b) # {})
  <2>1. PICK q \in Q : QueryOf(b, q) /\ a = AnswerFor(q, FALSE)
    BY <1>4
  <2> QED BY <1>1, <1>2, <2>1
<1>7. ASSUME NEW a \in New, a.epoch = epoch[b]
      PROVE  a \in {AnswerFor(q, FALSE) : q \in Q \cap PendingOf(b)}
  <2>1. PICK q \in Q : QueryOf(b, q) /\ a = AnswerFor(q, FALSE)
    BY <1>4
  <2>2. q \in Q \cap PendingOf(b)
    BY <1>1, <1>3, <1>7, <2>1
  <2> QED BY <2>1, <2>2
<1>8. ASSUME NEW q \in Q \cap PendingOf(b)
      PROVE  AnswerFor(q, FALSE) \in New /\ AnswerFor(q, FALSE).epoch = epoch[b]
  <2>1. q \in Q /\ QueryOf(b, q) /\ queries[q].epoch = epoch[b]
    BY <1>3
  <2> QED BY <1>1, <1>5, <2>1
<1>9. {a \in New : a.epoch = epoch[b]} \subseteq {AnswerFor(q, FALSE) : q \in Q \cap PendingOf(b)}
  BY <1>7
<1>10. {AnswerFor(q, FALSE) : q \in Q \cap PendingOf(b)} \subseteq {a \in New : a.epoch = epoch[b]}
  BY <1>8
<1>11. \A a \in New : a.epoch < epoch[b] \/ (a.epoch = epoch[b] /\ PendingOf(b) # {})
  BY <1>6
<1>12. {a \in New : a.epoch = epoch[b]} = {AnswerFor(q, FALSE) : q \in Q \cap PendingOf(b)}
  BY <1>9, <1>10
<1> QED BY <1>11, <1>12

LEMMA CancelPendingForSettles ==
  ASSUME TypeOK, NothingQueued, EpochsPast, NEW B, NEW H, CancelPendingFor(B, H),
         UNCHANGED <<proc, epoch, toBrowser, unheard, rendererSideVars>>, NEW b \in Browser
  PROVE  HandlerSide(b)
<1> DEFINE Q == Matching(B, H)
           P == Q \cap PendingOf(b)
           out == Failures(Q)[b]
           New == Own(b, out)
<1>1. /\ CancelQueries(Q) /\ SendAll(Failures(Q)) /\ dropped' = dropped
      /\ Q \in SUBSET DOMAIN queries
  BY DEF CancelPendingFor, Matching
<1>2. Failures(Q) \in [Browser -> Seq(Answer)]
  BY <1>1, FailuresType DEF TypeOK
<1> HIDE DEF Q
<1>3. /\ New = {AnswerFor(q, FALSE) : q \in P}
      /\ \A a \in Elements(out) : \/ a.epoch < epoch[b]
                                  \/ a.epoch = epoch[b] /\ PendingOf(b) # {}
  <2>1. Elements(out) = {AnswerFor(q, FALSE) : q \in {p \in Q : QueryOf(b, p)}}
    BY <1>1, FailuresElements
  <2> DEFINE all == Elements(out)
  <2> HIDE DEF out
  <2>2. /\ {a \in all : a.epoch = epoch[b]} = {AnswerFor(q, FALSE) : q \in Q \cap PendingOf(b)}
        /\ \A a \in all : \/ a.epoch < epoch[b]
                          \/ a.epoch = epoch[b] /\ PendingOf(b) # {}
    <3> HIDE DEF all
    <3> QED BY <1>1, <2>1, OwnAnswers DEF all
  <2> QED BY <2>2 DEF Own
<1>4. P \subseteq PendingOf(b) /\ PendingOf(b)' = PendingOf(b) \ P
  BY <1>1 DEF CancelQueries, Without, PendingOf
<1> HIDE DEF P, out
<1>5. proc[b] = "live" /\ queueing[b] => New = {}
  BY <1>3, <1>4 DEF NothingQueued
<1>6. /\ Elements(queued[b])' = Elements(queued[b]) \cup
                                   (IF queueing[b] THEN Elements(out) ELSE {})
      /\ proc[b] # "live" => toRenderer'[b] = toRenderer[b]
      /\ proc[b] = "live" => Own(b, toRenderer[b])' = Own(b, toRenderer[b]) \cup New
  BY <1>1, <1>2, <1>5, SendAllElements DEF out
<1>7. \A q \in P : ForGood(AnswerFor(q, FALSE), queries[q])
  BY DEF ForGood, AnswerTo, AnswerFor, AnswerMsg
<1> HIDE DEF New
<1>8. proc[b] = "live" => LeavesAnswered(b, New)
  BY <1>1, <1>3, <1>4, <1>6, <1>7 DEF LeavesAnswered, rendererSideVars
<1>9. \A a \in New : AnswersOneOf(b, a)
  BY <1>3, <1>4, <1>7 DEF AnswersOneOf, ForGood
<1>10. \A q \in PendingOf(b)' : q \in PendingOf(b) /\ queries'[q] = queries[q]
  BY <1>1, <1>4 DEF CancelQueries, Without, PendingOf
<1>11. Queues(b)
  BY <1>3, <1>6 DEF Queues
<1> QED BY <1>6, <1>8, <1>9, <1>10, <1>11 DEF HandlerSide, Settles

LEMMA DeliverSettles ==
  ASSUME TypeOK, NothingQueued, EpochsPast, NEW q, NEW success \in BOOLEAN, Deliver(q, success),
         UNCHANGED <<proc, epoch, toBrowser, dropped, unheard, rendererSideVars>>,
         NEW b \in Browser
  PROVE  HandlerSide(b)
<1>1. CASE q \notin DOMAIN queries
  BY <1>1, NothingHappens DEF Deliver, rendererSideVars
<1>2. CASE q \in DOMAIN queries
  <2> DEFINE a == AnswerFor(q, success)
             t == <<a>>
             c == queries[q].browser
             out == To(c, t)[b]
             New == Own(b, out)
  <2>1. a \in Answer /\ c \in Browser
    BY <1>2, AnswerForType DEF TypeOK, BrowserSideTypeOK, QueryInfo
  <2>2. AnswerTo(a, queries[q]) /\ a.success = success /\ a.epoch = queries[q].epoch
    BY DEF AnswerTo, AnswerFor, AnswerMsg
  <2>3. b = c /\ queries[q].epoch = epoch[b] <=> q \in PendingOf(b)
    BY <1>2 DEF PendingOf
  <2>4. b = c => \/ queries[q].epoch < epoch[b]
                 \/ queries[q].epoch = epoch[b] /\ q \in PendingOf(b)
    <3>1. queries[q].epoch \in Int /\ epoch[b] \in Int
      BY <1>2, BoundsAssumption
      DEF TypeOK, BrowserSideTypeOK, TransportTypeOK, QueryInfo, Epoch
    <3> QED BY <1>2, <2>3, <3>1 DEF EpochsPast, QueriesPast
  <2>5. SendAll(To(c, t))
    BY <1>2 DEF Deliver
  <2>6. queries' = IF success /\ queries[q].persistent THEN queries ELSE Without({q})
    BY <1>2 DEF Deliver
  <2> HIDE DEF a, c
  <2>7. t \in Seq(Answer) /\ Elements(t) = {a} /\ Elements(<<>>) = {}
    BY <2>1, ElementsOfOne
  <2> HIDE DEF t
  <2>8. To(c, t) \in [Browser -> Seq(Answer)] /\ out = IF b = c THEN t ELSE <<>>
    BY <2>1, <2>7, ToType DEF To
  <2>9. Elements(out) = IF b = c THEN {a} ELSE {}
    BY <2>7, <2>8
  <2> HIDE DEF out
  <2>10. New = IF q \in PendingOf(b) THEN {a} ELSE {}
    BY <2>2, <2>3, <2>9 DEF Own
  <2>11. proc[b] = "live" /\ queueing[b] => New = {}
    BY <2>10 DEF NothingQueued
  <2>12. /\ Elements(queued[b])' = Elements(queued[b]) \cup
                                      (IF queueing[b] THEN Elements(out) ELSE {})
         /\ proc[b] # "live" => toRenderer'[b] = toRenderer[b]
         /\ proc[b] = "live" => Own(b, toRenderer[b])' = Own(b, toRenderer[b]) \cup New
    BY <2>5, <2>8, <2>11, SendAllElements DEF out
  <2>13. PendingOf(b)' = IF success /\ queries[q].persistent THEN PendingOf(b) ELSE PendingOf(b) \ {q}
    BY <2>6 DEF Without, PendingOf
  <2>14. \A p \in PendingOf(b)' : p \in PendingOf(b) /\ queries'[p] = queries[p]
    BY <2>6, <2>13 DEF Without, PendingOf
  <2> HIDE DEF New
  <2>15. proc[b] = "live" => LeavesAnswered(b, New)
    BY <2>2, <2>10, <2>12, <2>13 DEF LeavesAnswered, ForGood, rendererSideVars
  <2>16. \A x \in New : AnswersOneOf(b, x)
    BY <2>2, <2>10, <2>13 DEF AnswersOneOf
  <2>17. Queues(b)
    BY <2>2, <2>4, <2>9, <2>12 DEF Queues
  <2> QED BY <2>12, <2>14, <2>15, <2>16, <2>17 DEF HandlerSide, Settles
<1> QED BY <1>1, <1>2

LEMMA HandlerSideSteps ==
  ASSUME TypeOK, NothingQueued, EpochsPast, HandlerStep \/ UiTaskStep
  PROVE  /\ \A b \in Browser : HandlerSide(b)
         /\ UNCHANGED <<proc, epoch, toBrowser, queueing, unheard, rendererSideVars, nextQueryId>>
<1>1. UNCHANGED <<proc, epoch, toBrowser, queueing, unheard, rendererSideVars, nextQueryId>>
  BY DEF HandlerStep, AddHandler, RemoveHandler, CancelPending, CancelPendingOffUI, Succeed,
         Fail, AnswerOffUI, CallbackUnchanged, UiTaskStep, RunSuccess, RunFailure,
         RunCancelPending, OnCallbackSuccess, OnCallbackFailure, DeliverUnchanged, transportVars
<1>2. SUFFICES ASSUME NEW b \in Browser PROVE HandlerSide(b)
  BY <1>1
<1>3. ASSUME UNCHANGED <<queries, dropped, transportVars>> PROVE HandlerSide(b)
  BY <1>1, <1>3, NothingHappens DEF transportVars, rendererSideVars
<1>4. ASSUME NEW B, NEW H, CancelPendingFor(B, H) PROVE HandlerSide(b)
  BY <1>1, <1>4, CancelPendingForSettles
<1>5. CASE \E h \in Handler : AddHandler(h) \/ RemoveHandler(h)
  BY <1>3, <1>4, <1>5 DEF AddHandler, RemoveHandler
<1>6. CASE \E B, H : CancelPending(B, H) \/ CancelPendingOffUI(B, H)
  BY <1>3, <1>4, <1>6 DEF CancelPending, CancelPendingOffUI
<1>7. CASE \E q \in DOMAIN queries :
              Succeed(q) \/ Fail(q) \/ \E op \in {"Success", "Failure"} : AnswerOffUI(q, op)
  BY <1>3, <1>7 DEF Succeed, Fail, AnswerOffUI, CallbackUnchanged
<1>8. CASE RunSuccess \/ RunFailure
  BY <1>3, <1>8 DEF RunSuccess, RunFailure, CallbackUnchanged
<1>9. CASE RunCancelPending
  BY <1>4, <1>9 DEF RunCancelPending
<1>10. CASE OnCallbackSuccess \/ OnCallbackFailure
  BY <1>1, <1>10, DeliverSettles DEF OnCallbackSuccess, OnCallbackFailure, DeliverUnchanged
<1> QED BY <1>5, <1>6, <1>7, <1>8, <1>9, <1>10 DEF HandlerStep, UiTaskStep

(* A query of the living process becomes pending or is failed; one of a    *)
(* process left behind means nothing to it.                                *)
LEMMA TakeQueryAdopts ==
  ASSUME TypeInv, NothingQueued, EpochsPast, IdsAscend,
         NEW c \in Browser, NEW e \in Epoch, NEW m \in Request, m.kind = "query",
         NEW unguarded, NEW taker, NEW removed,
         TakeQuery(c, e, m, unguarded, taker, removed),
         e <= epoch[c], e = epoch[c] => ~queueing[c],
         UNCHANGED rendererSideVars, NEW b \in Browser
  PROVE  /\ Queues(b)
         /\ proc[b] # "live" => toRenderer'[b] = toRenderer[b]
         /\ proc[b] = "live" => IF b = c /\ e = epoch[c]
                                THEN Adopts(b, nextQueryId, m)
                                ELSE toBrowser'[b] = toBrowser[b] => Settles(b)
<1> DEFINE gone == Matching(Browser, removed)
           P == gone \cap PendingOf(b)
           taken == taker \in handlers
           own == b = c /\ e = epoch[c]
           unhandled == AnswerMsg(e, m.ctx, m.req, FALSE)
           one == <<unhandled>>
           fails == Failures(gone)
           out == IF taken THEN fails ELSE [fails EXCEPT ![c] = @ \o one]
           New == Own(b, out[b])
<1>2. /\ UNCHANGED <<proc, epoch, queueing, dropped, unheard>>
      /\ handlers # {} => nextQueryId <= MaxQueries
  BY DEF TakeQuery
<1>3. gone \in SUBSET DOMAIN queries /\ fails \in [Browser -> Seq(Answer)]
  <2>1. gone \in SUBSET DOMAIN queries
    BY DEF Matching
  <2> QED BY <2>1, FailuresType DEF TypeInv, TypeOK
<1>4. SendAll(out)
  BY DEF TakeQuery, CancelUnhandledQuery
<1>5. nextQueryId \notin DOMAIN queries
  BY DEF IdsAscend, TypeInv, TypeOK, BrowserSideTypeOK, QueryId
<1>6. IF taken
      THEN queries' = [q \in (DOMAIN queries \ gone) \cup {nextQueryId} |->
                         IF q = nextQueryId
                         THEN [browser |-> c, epoch |-> e, ctx |-> m.ctx, req |-> m.req,
                               persistent |-> m.persistent, handler |-> taker,
                               unguarded |-> unguarded]
                         ELSE queries[q]]
      ELSE queries' = Without(gone)
  BY DEF TakeQuery, CancelQueries
<1> HIDE DEF gone
<1>7. /\ P \subseteq PendingOf(b) /\ nextQueryId \notin PendingOf(b)
      /\ PendingOf(b)' = (PendingOf(b) \ P) \cup (IF taken /\ own THEN {nextQueryId} ELSE {})
      /\ \A q \in PendingOf(b) \ P : queries'[q] = queries[q]
      /\ taken => /\ queries'[nextQueryId].req = m.req /\ queries'[nextQueryId].ctx = m.ctx
                  /\ queries'[nextQueryId].persistent = m.persistent
  <2>1. CASE taken
    BY <1>2, <1>3, <1>5, <1>6, <2>1 DEF PendingOf
  <2>2. CASE ~taken
    BY <1>2, <1>3, <1>5, <1>6, <2>2 DEF PendingOf, Without
  <2> QED BY <2>1, <2>2
<1>8. /\ unhandled \in Answer /\ AnswerTo(unhandled, m) /\ ~unhandled.success
      /\ unhandled.epoch = e
  BY DEF AnswerMsg, Answer, AnswerTo, Request
<1> HIDE DEF unhandled
<1>9. one \in Seq(Answer) /\ Elements(one) = {unhandled}
  BY <1>8, ElementsOfOne
<1> HIDE DEF one, fails
<1>10. out \in [Browser -> Seq(Answer)]
  BY <1>3, <1>9, ConcatProperties
<1>11. Elements(fails[b]) = {AnswerFor(q, FALSE) : q \in {p \in gone : QueryOf(b, p)}}
  BY <1>3, FailuresElements DEF TypeInv, fails
<1>12. /\ Own(b, fails[b]) = {AnswerFor(q, FALSE) : q \in P}
       /\ \A a \in Elements(fails[b]) : \/ a.epoch < epoch[b]
                                        \/ a.epoch = epoch[b] /\ PendingOf(b) # {}
  <2> DEFINE all == Elements(fails[b])
  <2>1. /\ {a \in all : a.epoch = epoch[b]}
              = {AnswerFor(q, FALSE) : q \in gone \cap PendingOf(b)}
        /\ \A a \in all : \/ a.epoch < epoch[b]
                          \/ a.epoch = epoch[b] /\ PendingOf(b) # {}
    <3> HIDE DEF all
    <3> QED BY <1>3, <1>11, OwnAnswers DEF all, TypeInv
  <2> QED BY <2>1 DEF Own
<1>13. Elements(out[b]) = Elements(fails[b]) \cup (IF ~taken /\ b = c THEN {unhandled} ELSE {})
  <2>1. CASE ~taken /\ b = c
    <3>1. out[b] = fails[b] \o one
      BY <1>3, <2>1
    <3>2. fails[b] \in Seq(Answer)
      BY <1>3
    <3>3. Elements(fails[b] \o one) = Elements(fails[b]) \cup Elements(one)
      BY <1>9, <3>2, ElementsOfConcat
    <3> HIDE DEF out
    <3> QED BY <1>9, <2>1, <3>1, <3>3
  <2>2. CASE ~(~taken /\ b = c)
    <3>1. out[b] = fails[b]
      BY <1>3, <2>2
    <3> QED BY <2>2, <3>1
  <2> QED BY <2>1, <2>2
<1> HIDE DEF out
<1>14. New = {AnswerFor(q, FALSE) : q \in P} \cup (IF ~taken /\ own THEN {unhandled} ELSE {})
  <2>1. New = Own(b, fails[b]) \cup (IF ~taken /\ own THEN {unhandled} ELSE {})
    BY <1>8, <1>13 DEF Own
  <2> QED BY <1>12, <2>1
<1>15. proc[b] = "live" /\ queueing[b] => New = {}
  BY <1>7, <1>14 DEF NothingQueued
<1>16. \A q \in P : ForGood(AnswerFor(q, FALSE), queries[q])
  BY DEF ForGood, AnswerTo, AnswerFor, AnswerMsg
<1>17. /\ Elements(queued[b])' = Elements(queued[b]) \cup
                                    (IF queueing[b] THEN Elements(out[b]) ELSE {})
       /\ proc[b] # "live" => toRenderer'[b] = toRenderer[b]
       /\ proc[b] = "live" => Own(b, toRenderer[b])' = Own(b, toRenderer[b]) \cup New
  BY <1>2, <1>4, <1>10, <1>15, SendAllElements DEF TypeInv
<1>18. Queues(b)
  <2>1. epoch[c] \in Int /\ e \in Int
    BY BoundsAssumption DEF TypeInv, TypeOK, TransportTypeOK, Epoch
  <2>2. queueing[b] /\ b = c => e < epoch[b]
    BY <2>1
  <2> QED BY <1>8, <1>12, <1>13, <1>17, <2>2 DEF Queues
<1> HIDE DEF New, P, taken
<1>19. proc[b] = "live" => LeavesAnswered(b, New)
  <2>1. /\ proc'[b] = proc[b] /\ epoch'[b] = epoch[b] /\ dropped \subseteq dropped'
        /\ misled \subseteq misled' /\ unheard \subseteq unheard'
        /\ UNCHANGED <<ctx[b], lastCtx[b], lastReq[b], requests[b], jsTasks[b]>>
    BY <1>2 DEF rendererSideVars
  <2>2. \A q \in PendingOf(b) : q \notin PendingOf(b)' => \E a \in New : ForGood(a, queries[q])
    BY <1>7, <1>14, <1>16
  <2> QED BY <1>17, <2>1, <2>2 DEF LeavesAnswered
<1>20. \A q \in P : AnswersOneOf(b, AnswerFor(q, FALSE))
  <2>1. \A q \in P : q \notin PendingOf(b)'
    BY <1>7
  <2> QED BY <1>7, <1>16, <2>1 DEF AnswersOneOf, ForGood
<1>21. CASE ~own
  <2>1. \A a \in New : AnswersOneOf(b, a)
    BY <1>14, <1>20, <1>21
  <2>2. \A q \in PendingOf(b)' : q \in PendingOf(b) /\ queries'[q] = queries[q]
    BY <1>7, <1>21
  <2>3. proc[b] = "live" /\ toBrowser'[b] = toBrowser[b] => Settles(b)
    BY <1>19, <2>1, <2>2 DEF Settles
  <2> QED BY <1>17, <1>18, <1>21, <2>3
<1>22. CASE own
  <2> SUFFICES ASSUME proc[b] = "live" PROVE Adopts(b, nextQueryId, m)
    BY <1>17, <1>18, <1>22
  <2>1. \A q \in PendingOf(b)' :
          \/ q \in PendingOf(b) /\ queries'[q] = queries[q]
          \/ /\ q = nextQueryId /\ queries'[q].req = m.req /\ queries'[q].ctx = m.ctx
             /\ queries'[q].persistent = m.persistent
    BY <1>7
  <2>2. nextQueryId \in PendingOf(b)' \/ \E a \in New : AnswerTo(a, m) /\ ~a.success
    BY <1>7, <1>8, <1>14, <1>22
  <2>3. \A a \in New :
           AnswersOneOf(b, a) \/ (AnswerTo(a, m) /\ nextQueryId \notin PendingOf(b)')
    BY <1>7, <1>8, <1>14, <1>20
  <2> QED BY <1>7, <1>19, <2>1, <2>2, <2>3 DEF Adopts
<1> QED BY <1>21, <1>22

LEMMA ReceiveQueryTakes ==
  ASSUME TypeInv, NothingQueued, EpochsPast, IdsAscend, NEW c \in Browser,
         NEW unguarded, NEW taker, NEW removed,
         ReceiveQuery(c, unguarded, taker, removed), UNCHANGED rendererSideVars,
         NEW b \in Browser
  PROVE  IF b = c
         THEN /\ Queues(b)
              /\ proc[b] # "live" => toRenderer'[b] = toRenderer[b]
              /\ proc[b] = "live" => Takes(b, nextQueryId)
         ELSE HandlerSide(b)
<1> DEFINE m == Head(toBrowser[c])
<1>1. /\ m \in Request /\ m.kind = "query" /\ toBrowser[c] # <<>> /\ ~queueing[c]
      /\ epoch[c] \in Epoch /\ epoch[c] <= epoch[c]
  BY ArrivedType, BoundsAssumption DEF ReceiveQuery, Arrived, Epoch
<1>2. /\ toBrowser'[c] = Tail(toBrowser[c])
      /\ b # c => toBrowser'[b] = toBrowser[b]
      /\ TakeQuery(c, epoch[c], m, unguarded, taker, removed)
  BY DEF ReceiveQuery, TypeInv, TypeOK, TransportTypeOK
<1> HIDE DEF m
<1>3. /\ Queues(b)
      /\ proc[b] # "live" => toRenderer'[b] = toRenderer[b]
      /\ proc[b] = "live" => IF b = c THEN Adopts(b, nextQueryId, m)
                             ELSE toBrowser'[b] = toBrowser[b] => Settles(b)
  BY <1>1, <1>2, TakeQueryAdopts
<1> QED BY <1>1, <1>2, <1>3 DEF HandlerSide, Takes, m

LEMMA ReceiveLateQuerySettles ==
  ASSUME TypeInv, NothingQueued, EpochsPast, IdsAscend, NEW c \in Browser, NEW e \in Epoch,
         NEW taker, NEW removed, ReceiveLateQuery(c, e, taker, removed),
         UNCHANGED rendererSideVars, NEW b \in Browser
  PROVE  HandlerSide(b)
<1> DEFINE m == Head(late[c][e])
<1>1. /\ m \in Request /\ m.kind = "query" /\ e < epoch[c]
      /\ e <= epoch[c] /\ e # epoch[c]
  <2>1. m \in Request /\ m.kind = "query" /\ e < epoch[c]
    BY LateArrivedType DEF ReceiveLateQuery
  <2>2. e \in Int /\ epoch[c] \in Int
    BY BoundsAssumption DEF Epoch, TypeInv, TypeOK, TransportTypeOK
  <2> QED BY <2>1, <2>2
<1>2. UNCHANGED toBrowser /\ \E u : TakeQuery(c, e, m, u, taker, removed)
  BY DEF ReceiveLateQuery
<1> HIDE DEF m
<1>3. PICK u : TakeQuery(c, e, m, u, taker, removed)
  BY <1>2
<1>4. /\ Queues(b)
      /\ proc[b] # "live" => toRenderer'[b] = toRenderer[b]
      /\ proc[b] = "live" => (toBrowser'[b] = toBrowser[b] => Settles(b))
  BY <1>1, <1>3, TakeQueryAdopts
<1> QED BY <1>2, <1>4 DEF HandlerSide

(* A cancel of process e: it may end queries of other processes.           *)
LEMMA CancelHits ==
  ASSUME TypeInv, NEW c \in Browser, NEW e, NEW x, NEW r, CancelPendingRequest(c, e, x, r),
         NEW b \in Browser
  PROVE  /\ \A q \in PendingOf(b)' : q \in PendingOf(b) /\ queries'[q] = queries[q]
         /\ dropped \subseteq dropped' /\ unheard \subseteq unheard'
         /\ UNCHANGED <<proc, epoch, toRenderer, queued>>
         /\ \A q \in PendingOf(b) : q \notin PendingOf(b)' =>
               /\ b = c /\ queries[q].ctx = x /\ r \in {kReservedId, queries[q].req}
               /\ e # epoch[b] => UidOf(b, queries[q].req) \in dropped'
         /\ b = c /\ e = epoch[b] => \A q \in PendingOf(b)' :
               \/ ~(queries[q].ctx = x /\ r \in {kReservedId, queries[q].req})
               \/ UidOf(b, queries[q].req) \in unheard'
<1> DEFINE Q   == Canceled(c, x, r)
           hit == IF r = kReservedId THEN Q ELSE {q \in Q : \A p \in Q : q <= p}
<1>1. /\ CancelQueries(hit)
      /\ dropped' = dropped \cup {UidOfQuery(q) : q \in {p \in hit : queries[p].epoch # e}}
      /\ unheard' = unheard \cup {UidOfQuery(q) : q \in {p \in Q \ hit : queries[p].epoch = e}}
      /\ UNCHANGED <<proc, epoch, toRenderer, queued>>
  BY DEF CancelPendingRequest
<1>2. hit \subseteq Q
  OBVIOUS
<1>3. Q = {q \in DOMAIN queries : /\ queries[q].browser = c /\ queries[q].ctx = x
                                  /\ r \in {kReservedId, queries[q].req}}
  BY DEF Canceled
<1> HIDE DEF hit, Q
<1>4. PendingOf(b)' = PendingOf(b) \ hit /\ \A q \in PendingOf(b)' : queries'[q] = queries[q]
  BY <1>1 DEF CancelQueries, Without, PendingOf
<1>5. \A q \in PendingOf(b) : /\ UidOfQuery(q) = UidOf(b, queries[q].req)
                              /\ queries[q].epoch = epoch[b] /\ queries[q].browser = b
                              /\ q \in DOMAIN queries
  BY DEF PendingOf, UidOfQuery, UidOf
<1>6. ASSUME NEW q \in PendingOf(b), q \notin PendingOf(b)'
      PROVE  /\ b = c /\ queries[q].ctx = x /\ r \in {kReservedId, queries[q].req}
             /\ e # epoch[b] => UidOf(b, queries[q].req) \in dropped'
  <2>1. q \in hit /\ q \in Q
    BY <1>2, <1>4, <1>6
  <2>2. e # epoch[b] => UidOfQuery(q) \in dropped'
    BY <1>1, <1>5, <2>1
  <2> QED BY <1>3, <1>5, <2>1, <2>2
<1>7. ASSUME b = c, e = epoch[b], NEW q \in PendingOf(b)',
             queries[q].ctx = x, r \in {kReservedId, queries[q].req}
      PROVE  UidOf(b, queries[q].req) \in unheard'
  <2>1. q \in PendingOf(b) /\ q \notin hit
    BY <1>4
  <2>2. q \in Q
    BY <1>3, <1>5, <1>7, <2>1
  <2>3. UidOfQuery(q) \in unheard'
    BY <1>1, <1>5, <1>7, <2>1, <2>2
  <2> QED BY <1>5, <2>1, <2>3
<1> QED BY <1>1, <1>4, <1>6, <1>7

LEMMA SameElements ==
  ASSUME NEW b, UNCHANGED <<epoch, toRenderer, queued>>
  PROVE  /\ Elements(queued[b])' = Elements(queued[b])
         /\ Own(b, toRenderer[b])' = Own(b, toRenderer[b])
BY DEF Elements, Own

(* For a process that did not send it, it only drops what it hits.         *)
LEMMA CancelOfAnother ==
  ASSUME TypeInv, NEW c \in Browser, NEW e, NEW x, NEW r, CancelPendingRequest(c, e, x, r),
         UNCHANGED rendererSideVars, NEW b \in Browser, toBrowser'[b] = toBrowser[b],
         b # c \/ e # epoch[b]
  PROVE  HandlerSide(b)
<1>1. /\ \A q \in PendingOf(b)' : q \in PendingOf(b) /\ queries'[q] = queries[q]
      /\ dropped \subseteq dropped' /\ unheard \subseteq unheard'
      /\ UNCHANGED <<proc, epoch, toRenderer, queued>>
      /\ \A q \in PendingOf(b) : q \notin PendingOf(b)' => UidOf(b, queries[q].req) \in dropped'
  BY CancelHits
<1>2. /\ Elements(queued[b])' = Elements(queued[b])
      /\ Own(b, toRenderer[b])' = Own(b, toRenderer[b])
  BY <1>1, SameElements
<1>3. LeavesAnswered(b, {})
  BY <1>1, <1>2 DEF LeavesAnswered, rendererSideVars
<1>4. Settles(b)
  BY <1>1, <1>3 DEF Settles
<1> QED BY <1>1, <1>2, <1>4 DEF HandlerSide, Queues

LEMMA ReceiveCancelCancels ==
  ASSUME TypeInv, NEW c \in Browser, ReceiveCancel(c), UNCHANGED rendererSideVars,
         NEW b \in Browser
  PROVE  IF b = c
         THEN /\ Queues(b)
              /\ proc[b] # "live" => toRenderer'[b] = toRenderer[b]
              /\ proc[b] = "live" => Cancels(b)
         ELSE HandlerSide(b)
<1> DEFINE m == Head(toBrowser[c])
<1>1. /\ m.kind = "cancel" /\ toBrowser[c] # <<>>
      /\ toBrowser'[c] = Tail(toBrowser[c])
      /\ b # c => toBrowser'[b] = toBrowser[b]
      /\ CancelPendingRequest(c, epoch[c], m.ctx, m.req)
  BY DEF ReceiveCancel, Arrived, TypeInv, TypeOK, TransportTypeOK
<1>2. CASE b # c
  BY <1>1, <1>2, CancelOfAnother
<1>3. CASE b = c
  <2>1. /\ \A q \in PendingOf(b)' : q \in PendingOf(b) /\ queries'[q] = queries[q]
        /\ dropped \subseteq dropped' /\ unheard \subseteq unheard'
        /\ UNCHANGED <<proc, epoch, toRenderer, queued>>
        /\ \A q \in PendingOf(b) : q \in PendingOf(b)' \/ Means(m, queries[q])
        /\ \A q \in PendingOf(b)' :
              ~Means(m, queries[q]) \/ UidOf(b, queries[q].req) \in unheard'
    <3> HIDE DEF m
    <3> QED BY <1>1, <1>3, CancelHits DEF Means
  <2>2. Queues(b)
    BY <2>1, SameElements DEF Queues
  <2> QED BY <1>1, <1>3, <2>1, <2>2 DEF Cancels, rendererSideVars
<1> QED BY <1>2, <1>3

LEMMA ReceiveLateCancelSettles ==
  ASSUME TypeInv, NEW c \in Browser, NEW e \in Epoch, ReceiveLateCancel(c, e),
         UNCHANGED rendererSideVars, NEW b \in Browser
  PROVE  HandlerSide(b)
<1>1. e < epoch[c] /\ e # epoch[c]
  <2>1. e < epoch[c]
    BY LateArrivedType DEF ReceiveLateCancel
  <2>2. e \in Int /\ epoch[c] \in Int
    BY BoundsAssumption DEF Epoch, TypeInv, TypeOK, TransportTypeOK
  <2> QED BY <2>1, <2>2
<1>2. /\ UNCHANGED toBrowser
      /\ \E x, r : CancelPendingRequest(c, e, x, r)
  BY DEF ReceiveLateCancel
<1> QED BY <1>1, <1>2, CancelOfAnother

(* A navigation, or the end of a process or a browser: what is canceled    *)
(* silently is dropped.                                                    *)
LEMMA CancelSilentlySettles ==
  ASSUME NEW c \in Browser, CancelSilently({c}), NEW b \in Browser,
         misled \subseteq misled', unheard \subseteq unheard',
         UNCHANGED <<proc[b], epoch[b], toBrowser[b], toRenderer[b], queued[b]>>,
         UNCHANGED <<ctx[b], lastCtx[b], lastReq[b], requests[b], jsTasks[b]>>
  PROVE  HandlerSide(b)
<1>1. /\ CancelQueries(Matching({c}, Handler))
      /\ dropped' = dropped \cup {UidOfQuery(q) : q \in Matching({c}, Handler)}
  BY DEF CancelSilently
<1>2. /\ \A q \in PendingOf(b)' : q \in PendingOf(b) /\ queries'[q] = queries[q]
      /\ \A q \in PendingOf(b) : q \notin PendingOf(b)' => UidOfQuery(q) \in dropped'
  BY <1>1 DEF CancelQueries, Without, PendingOf
<1>3. \A q \in PendingOf(b) : UidOfQuery(q) = UidOf(b, queries[q].req)
  BY DEF PendingOf, UidOfQuery, UidOf
<1>4. /\ Elements(queued[b])' = Elements(queued[b])
      /\ Own(b, toRenderer[b])' = Own(b, toRenderer[b])
  BY DEF Elements, Own
<1>5. LeavesAnswered(b, {})
  BY <1>1, <1>2, <1>3, <1>4 DEF LeavesAnswered
<1>6. Settles(b)
  BY <1>2, <1>5 DEF Settles
<1> QED BY <1>4, <1>6 DEF HandlerSide, Queues

-----------------------------------------------------------------------------
(* The renderer's steps, for its own browser and for the others.           *)
LEMMA OthersUntouched ==
  ASSUME NEW c \in Browser, NEW b \in Browser, b # c, TypeOK,
         \/ JavaScriptStep(c) \/ (\E f \in Frame : ReleaseContext(c, f))
         \/ ReceiveAnswerStep(c) \/ ExecuteStep(c)
  PROVE  HandlerSide(b)
<1>1. UNCHANGED <<queries, dropped, unheard>>
  BY DEF JavaScriptStep, ReleaseContext, ReceiveAnswerStep, ExecuteStep, browserSideVars
<1> DEFINE Same ==
             /\ UNCHANGED <<proc[b], epoch[b], toBrowser[b], toRenderer[b], queued[b]>>
             /\ UNCHANGED <<ctx[b], lastCtx[b], lastReq[b], requests[b], jsTasks[b]>>
             /\ misled \subseteq misled'
<1> USE DEF TypeOK, TransportTypeOK, RendererSideTypeOK, transportVars
<1>2. ASSUME NEW f \in Frame, NEW persistent \in BOOLEAN, CefQuery(c, f, persistent) PROVE Same
  BY <1>2 DEF CefQuery, UseContext, SendToBrowser
<1>3. ASSUME NEW f \in Frame, NEW r \in Id, CefQueryCancel(c, f, r) PROVE Same
  BY <1>3 DEF CefQueryCancel, CancelUnchanged, UseContext, SendToBrowser, SendCancel
<1>4. ASSUME NEW f \in Frame, OnContextReleased(c, f) PROVE Same
  BY <1>4 DEF OnContextReleased, CancelUnchanged, SendToBrowser, SendCancel
<1>5. ASSUME ReceiveAnswer(c) PROVE Same
  BY <1>5 DEF ReceiveAnswer
<1>6. ASSUME ExecuteSuccessCallback(c) \/ ExecuteFailureCallback(c) PROVE Same
  BY <1>6 DEF ExecuteSuccessCallback, ExecuteFailureCallback, EndRequests
<1>7. Same
  <2> HIDE DEF Same
  <2> QED BY <1>2, <1>3, <1>4, <1>5, <1>6
             DEF JavaScriptStep, ReleaseContext, ReceiveAnswerStep, ExecuteStep
<1> QED BY <1>1, <1>7, NothingHappens

LEMMA CefQueryAsks ==
  ASSUME TypeInv, NEW b \in Browser, NEW f \in Frame, NEW persistent \in BOOLEAN,
         CefQuery(b, f, persistent), UNCHANGED browserSideVars
  PROVE  \E i \in RequestInfo : Asks(b, f, i)
<1> DEFINE i == [ctx |-> ContextId(b, f), req |-> lastReq[b] + 1, persistent |-> persistent]
<1>1. i \in RequestInfo
  BY DEF CefQuery, UseContext, RequestInfo
<1>2. i.ctx = ContextId(b, f) /\ i.req = lastReq[b] + 1 /\ i.persistent = persistent
  OBVIOUS
<1>3. /\ toBrowser'[b] = toBrowser[b] \o <<QueryMsg(i.ctx, i.req, i.persistent)>>
      /\ requests'[b] = requests[b] \cup {i}
      /\ lastReq'[b] = lastReq[b] + 1
      /\ ctx'[b] = [ctx[b] EXCEPT ![f] = i.ctx]
      /\ lastCtx'[b] = (IF ctx[b][f] = kReservedId THEN lastCtx[b] + 1 ELSE lastCtx[b])
      /\ UNCHANGED <<jsTasks[b], toRenderer[b], epoch[b], misled>>
  BY DEF CefQuery, UseContext, SendToBrowser, TypeInv, TypeOK, TransportTypeOK, RendererSideTypeOK
<1> HIDE DEF i
<1> QED BY <1>1, <1>2, <1>3 DEF Asks, browserSideVars

LEMMA CefQueryCancelWithdraws ==
  ASSUME TypeInv, NEW b \in Browser, Linked(b), NEW f \in Frame, NEW r \in Id,
         CefQueryCancel(b, f, r), UNCHANGED browserSideVars
  PROVE  ContextId(b, f) \in Id /\ Withdraws(b, ContextId(b, f), r)
<1> DEFINE c == ContextId(b, f)
           P == PendingRequests(b, c, r)
<1>1. /\ c \in Id /\ c \in Nat /\ r # kReservedId /\ r <= lastReq[b]
      /\ toBrowser'[b] = toBrowser[b] \o (IF P = {} THEN <<>> ELSE <<CancelMsg(c, r)>>)
      /\ requests'[b] = requests[b] \ P
      /\ ctx'[b] = [ctx[b] EXCEPT ![f] = c]
      /\ lastCtx'[b] = (IF ctx[b][f] = kReservedId THEN lastCtx[b] + 1 ELSE lastCtx[b])
      /\ UNCHANGED <<lastReq[b], jsTasks[b], toRenderer[b], epoch[b], misled>>
  BY DEF CefQueryCancel, UseContext, SendToBrowser, SendCancel, CancelUnchanged,
         TypeInv, TypeOK, TransportTypeOK, RendererSideTypeOK, Id, kReservedId
<1>2. /\ toBrowser[b] \in Seq(Request) /\ lastCtx[b] \in Nat /\ ctx[b] \in [Frame -> Nat]
      /\ \A g \in Frame : ctx[b][g] <= lastCtx[b]
      /\ \A g, h \in Frame : ctx[b][g] = ctx[b][h] /\ ctx[b][g] # kReservedId => g = h
      /\ \A i \in requests[b] : i.ctx # kReservedId /\ \E g \in Frame : ctx[b][g] = i.ctx
  BY DEF RequestInfo, Linked, IdsKnown, TypeInv, TypeOK, TransportTypeOK, RendererSideTypeOK,
     Id, Id0, kReservedId
<1>3. toBrowser'[b] = (IF P = {} THEN toBrowser[b] ELSE toBrowser[b] \o <<CancelMsg(c, r)>>)
  BY <1>1, <1>2, ConcatEmptySeq
<1>4. c = IF ctx[b][f] = kReservedId THEN lastCtx[b] + 1 ELSE ctx[b][f]
  BY DEF ContextId
<1> HIDE DEF c, P
<1>5. /\ c <= lastCtx'[b] /\ lastCtx'[b] \in {lastCtx[b], lastCtx[b] + 1}
      /\ \A g \in Frame : \/ ctx'[b][g] \in {ctx[b][g], kReservedId}
                          \/ ctx'[b][g] = lastCtx[b] + 1 /\ lastCtx'[b] = lastCtx[b] + 1
  BY <1>1, <1>2, <1>4
<1>6. \A g, h \in Frame : ctx'[b][g] = ctx'[b][h] /\ ctx'[b][g] # kReservedId => g = h
  BY <1>1, <1>2, <1>4
<1>7. \A i \in requests[b] : \E g \in Frame : ctx'[b][g] = i.ctx
  BY <1>1, <1>2, <1>4
<1> QED BY <1>1, <1>3, <1>5, <1>6, <1>7 DEF Withdraws, browserSideVars, c, P

LEMMA ReleaseContextWithdraws ==
  ASSUME TypeInv, NEW b \in Browser, Linked(b), NEW f \in Frame, ReleaseContext(b, f)
  PROVE  ctx[b][f] \in Id /\ Withdraws(b, ctx[b][f], kReservedId)
<1> DEFINE c == ctx[b][f]
           P == PendingRequests(b, c, kReservedId)
<1>0. /\ c \in Id0 /\ c # kReservedId /\ lastReq[b] \in Nat
  BY DEF ReleaseContext, OnContextReleased, TypeInv, TypeOK, RendererSideTypeOK,
     Id, Id0, kReservedId
<1>1. /\ c \in Id /\ c # kReservedId /\ kReservedId <= lastReq[b]
      /\ toBrowser'[b] = toBrowser[b] \o (IF P = {} THEN <<>> ELSE <<CancelMsg(c, kReservedId)>>)
      /\ requests'[b] = requests[b] \ P
      /\ ctx'[b] = [ctx[b] EXCEPT ![f] = kReservedId]
      /\ UNCHANGED <<lastCtx[b], lastReq[b], jsTasks[b], toRenderer[b], epoch[b]>>
  <2>1. c \in Id /\ kReservedId <= lastReq[b]
    BY <1>0 DEF Id0, kReservedId
  <2>2. /\ toBrowser'[b] = toBrowser[b] \o (IF P = {} THEN <<>> ELSE <<CancelMsg(c, kReservedId)>>)
        /\ requests'[b] = requests[b] \ P
    BY DEF ReleaseContext, OnContextReleased, SendToBrowser, SendCancel,
           TypeInv, TypeOK, TransportTypeOK, RendererSideTypeOK
  <2>3. ctx'[b] = [ctx[b] EXCEPT ![f] = kReservedId]
    BY DEF ReleaseContext, OnContextReleased, TypeInv, TypeOK, RendererSideTypeOK
  <2>4. UNCHANGED <<lastCtx[b], lastReq[b], jsTasks[b], toRenderer[b], epoch[b]>>
    BY DEF ReleaseContext, OnContextReleased, CancelUnchanged
  <2> QED BY <1>0, <2>1, <2>2, <2>3, <2>4
<1>2. /\ toBrowser[b] \in Seq(Request) /\ ctx[b] \in [Frame -> Nat]
      /\ \A g \in Frame : ctx[b][g] <= lastCtx[b]
      /\ \A g, h \in Frame : ctx[b][g] = ctx[b][h] /\ ctx[b][g] # kReservedId => g = h
      /\ \A i \in requests[b] : \E g \in Frame : ctx[b][g] = i.ctx
  BY DEF Linked, IdsKnown, TypeInv, TypeOK, TransportTypeOK, RendererSideTypeOK,
     Id, Id0, kReservedId
<1>3. toBrowser'[b] = (IF P = {} THEN toBrowser[b]
                       ELSE toBrowser[b] \o <<CancelMsg(c, kReservedId)>>)
  BY <1>1, <1>2, ConcatEmptySeq
<1>4. UNCHANGED <<queries, dropped, misled, unheard>>
  BY DEF ReleaseContext, OnContextReleased, CancelUnchanged, browserSideVars
<1>5. /\ \A g \in Frame : ctx'[b][g] \in {ctx[b][g], kReservedId}
      /\ \A g, h \in Frame : ctx'[b][g] = ctx'[b][h] /\ ctx'[b][g] # kReservedId => g = h
      /\ \A g \in Frame : ctx'[b][g] # c
      /\ c <= lastCtx[b]
  BY <1>1, <1>2
<1>6. \A i \in requests[b] \ P : \E g \in Frame : ctx'[b][g] = i.ctx
  <2>1. \A i \in requests[b] \ P : i.ctx # c
    BY DEF PendingRequests
  <2> QED BY <1>1, <1>2, <2>1
<1> QED BY <1>1, <1>3, <1>4, <1>5, <1>6 DEF Withdraws

LEMMA ExecuteApplies ==
  ASSUME TypeInv, NEW b \in Browser, Linked(b), ExecuteStep(b)
  PROVE  Applies(b)
<1> DEFINE a == Head(jsTasks[b])
<1>1. PICK done :
        /\ done = {i \in requests[b] : ForGood(a, i)}
        /\ EndRequests(b, a, done)
  <2>1. CASE ExecuteSuccessCallback(b)
    <3>1. {i \in GetRequestInfo(b, a) : ~i.persistent} = {i \in requests[b] : ForGood(a, i)}
      BY <2>1 DEF ExecuteSuccessCallback, GetRequestInfo, ForGood, AnswerTo
    <3> QED BY <2>1, <3>1 DEF ExecuteSuccessCallback
  <2>2. CASE ExecuteFailureCallback(b)
    <3>1. GetRequestInfo(b, a) = {i \in requests[b] : ForGood(a, i)}
      BY <2>2 DEF ExecuteFailureCallback, GetRequestInfo, ForGood, AnswerTo
    <3> QED BY <2>2, <3>1 DEF ExecuteFailureCallback
  <2> QED BY <2>1, <2>2 DEF ExecuteStep
<1> HIDE DEF a
<1>2. requests'[b] = {i \in requests[b] : ~ForGood(a, i)}
  BY <1>1 DEF EndRequests, TypeInv, TypeOK, RendererSideTypeOK
<1>3. /\ misled \subseteq misled'
      /\ a.epoch # epoch[b] => \A i \in done : UidOf(b, i.req) \in misled'
  <2>1. \A i \in done : GetContextByID(b, i.ctx) # {}
    BY <1>1 DEF GetContextByID, Linked, IdsKnown
  <2>2. \A i \in done : UidOf(b, i.req) \in Told(b, done)
    BY <2>1 DEF Told, UidOf, RequestUid
  <2> QED BY <1>1, <2>2 DEF EndRequests
<1>4. /\ jsTasks[b] # <<>> /\ jsTasks'[b] = Tail(jsTasks[b])
      /\ UNCHANGED <<toBrowser[b], toRenderer[b], ctx[b], lastCtx[b], lastReq[b], epoch[b],
                     queries, dropped, unheard>>
  BY DEF ExecuteStep, ExecuteSuccessCallback, ExecuteFailureCallback,
         TypeInv, TypeOK, RendererSideTypeOK, transportVars, browserSideVars
<1> QED BY <1>1, <1>2, <1>3, <1>4 DEF Applies, a

LEMMA ReceiveAnswerArrives ==
  ASSUME TypeInv, NEW b \in Browser, ReceiveAnswerStep(b)
  PROVE  Arrives(b)
<1> DEFINE a == Head(toRenderer[b])
           t == <<a>>
<1>1. /\ toRenderer[b] # <<>> /\ toRenderer'[b] = Tail(toRenderer[b])
      /\ jsTasks'[b] = Append(jsTasks[b], a)
      /\ toRenderer[b] \in Seq(Answer) /\ jsTasks[b] \in Seq(Answer)
  BY DEF ReceiveAnswerStep, ReceiveAnswer, TypeInv, TypeOK, TransportTypeOK, RendererSideTypeOK
<1>2. a \in Answer
  BY <1>1, HeadTailProperties
<1>3. Elements(toRenderer[b]) = {a} \cup Elements(toRenderer[b])'
  <2>1. Elements(toRenderer[b]) = {a} \cup Elements(Tail(toRenderer[b]))
    BY <1>1, ElementsOfTail
  <2> QED BY <1>1, <2>1 DEF Elements
<1> HIDE DEF a
<1>4. t \in Seq(Answer) /\ Elements(t) = {a} /\ jsTasks'[b] = jsTasks[b] \o t
  BY <1>1, <1>2, ElementsOfOne, AppendIsConcat
<1> HIDE DEF t
<1>5. Elements(jsTasks[b])' = Elements(jsTasks[b]) \cup {a}
  <2>1. Elements(jsTasks[b] \o t) = Elements(jsTasks[b]) \cup Elements(t)
    BY <1>1, <1>4, ElementsOfConcat
  <2> QED BY <1>4, <2>1 DEF Elements
<1>6. Answers(b)' = Answers(b)
  <2>1. epoch'[b] = epoch[b]
    BY DEF ReceiveAnswerStep, ReceiveAnswer
  <2> QED BY <1>3, <1>5, <2>1 DEF Answers, Own
<1> QED BY <1>6 DEF Arrives, ReceiveAnswerStep, ReceiveAnswer, browserSideVars

-----------------------------------------------------------------------------
(* What holds of each browser: nothing is owed to a process whose view is  *)
(* not ready; a process that does not live has nothing; and while it lives *)
(* the two sides are linked.                                               *)
Idle(b) ==
  /\ toRenderer[b] = <<>> /\ jsTasks[b] = <<>>
  /\ lastReq[b] = kReservedId /\ lastCtx[b] = kReservedId /\ ctx[b] = NoContexts

InStep(b) ==
  /\ QueuedPast(b)
  /\ proc[b] # "live" => Idle(b)
  /\ proc[b] = "live" => Linked(b)
  /\ proc[b] = "live" /\ queueing[b] => PendingOf(b) = {} /\ Own(b, queued[b]) = {}

LinkedInv ==
  /\ TypeInv /\ QueriesPast /\ IdsAscend
  /\ \A b \in Browser : InStep(b)

LEMMA LinkedInvFacts ==
  ASSUME LinkedInv
  PROVE  /\ TypeInv /\ TypeOK /\ NothingQueued /\ EpochsPast /\ IdsAscend
         /\ \A b \in Browser :
               /\ toBrowser[b] \in Seq(Request) /\ jsTasks[b] \in Seq(Answer)
               /\ epoch[b] \in Nat
         /\ \A b \in Browser : proc[b] = "live" => Linked(b)
<1>1. TypeOK
  BY DEF LinkedInv, TypeInv
<1>2. \A b \in Browser : /\ toBrowser[b] \in Seq(Request) /\ jsTasks[b] \in Seq(Answer)
                         /\ epoch[b] \in Nat
  BY <1>1, BoundsAssumption DEF TypeOK, TransportTypeOK, RendererSideTypeOK
<1> QED BY <1>1, <1>2 DEF LinkedInv, InStep, NothingQueued, EpochsPast

(* A browser whose process only hears from the handlers stays in step.     *)
LEMMA QueuesPast ==
  ASSUME LinkedInv, NEW b \in Browser, Queues(b), UNCHANGED epoch[b]
  PROVE  /\ QueuedPast(b)'
         /\ proc[b] = "live" /\ queueing[b] => Own(b, queued[b])' = {}
<1>1. epoch[b] \in Nat /\ InStep(b)
  BY LinkedInvFacts DEF LinkedInv
<1>2. \A a \in Elements(queued[b])' :
         \/ a \in Elements(queued[b])
         \/ a.epoch < epoch[b]
         \/ a.epoch = epoch[b] /\ PendingOf(b) # {}
  BY DEF Queues
<1>3. \A a \in Elements(queued[b])' : a.epoch < epoch[b] \/ a.epoch = epoch[b]
  BY <1>1, <1>2 DEF InStep, QueuedPast
<1>4. ASSUME proc[b] = "live", queueing[b], NEW a \in Elements(queued[b])',
             a.epoch = epoch[b]
      PROVE  FALSE
  <2>1. PendingOf(b) = {} /\ a \notin Elements(queued[b])
    BY <1>1, <1>4 DEF InStep, Own
  <2>2. ~(a.epoch < epoch[b])
    BY <1>1, <1>4
  <2> QED BY <1>2, <1>4, <2>1, <2>2
<1> QED BY <1>3, <1>4 DEF QueuedPast, Own

LEMMA HandlerSideInStep ==
  ASSUME LinkedInv, NEW b \in Browser, HandlerSide(b),
         UNCHANGED <<proc[b], epoch[b], ctx[b], lastCtx[b], lastReq[b], jsTasks[b]>>,
         queueing'[b] => queueing[b]
  PROVE  InStep(b)'
<1>0. InStep(b)
  BY DEF LinkedInv
<1>1. proc[b] = "live" => Linked(b)'
  BY <1>0, SettlesLinked DEF HandlerSide, InStep
<1>2. proc[b] # "live" => Idle(b)'
  BY <1>0 DEF HandlerSide, InStep, Idle
<1>3. /\ QueuedPast(b)'
      /\ proc[b] = "live" /\ queueing[b] => Own(b, queued[b])' = {}
  BY QueuesPast DEF HandlerSide
<1>4. proc[b] = "live" /\ queueing[b] => PendingOf(b)' = {}
  BY <1>0 DEF HandlerSide, InStep, Settles
<1> QED BY <1>1, <1>2, <1>3, <1>4 DEF InStep

LEMMA HandlersInStep ==
  ASSUME LinkedInv, HandlerStep \/ UiTaskStep, NEW b \in Browser
  PROVE  InStep(b)'
<1>1. /\ HandlerSide(b)
      /\ UNCHANGED <<proc, epoch, queueing, rendererSideVars>>
  BY HandlerSideSteps, LinkedInvFacts
<1> QED BY <1>1, HandlerSideInStep DEF rendererSideVars

LEMMA QueryInStep ==
  ASSUME LinkedInv, NEW c \in Browser, NEW unguarded, NEW taker, NEW removed,
         ReceiveQuery(c, unguarded, taker, removed), UNCHANGED rendererSideVars,
         NEW b \in Browser
  PROVE  InStep(b)'
<1>1. /\ UNCHANGED <<proc, epoch, queueing>> /\ ~queueing[c]
      /\ UNCHANGED <<ctx, lastCtx, lastReq, jsTasks>>
  BY DEF ReceiveQuery, TakeQuery, Arrived, rendererSideVars
<1>2. CASE b # c
  BY <1>1, <1>2, ReceiveQueryTakes, LinkedInvFacts, HandlerSideInStep
<1>3. CASE b = c
  <2>1. /\ Queues(b)
        /\ proc[b] # "live" => toRenderer'[b] = toRenderer[b]
        /\ proc[b] = "live" => Takes(b, nextQueryId)
    BY <1>3, ReceiveQueryTakes, LinkedInvFacts
  <2>2. proc[b] = "live" => Linked(b)'
    BY <2>1, TakesLinked, LinkedInvFacts
  <2>3. proc[b] # "live" => Idle(b)'
    BY <1>1, <2>1 DEF LinkedInv, InStep, Idle
  <2>4. QueuedPast(b)'
    BY <1>1, <2>1, QueuesPast
  <2> QED BY <1>1, <1>3, <2>2, <2>3, <2>4 DEF InStep
<1> QED BY <1>2, <1>3

LEMMA CancelInStep ==
  ASSUME LinkedInv, NEW c \in Browser, ReceiveCancel(c), UNCHANGED rendererSideVars,
         NEW b \in Browser
  PROVE  InStep(b)'
<1>1. /\ UNCHANGED <<proc, epoch, queueing>> /\ ~queueing[c]
      /\ UNCHANGED <<ctx, lastCtx, lastReq, jsTasks>>
  BY DEF ReceiveCancel, CancelPendingRequest, Arrived, rendererSideVars
<1>2. CASE b # c
  BY <1>1, <1>2, ReceiveCancelCancels, LinkedInvFacts, HandlerSideInStep
<1>3. CASE b = c
  <2>1. /\ Queues(b)
        /\ proc[b] # "live" => toRenderer'[b] = toRenderer[b]
        /\ proc[b] = "live" => Cancels(b)
    BY <1>3, ReceiveCancelCancels, LinkedInvFacts
  <2>2. proc[b] = "live" => Linked(b)'
    BY <2>1, CancelsLinked, LinkedInvFacts
  <2>3. proc[b] # "live" => Idle(b)'
    BY <1>1, <2>1 DEF LinkedInv, InStep, Idle
  <2>4. QueuedPast(b)'
    BY <1>1, <2>1, QueuesPast
  <2> QED BY <1>1, <1>3, <2>2, <2>3, <2>4 DEF InStep
<1> QED BY <1>2, <1>3

LEMMA LateInStep ==
  ASSUME LinkedInv, NEW c \in Browser, ReceiveLate(c), NEW b \in Browser
  PROVE  InStep(b)'
<1>1. UNCHANGED rendererSideVars
  BY DEF ReceiveLate
<1>2. PICK e \in Epoch : \/ \E taker, removed : ReceiveLateQuery(c, e, taker, removed)
                        \/ ReceiveLateCancel(c, e)
  BY DEF ReceiveLate
<1>3. UNCHANGED <<proc, epoch, queueing, ctx, lastCtx, lastReq, jsTasks>>
  BY <1>1, <1>2
  DEF ReceiveLateQuery, TakeQuery, ReceiveLateCancel, CancelPendingRequest, rendererSideVars
<1>4. HandlerSide(b)
  BY <1>1, <1>2, ReceiveLateQuerySettles, ReceiveLateCancelSettles, LinkedInvFacts
<1> QED BY <1>3, <1>4, HandlerSideInStep

LEMMA RendererInStep ==
  ASSUME LinkedInv, NEW c \in Browser, NEW b \in Browser,
         \/ JavaScriptStep(c) \/ (\E f \in Frame : ReleaseContext(c, f))
         \/ ReceiveAnswerStep(c) \/ ExecuteStep(c)
  PROVE  InStep(b)'
<1>0. /\ UNCHANGED <<proc, epoch, queueing, queued, queries>>
      /\ b # c => UNCHANGED <<ctx[b], lastCtx[b], lastReq[b], jsTasks[b]>>
  <2>0. UNCHANGED queries
    BY DEF JavaScriptStep, ReleaseContext, ReceiveAnswerStep, ExecuteStep, browserSideVars
  <2> USE LinkedInvFacts DEF TypeOK, RendererSideTypeOK, transportVars
  <2>1. CASE JavaScriptStep(c)
    BY <2>0, <2>1 DEF JavaScriptStep, CefQuery, CefQueryCancel, CancelUnchanged, UseContext,
       SendToBrowser, SendCancel
  <2>2. CASE \E f \in Frame : ReleaseContext(c, f)
    BY <2>0, <2>2 DEF ReleaseContext, OnContextReleased, CancelUnchanged, SendToBrowser, SendCancel
  <2>3. CASE ReceiveAnswerStep(c)
    BY <2>0, <2>3 DEF ReceiveAnswerStep, ReceiveAnswer
  <2>4. CASE ExecuteStep(c)
    BY <2>0, <2>4 DEF ExecuteStep, ExecuteSuccessCallback, ExecuteFailureCallback
  <2> QED BY <2>1, <2>2, <2>3, <2>4
<1>1. PendingOf(b)' = PendingOf(b)
  BY <1>0 DEF PendingOf
<1>2. CASE b # c
  BY <1>0, <1>2, OthersUntouched, LinkedInvFacts, HandlerSideInStep
<1>3. CASE b = c /\ proc[b] = "live"
  <2>0. TypeInv /\ TypeOK /\ Linked(b) /\ jsTasks[b] \in Seq(Answer)
    BY <1>3, LinkedInvFacts
  <2> SUFFICES Linked(b)'
    BY <1>0, <1>1, <1>3 DEF LinkedInv, InStep, QueuedPast, Own, Elements
  <2>1. CASE JavaScriptStep(b)
    <3>0. UNCHANGED browserSideVars
      BY <2>1 DEF JavaScriptStep
    <3>1. CASE \E f \in Frame : \E persistent \in BOOLEAN : CefQuery(b, f, persistent)
      <4>1. PICK f \in Frame, persistent \in BOOLEAN : CefQuery(b, f, persistent)
        BY <3>1
      <4> QED BY <2>0, <3>0, <4>1, CefQueryAsks, AsksLinked
    <3>2. CASE \E f \in Frame : \E r \in Id : CefQueryCancel(b, f, r)
      <4>1. PICK f \in Frame, r \in Id : CefQueryCancel(b, f, r)
        BY <3>2
      <4>2. ContextId(b, f) \in Id /\ Withdraws(b, ContextId(b, f), r) /\ r \in Id0
        BY <2>0, <3>0, <4>1, CefQueryCancelWithdraws DEF Id0
      <4> QED BY <2>0, <4>2, WithdrawsLinked
    <3> QED BY <2>1, <3>1, <3>2 DEF JavaScriptStep
  <2>2. CASE \E f \in Frame : ReleaseContext(b, f)
    <3>1. PICK f \in Frame : ReleaseContext(b, f)
      BY <2>2
    <3>2. ctx[b][f] \in Id /\ Withdraws(b, ctx[b][f], kReservedId) /\ kReservedId \in Id0
      BY <2>0, <3>1, ReleaseContextWithdraws DEF Id0
    <3> QED BY <2>0, <3>2, WithdrawsLinked
  <2>3. CASE ReceiveAnswerStep(b)
    BY <2>0, <2>3, ReceiveAnswerArrives, ArrivesLinked
  <2>4. CASE ExecuteStep(b)
    BY <2>0, <2>4, ExecuteApplies, AppliesLinked
  <2> QED BY <1>3, <2>1, <2>2, <2>3, <2>4
<1>4. CASE b = c /\ proc[b] # "live"
  <2>1. jsTasks[b] = <<>>
    BY <1>4 DEF LinkedInv, InStep, Idle
  <2> QED BY <1>4, <2>1
          DEF JavaScriptStep, CefQuery, CefQueryCancel, UseContext, ReleaseContext,
              OnContextReleased, ReceiveAnswerStep, ReceiveAnswer, ExecuteStep,
              ExecuteSuccessCallback, ExecuteFailureCallback
<1> QED BY <1>2, <1>3, <1>4

LEMMA NavigationInStep ==
  ASSUME LinkedInv, NEW c \in Browser, OnBeforeBrowse(c) \/ StopLoad(c), NEW b \in Browser
  PROVE  InStep(b)'
<1>1. /\ UNCHANGED <<transportVars, rendererSideVars, unheard>>
      /\ CancelSilently({c}) \/ UNCHANGED <<queries, dropped>>
  BY DEF OnBeforeBrowse, StopLoad, browserSideVars
<1>2. HandlerSide(b)
  BY <1>1, CancelSilentlySettles, NothingHappens DEF transportVars, rendererSideVars
<1> QED BY <1>1, <1>2, HandlerSideInStep DEF transportVars, rendererSideVars

(* A new process has sent nothing and is owed nothing.                     *)
LEMMA NewIsLinked ==
  ASSUME NEW b \in Browser, toBrowser'[b] = <<>>, requests'[b] = {}, PendingOf(b)' = {}, Idle(b)'
  PROVE  Linked(b)'
<1>1. Elements(toBrowser[b])' = {} /\ Elements(toRenderer[b])' = {} /\ Elements(jsTasks[b])' = {}
  BY DEF Elements, Idle
<1>2. /\ Answers(b)' = {} /\ QueryMsgs(b)' = {} /\ CancelMsgs(b)' = {}
      /\ Len(toBrowser'[b]) = 0
  BY <1>1 DEF Answers, Own, QueryMsgs, CancelMsgs
<1> QED BY <1>1, <1>2
        DEF Linked, IdsKnown, AskedOnce, BothAgree, CancelsMeant, AnswersMeant, QueriesAwaited,
            RequestsKept, Idle, NoContexts, kReservedId

LEMMA NewPending ==
  ASSUME LinkedInv, NEW b \in Browser, queries' = queries, queued'[b] = queued[b],
         epoch'[b] = epoch[b] + 1
  PROVE  PendingOf(b)' = {} /\ QueuedPast(b)' /\ Own(b, queued[b])' = {}
<1>1. /\ epoch[b] \in Nat /\ QueriesPast /\ QueuedPast(b)
      /\ Elements(queued[b])' = Elements(queued[b])
  BY LinkedInvFacts DEF EpochsPast, Elements
<1>2. ASSUME NEW q \in DOMAIN queries, queries[q].browser = b PROVE queries[q].epoch # epoch'[b]
  <2>1. queries[q].epoch <= epoch[b]
    BY <1>1, <1>2 DEF QueriesPast
  <2> QED BY <1>1, <2>1
<1>3. ASSUME NEW a \in Elements(queued[b]) PROVE a.epoch # epoch'[b] /\ a.epoch < epoch'[b]
  <2>1. a.epoch < epoch[b] \/ a.epoch = epoch[b]
    BY <1>1 DEF QueuedPast
  <2>2. a.epoch \in Int
    <3>1. a \in Answer
      BY LinkedInvFacts, ElementsType DEF TypeOK, TransportTypeOK
    <3> QED BY <3>1, BoundsAssumption DEF Answer, Epoch
  <2> QED BY <1>1, <2>1, <2>2
<1> QED BY <1>1, <1>2, <1>3 DEF PendingOf, QueuedPast, Own

LEMMA LaunchInStep ==
  ASSUME LinkedInv, NEW c \in Browser, LaunchRenderer(c), NEW b \in Browser
  PROVE  InStep(b)'
<1>0. TypeInv /\ TypeOK /\ InStep(b)
  BY LinkedInvFacts DEF LinkedInv
<1>1. /\ UNCHANGED <<rendererSideVars, queries, dropped, unheard>>
      /\ UNCHANGED <<toBrowser, toRenderer, queueing, queued>>
  BY DEF LaunchRenderer, LaunchProcess, browserSideVars
<1>2. CASE b = c
  <2>1. proc[b] = "absent" /\ proc'[b] = "live" /\ epoch'[b] = epoch[b] + 1
    BY <1>0, <1>2 DEF LaunchRenderer, LaunchProcess, TypeOK, TransportTypeOK
  <2>2. toBrowser[b] = <<>> /\ requests[b] = {} /\ Idle(b)
    BY <1>0, <2>1 DEF TypeInv, Started, InStep
  <2>3. PendingOf(b)' = {} /\ QueuedPast(b)' /\ Own(b, queued[b])' = {}
    BY <1>1, <2>1, NewPending
  <2>4. toBrowser'[b] = <<>> /\ requests'[b] = {} /\ Idle(b)'
    BY <1>1, <2>2 DEF Idle, rendererSideVars
  <2>5. Linked(b)'
    BY <2>3, <2>4, NewIsLinked
  <2> QED BY <2>1, <2>3, <2>5 DEF InStep
<1>3. CASE b # c
  <2>1. UNCHANGED <<proc[b], epoch[b]>>
    BY <1>0, <1>3 DEF LaunchRenderer, LaunchProcess, TypeOK, TransportTypeOK
  <2>2. HandlerSide(b)
    BY <1>1, <2>1, NothingHappens DEF rendererSideVars
  <2> QED BY <1>1, <2>1, <2>2, HandlerSideInStep DEF rendererSideVars
<1> QED BY <1>2, <1>3

(* What was queued for processes the browser has left goes to the new one, *)
(* which it means nothing to, or is misled by.                             *)
LEMMA ReadyInStep ==
  ASSUME LinkedInv, NEW c \in Browser, RenderViewReady(c), NEW b \in Browser
  PROVE  InStep(b)'
<1>0. TypeInv /\ TypeOK /\ InStep(b)
  BY LinkedInvFacts DEF LinkedInv
<1>1. UNCHANGED <<rendererSideVars, queries, dropped, unheard, proc, epoch, toBrowser>>
  BY DEF RenderViewReady, FlushQueue, browserSideVars
<1>2. CASE b = c
  <2>1. /\ queueing[b] /\ ~queueing'[b] /\ queued'[b] = <<>>
        /\ toRenderer'[b] = IF proc[b] = "live" THEN toRenderer[b] \o queued[b]
                            ELSE toRenderer[b]
    BY <1>0, <1>2 DEF RenderViewReady, FlushQueue, TypeOK, TransportTypeOK
  <2>2. Elements(queued[b])' = {}
    BY <2>1 DEF Elements
  <2>3. proc[b] = "live" => Own(b, toRenderer[b])' = Own(b, toRenderer[b])
    <3> SUFFICES ASSUME proc[b] = "live" PROVE Own(b, toRenderer[b])' = Own(b, toRenderer[b])
      OBVIOUS
    <3>1. Elements(toRenderer[b] \o queued[b]) = Elements(toRenderer[b]) \cup Elements(queued[b])
      BY <1>0, ElementsOfConcat DEF TypeOK, TransportTypeOK
    <3>2. Elements(toRenderer[b])' = Elements(toRenderer[b]) \cup Elements(queued[b])
      BY <2>1, <3>1 DEF Elements
    <3>3. Own(b, queued[b]) = {}
      BY <1>0, <2>1 DEF InStep
    <3> QED BY <1>1, <3>2, <3>3 DEF Own
  <2>4. PendingOf(b)' = PendingOf(b) /\ \A q : queries'[q] = queries[q]
    BY <1>1 DEF PendingOf
  <2>5. proc[b] = "live" => LeavesAnswered(b, {})
    BY <1>1, <2>3, <2>4 DEF LeavesAnswered, rendererSideVars
  <2>6. proc[b] = "live" => Settles(b)
    BY <1>1, <2>4, <2>5 DEF Settles
  <2>7. HandlerSide(b)
    BY <2>1, <2>2, <2>6 DEF HandlerSide, Queues
  <2> QED BY <1>1, <2>1, <2>7, HandlerSideInStep DEF rendererSideVars
<1>3. CASE b # c
  <2>1. UNCHANGED <<toRenderer[b], queued[b], queueing[b]>>
    BY <1>0, <1>3 DEF RenderViewReady, FlushQueue, TypeOK, TransportTypeOK
  <2>2. HandlerSide(b)
    BY <1>1, <2>1, NothingHappens DEF rendererSideVars
  <2> QED BY <1>1, <2>1, <2>2, HandlerSideInStep DEF rendererSideVars
<1> QED BY <1>2, <1>3

(* The end of a process, its report, the end of a browser, and the start   *)
(* of another process in the place of one that lives.                      *)
LEMMA EndInStep ==
  ASSUME LinkedInv, NEW c \in Browser,
         \/ Crash(c) \/ CommitElsewhere(c)
         \/ (\E normal \in BOOLEAN : RenderProcessGone(c, normal)) \/ OnBeforeClose(c),
         NEW b \in Browser
  PROVE  InStep(b)'
<1>0. TypeInv /\ TypeOK /\ InStep(b)
  BY LinkedInvFacts DEF LinkedInv
<1>1. CASE b # c
  <2>1. /\ UNCHANGED <<proc[b], epoch[b], queueing[b], toBrowser[b], toRenderer[b], queued[b]>>
        /\ UNCHANGED <<ctx[b], lastCtx[b], lastReq[b], requests[b], jsTasks[b], misled, unheard>>
    <3> USE <1>0, <1>1 DEF TypeOK, TransportTypeOK, RendererSideTypeOK
    <3>1. CASE Crash(c)
      BY <3>1 DEF Crash, ProcessDies, ForgetProcess, browserSideVars
    <3>2. CASE \E normal \in BOOLEAN : RenderProcessGone(c, normal)
      BY <3>2 DEF RenderProcessGone, ChannelError, rendererSideVars
    <3>3. CASE OnBeforeClose(c)
      BY <3>3 DEF OnBeforeClose, DestroyChannel, ForgetProcess
    <3>4. CASE CommitElsewhere(c)
      BY <3>4 DEF CommitElsewhere, SwapProcess, ForgetProcess, browserSideVars
    <3> QED BY <3>1, <3>2, <3>3, <3>4
  <2>2. CancelSilently({c}) \/ UNCHANGED <<queries, dropped>>
    BY DEF Crash, RenderProcessGone, OnBeforeClose, CommitElsewhere, browserSideVars
  <2>3. HandlerSide(b)
    BY <2>1, <2>2, CancelSilentlySettles, NothingHappens
  <2> QED BY <2>1, <2>3, HandlerSideInStep
<1>2. CASE b = c
  <2> USE <1>0, <1>2 DEF TypeOK, TransportTypeOK, RendererSideTypeOK
  <2>1. CASE Crash(c)
    <3>1. proc'[b] = "dead" /\ UNCHANGED <<epoch[b], queued[b]>> /\ Idle(b)'
      BY <2>1 DEF Crash, ProcessDies, ForgetProcess, Idle
    <3> QED BY <3>1 DEF InStep, QueuedPast, Elements
  <2>2. CASE \E normal \in BOOLEAN : RenderProcessGone(c, normal)
    <3>1. /\ proc[b] = "dead" /\ proc'[b] = "absent"
          /\ UNCHANGED <<epoch[b], queued[b], toRenderer[b], rendererSideVars>>
      BY <2>2 DEF RenderProcessGone, ChannelError
    <3>2. Idle(b)'
      BY <3>1 DEF InStep, Idle, rendererSideVars
    <3> QED BY <3>1, <3>2 DEF InStep, QueuedPast, Elements
  <2>3. CASE OnBeforeClose(c)
    <3>1. proc'[b] = "closed" /\ queued'[b] = <<>> /\ Idle(b)'
      BY <2>3 DEF OnBeforeClose, DestroyChannel, ForgetProcess, Idle
    <3> QED BY <3>1 DEF InStep, QueuedPast, Elements
  <2>4. CASE CommitElsewhere(c)
    <3>1. /\ proc'[b] = "live" /\ ~queueing'[b] /\ epoch'[b] = epoch[b] + 1
          /\ queued'[b] = queued[b] /\ queries' = queries
      BY <2>4 DEF CommitElsewhere, SwapProcess, browserSideVars
    <3>2. toBrowser'[b] = <<>> /\ requests'[b] = {} /\ Idle(b)'
      BY <2>4 DEF CommitElsewhere, SwapProcess, ForgetProcess, Idle
    <3>3. PendingOf(b)' = {} /\ QueuedPast(b)'
      BY <3>1, NewPending
    <3>4. Linked(b)'
      BY <3>2, <3>3, NewIsLinked
    <3> QED BY <3>1, <3>3, <3>4 DEF InStep
  <2> QED BY <2>1, <2>2, <2>3, <2>4
<1> QED BY <1>1, <1>2

LEMMA InStepStep ==
  ASSUME LinkedInv, [Next]_vars, NEW b \in Browser
  PROVE  InStep(b)'
<1>1. CASE HandlerStep \/ UiTaskStep
  BY <1>1, HandlersInStep
<1>2. ASSUME NEW c \in Browser, BrowserStep(c) PROVE InStep(b)'
  <2>1. CASE OnProcessMessageReceived(c)
    BY <2>1, QueryInStep, CancelInStep DEF OnProcessMessageReceived
  <2> QED BY <1>2, <2>1, LateInStep, RendererInStep, NavigationInStep, LaunchInStep,
             ReadyInStep, EndInStep DEF BrowserStep
<1>3. CASE UNCHANGED vars
  <2>1. HandlerSide(b)
    BY <1>3, NothingHappens DEF vars, transportVars, browserSideVars, rendererSideVars
  <2> QED BY <1>3, <2>1, HandlerSideInStep DEF vars, transportVars, rendererSideVars
<1> QED BY <1>1, <1>2, <1>3 DEF Next

(* The ids of queries ascend, and their processes are not yet to come.     *)
LEMMA TakeQueryIds ==
  ASSUME TypeInv, IdsAscend, NEW b \in Browser, NEW e, e <= epoch[b],
         NEW m, NEW unguarded, NEW taker, NEW removed,
         TakeQuery(b, e, m, unguarded, taker, removed)
  PROVE  IdsAscend' /\ (QueriesPast => QueriesPast')
<1>0. nextQueryId \in Nat /\ \A q \in DOMAIN queries : q \in Nat
  BY DEF TypeInv, TypeOK, BrowserSideTypeOK, QueryId
<1>1. /\ nextQueryId' \in {nextQueryId, nextQueryId + 1} /\ epoch' = epoch
      /\ handlers # {} => nextQueryId' = nextQueryId + 1
  BY DEF TakeQuery
<1>2. CASE taker \in handlers
  BY <1>0, <1>1, <1>2 DEF TakeQuery, IdsAscend, QueriesPast
<1>3. CASE taker \notin handlers
  <2>1. \A q \in DOMAIN queries' : q \in DOMAIN queries /\ queries'[q] = queries[q]
    BY <1>3 DEF TakeQuery, CancelQueries, Without
  <2> QED BY <1>0, <1>1, <2>1 DEF IdsAscend, QueriesPast
<1> QED BY <1>2, <1>3

LEMMA EpochGrows ==
  ASSUME TypeInv, [Next]_vars, NEW b \in Browser
  PROVE  epoch'[b] \in {epoch[b], epoch[b] + 1}
<1> USE DEF TypeInv, TypeOK, TransportTypeOK
<1>1. CASE HandlerStep \/ UiTaskStep
  BY <1>1
  DEF HandlerStep, AddHandler, RemoveHandler, CancelPending, CancelPendingOffUI, Succeed,
      Fail, AnswerOffUI, CallbackUnchanged, UiTaskStep, RunSuccess, RunFailure,
      RunCancelPending, OnCallbackSuccess, OnCallbackFailure, DeliverUnchanged, transportVars
<1>2. ASSUME NEW c \in Browser, OnProcessMessageReceived(c) \/ ReceiveLate(c)
      PROVE  epoch' = epoch
  BY <1>2
  DEF OnProcessMessageReceived, ReceiveQuery, TakeQuery, ReceiveCancel, CancelPendingRequest,
      ReceiveLate, ReceiveLateQuery, ReceiveLateCancel
<1>3. ASSUME NEW c \in Browser,
             \/ JavaScriptStep(c) \/ ReceiveAnswerStep(c) \/ ExecuteStep(c)
             \/ (\E f \in Frame : ReleaseContext(c, f)) \/ OnBeforeBrowse(c) \/ StopLoad(c)
             \/ RenderViewReady(c) \/ Crash(c) \/ OnBeforeClose(c)
             \/ \E normal \in BOOLEAN : RenderProcessGone(c, normal)
      PROVE  epoch' = epoch
  BY <1>3
  DEF JavaScriptStep, CefQuery, CefQueryCancel, CancelUnchanged, ReceiveAnswerStep,
      ReceiveAnswer, ExecuteStep, ExecuteSuccessCallback, ExecuteFailureCallback,
      ReleaseContext, OnContextReleased, OnBeforeBrowse, StopLoad, RenderViewReady,
      FlushQueue, Crash, ProcessDies, OnBeforeClose, DestroyChannel, RenderProcessGone,
      ChannelError, transportVars
<1>4. ASSUME NEW c \in Browser, CommitElsewhere(c) \/ LaunchRenderer(c)
      PROVE  epoch' = [epoch EXCEPT ![c] = @ + 1]
  BY <1>4 DEF CommitElsewhere, SwapProcess, LaunchRenderer, LaunchProcess
<1>5. CASE UNCHANGED vars
  BY <1>5 DEF vars, transportVars
<1> QED BY <1>1, <1>2, <1>3, <1>4, <1>5 DEF Next, BrowserStep

LEMMA IdsAscendStep ==
  ASSUME TypeInv, IdsAscend, [Next]_vars
  PROVE  IdsAscend' /\ (QueriesPast => QueriesPast')
<1>1. CASE \E b \in Browser : \E taker, removed : Adds(b, taker, removed)
  <2>0. PICK b \in Browser : \E taker, removed : Adds(b, taker, removed)
    BY <1>1
  <2>1. PICK taker, removed : Adds(b, taker, removed)
    BY <2>0
  <2>2. epoch[b] <= epoch[b]
    BY BoundsAssumption DEF TypeInv, TypeOK, TransportTypeOK
  <2> QED BY <2>1, <2>2, TakeQueryIds DEF Adds, ReceiveQuery
<1>2. CASE \E b \in Browser : \E taker, removed : \E e \in Epoch : AddsLate(b, e, taker, removed)
  <2>0. PICK b \in Browser : \E e \in Epoch : \E taker, removed : AddsLate(b, e, taker, removed)
    BY <1>2
  <2>1. PICK e \in Epoch : \E taker, removed : AddsLate(b, e, taker, removed)
    BY <2>0
  <2>2. e < epoch[b]
    BY <2>1, LateArrivedType DEF AddsLate, ReceiveLateQuery
  <2>3. e <= epoch[b]
    BY <2>2, BoundsAssumption DEF Epoch, TypeInv, TypeOK, TransportTypeOK
  <2> QED BY <2>1, <2>3, TakeQueryIds DEF AddsLate, ReceiveLateQuery
<1>3. CASE ~\E b \in Browser : \E taker, removed :
                Adds(b, taker, removed) \/ \E e \in Epoch : AddsLate(b, e, taker, removed)
  <2>1. \A q : Kept(q)
    BY <1>3, AddedByReceiveQuery
  <2>2. nextQueryId' = nextQueryId
    <3>1. CASE HandlerStep \/ UiTaskStep
      BY <3>1
      DEF HandlerStep, AddHandler, RemoveHandler, CancelPending, CancelPendingOffUI, Succeed,
          Fail, AnswerOffUI, CallbackUnchanged, UiTaskStep, RunSuccess, RunFailure,
          RunCancelPending, OnCallbackSuccess, OnCallbackFailure, DeliverUnchanged
    <3>2. ASSUME NEW b \in Browser, OnProcessMessageReceived(b) \/ ReceiveLate(b)
          PROVE  nextQueryId' = nextQueryId
      BY <1>3, <3>2
      DEF OnProcessMessageReceived, ReceiveLate, Adds, AddsLate, ReceiveCancel,
          ReceiveLateCancel, CancelPendingRequest
    <3>3. ASSUME NEW b \in Browser, BrowserStep(b) PROVE nextQueryId' = nextQueryId
      BY <3>2, <3>3
      DEF BrowserStep, JavaScriptStep, ReceiveAnswerStep, ExecuteStep, OnBeforeBrowse,
          ReleaseContext, StopLoad, CommitElsewhere, LaunchRenderer, RenderViewReady, Crash,
          RenderProcessGone, OnBeforeClose, browserSideVars
    <3>4. CASE UNCHANGED vars
      BY <3>4 DEF vars, browserSideVars
    <3> QED BY <3>1, <3>3, <3>4 DEF Next
  <2>3. ASSUME QueriesPast PROVE QueriesPast'
    <3> SUFFICES ASSUME NEW q \in DOMAIN queries'
                 PROVE  queries'[q].epoch <= epoch'[queries'[q].browser]
      BY DEF QueriesPast
    <3>1. /\ q \in DOMAIN queries /\ queries'[q] = queries[q]
          /\ queries[q].browser \in Browser /\ queries[q].epoch \in Nat
      BY <2>1, BoundsAssumption DEF Kept, TypeInv, TypeOK, BrowserSideTypeOK, QueryInfo, Epoch
    <3>2. epoch'[queries[q].browser] \in {epoch[queries[q].browser], epoch[queries[q].browser] + 1}
      BY <3>1, EpochGrows
    <3>3. epoch[queries[q].browser] \in Nat
      BY <3>1, BoundsAssumption DEF TypeInv, TypeOK, TransportTypeOK
    <3> QED BY <2>3, <3>1, <3>2, <3>3 DEF QueriesPast
  <2> QED BY <2>1, <2>2, <2>3 DEF Kept, IdsAscend
<1> QED BY <1>1, <1>2, <1>3

LEMMA LinkedInvInit == Init => LinkedInv
<1> SUFFICES ASSUME Init PROVE LinkedInv
  OBVIOUS
<1>1. TypeInv
  BY TypeInvInit
<1>2. QueriesPast /\ IdsAscend
  BY DEF Init, BrowserSideInit, QueriesPast, IdsAscend
<1>3. \A b \in Browser : queued[b] = <<>> /\ proc[b] # "live" /\ Idle(b)
  BY DEF Init, TransportInit, RendererSideInit, Idle
<1> QED BY <1>1, <1>2, <1>3 DEF LinkedInv, InStep, QueuedPast, Elements

LEMMA LinkedInvStep == LinkedInv /\ [Next]_vars => LinkedInv'
<1> SUFFICES ASSUME LinkedInv, [Next]_vars PROVE LinkedInv'
  OBVIOUS
<1>1. TypeInv'
  BY TypeInvStep, LinkedInvFacts
<1>2. QueriesPast' /\ IdsAscend'
  BY IdsAscendStep DEF LinkedInv
<1> QED BY <1>1, <1>2, InStepStep DEF LinkedInv

LEMMA LinkedNoOrphans == LinkedInv => NoOrphans
<1> SUFFICES ASSUME LinkedInv PROVE NoOrphanQuery /\ NoOrphanRequest
  BY DEF NoOrphans
<1>0. TypeInv /\ \A b \in Browser : proc[b] = "live" => Linked(b)
  BY LinkedInvFacts
<1>1. NoOrphanQuery
  <2>1. ASSUME NEW q \in DOMAIN queries, proc[queries[q].browser] = "live",
               queries[q].epoch = epoch[queries[q].browser]
        PROVE  \/ Waiting(queries[q].browser, queries[q].ctx, queries[q].req)
               \/ CancelBehind(queries[q].browser, queries[q].ctx, queries[q].req, 0)
               \/ UidOfQuery(q) \in misled \cup unheard
    <3>1. queries[q].browser \in Browser
      BY <1>0 DEF TypeInv, TypeOK, BrowserSideTypeOK, QueryInfo
    <3>2. UidOfQuery(q) = UidOf(queries[q].browser, queries[q].req)
      BY <2>1 DEF UidOfQuery, UidOf
    <3> QED BY <1>0, <2>1, <3>1, <3>2 DEF Linked, QueriesAwaited, PendingOf, Excused
  <2>2. ASSUME NEW b \in Browser, NEW n \in 1 .. Len(toBrowser[b]),
               proc[b] = "live", toBrowser[b][n].kind = "query"
        PROVE  \/ Waiting(b, toBrowser[b][n].ctx, toBrowser[b][n].req)
               \/ CancelBehind(b, toBrowser[b][n].ctx, toBrowser[b][n].req, n)
               \/ UidOf(b, toBrowser[b][n].req) \in misled
    BY <1>0, <2>2 DEF Linked, QueriesAwaited, Misled
  <2> QED BY <2>1, <2>2 DEF NoOrphanQuery
<1>2. NoOrphanRequest
  <2> SUFFICES ASSUME NEW b \in Browser, NEW i \in requests[b]
               PROVE  \/ Asked(b, i) \/ Pending(b, i) \/ AnswerOnItsWay(b, i)
                      \/ UidOf(b, i.req) \in dropped
    BY DEF NoOrphanRequest
  <2>1. RequestsKept(b)
    BY <1>0 DEF TypeInv, Started, Linked
  <2>2. CASE \E m \in QueryMsgs(b) : m.req = i.req
    BY <2>2 DEF QueryMsgs, Elements, Asked
  <2>3. CASE \E q \in PendingOf(b) : queries[q].req = i.req
    BY <2>3 DEF Pending, PendingOf, UidOfQuery, UidOf
  <2>4. CASE \E a \in Answers(b) : ForGood(a, i)
    BY <2>4 DEF Answers, Own, Elements, AnswerOnItsWay, Ends, ForGood, AnswerTo
  <2> QED BY <2>1, <2>2, <2>3, <2>4 DEF RequestsKept
<1> QED BY <1>1, <1>2

(* The two sides never disagree about a query: a handler is never left     *)
(* with one that nobody waits for, nor JavaScript with one that nobody     *)
(* will answer, but for what another process of the browser took in its    *)
(* place.                                                                  *)
THEOREM NothingOrphaned == Spec => []NoOrphans
<1>1. LinkedInv /\ [Next]_vars => LinkedInv'
  BY LinkedInvStep
<1> QED BY <1>1, LinkedInvInit, LinkedNoOrphans, PTL DEF Spec

-----------------------------------------------------------------------------
(* A callback and its answer: the terminal answers posted for a query,     *)
(* persistent or not, in a queue of tasks.                                 *)
EndsIt(t, q, persistent) ==
  /\ t.query = q
  /\ \/ t.op = "OnCallbackFailure"
     \/ t.op = "OnCallbackSuccess" /\ ~persistent

Posted(s, q, persistent) == {n \in 1 .. Len(s) : EndsIt(s[n], q, persistent)}
PostedOnce(s, q, persistent) == \E n : Posted(s, q, persistent) = {n}

(* The callback is in use, and nothing ends the query, or it is used up    *)
(* and one answer does.                                                    *)
Counted(s, q) ==
  IF q \in attached THEN Posted(s, q, queries[q].persistent) = {}
                    ELSE PostedOnce(s, q, queries[q].persistent)

Fresh(s) == \A n \in 1 .. Len(s) : s[n].query < nextQueryId

OnceInv ==
  /\ TypeInv /\ IdsAscend /\ attached \subseteq DOMAIN queries /\ Fresh(uiTasks)
  /\ \A q \in DOMAIN queries : Counted(uiTasks, q)

(* A task that ends nothing leaves the queue.                              *)
LEMMA TailPosted ==
  ASSUME NEW s \in Seq(UiTask), s # <<>>, NEW q, NEW p, ~EndsIt(Head(s), q, p)
  PROVE  /\ Posted(s, q, p) = {} => Posted(Tail(s), q, p) = {}
         /\ PostedOnce(s, q, p) => PostedOnce(Tail(s), q, p)
<1>1. /\ Len(s) \in Nat \ {0} /\ Len(Tail(s)) = Len(s) - 1 /\ Head(s) = s[1]
      /\ \A n \in 1 .. Len(Tail(s)) : Tail(s)[n] = s[n + 1]
  BY EmptySeq, HeadTailProperties, LenProperties
<1>2. ASSUME NEW n \in Posted(Tail(s), q, p) PROVE n \in Nat /\ n + 1 \in Posted(s, q, p)
  BY <1>1, <1>2 DEF Posted
<1>3. ASSUME NEW n \in Posted(s, q, p) PROVE n \in Nat /\ n - 1 \in Posted(Tail(s), q, p)
  <2>1. n \in 1 .. Len(s) /\ n # 1
    BY <1>1, <1>3 DEF Posted
  <2>2. n - 1 \in 1 .. Len(Tail(s)) /\ Tail(s)[n - 1] = s[n]
    BY <1>1, <2>1
  <2> QED BY <1>3, <2>1, <2>2 DEF Posted
<1>4. ASSUME NEW n, Posted(s, q, p) = {n} PROVE Posted(Tail(s), q, p) = {n - 1}
  <2>1. n \in Nat /\ n - 1 \in Posted(Tail(s), q, p)
    BY <1>3, <1>4
  <2>2. ASSUME NEW k \in Posted(Tail(s), q, p) PROVE k = n - 1
    <3>1. k \in Nat /\ k + 1 = n
      BY <1>2, <1>4, <2>2
    <3> QED BY <3>1
  <2> QED BY <2>1, <2>2
<1> QED BY <1>2, <1>4 DEF PostedOnce

(* A task is posted.                                                       *)
LEMMA AppendPosted ==
  ASSUME NEW s \in Seq(UiTask), NEW t, NEW q, NEW p
  PROVE  Posted(Append(s, t), q, p)
           = Posted(s, q, p) \cup (IF EndsIt(t, q, p) THEN {Len(s) + 1} ELSE {})
<1> DEFINE u == Append(s, t)
<1>1. /\ Len(s) \in Nat /\ Len(u) = Len(s) + 1 /\ u[Len(s) + 1] = t
      /\ \A n \in 1 .. Len(s) : u[n] = s[n]
  BY LenProperties, AppendProperties
<1> HIDE DEF u
<1>2. \A n : n \in 1 .. Len(u) <=> n \in 1 .. Len(s) \/ n = Len(s) + 1
  BY <1>1
<1>3. Posted(u, q, p) = Posted(s, q, p) \cup (IF EndsIt(t, q, p) THEN {Len(s) + 1} ELSE {})
  <2>1. ASSUME NEW n \in Posted(u, q, p)
        PROVE  n \in Posted(s, q, p) \cup (IF EndsIt(t, q, p) THEN {Len(s) + 1} ELSE {})
    BY <1>1, <1>2, <2>1 DEF Posted
  <2>2. ASSUME NEW n \in Posted(s, q, p) PROVE n \in Posted(u, q, p)
    BY <1>1, <1>2, <2>2 DEF Posted
  <2>3. EndsIt(t, q, p) => Len(s) + 1 \in Posted(u, q, p)
    BY <1>1, <1>2 DEF Posted
  <2> QED BY <2>1, <2>2, <2>3
<1> QED BY <1>3 DEF u

LEMMA FreshTail ==
  ASSUME NEW s \in Seq(UiTask), s # <<>>, Fresh(s)
  PROVE  Fresh(Tail(s)) /\ Tail(s) \in Seq(UiTask) /\ Head(s) \in UiTask
<1>1. /\ Len(s) \in Nat \ {0} /\ Len(Tail(s)) = Len(s) - 1
      /\ \A n \in 1 .. Len(Tail(s)) : Tail(s)[n] = s[n + 1]
      /\ Tail(s) \in Seq(UiTask) /\ Head(s) \in UiTask
  BY EmptySeq, HeadTailProperties, LenProperties
<1>2. \A n \in 1 .. Len(Tail(s)) : n + 1 \in 1 .. Len(s)
  BY <1>1
<1> QED BY <1>1, <1>2 DEF Fresh

LEMMA FreshAppend ==
  ASSUME NEW s \in Seq(UiTask), NEW t, Fresh(s), t.query < nextQueryId
  PROVE  Fresh(Append(s, t))
<1> DEFINE u == Append(s, t)
<1>1. /\ Len(s) \in Nat /\ Len(u) = Len(s) + 1 /\ u[Len(s) + 1] = t
      /\ \A n \in 1 .. Len(s) : u[n] = s[n]
  BY LenProperties, AppendProperties
<1> HIDE DEF u
<1>2. \A n : n \in 1 .. Len(u) <=> n \in 1 .. Len(s) \/ n = Len(s) + 1
  BY <1>1
<1>3. Fresh(u)
  BY <1>1, <1>2 DEF Fresh
<1> QED BY <1>3 DEF u

(* The callback is called: with |rest| for the tasks before it.            *)
LEMMA CallbackOnce ==
  ASSUME OnceInv, NEW c \in QueryId, NEW rest \in Seq(UiTask), Fresh(rest),
         \A q \in DOMAIN queries : Counted(rest, q),
         CallbackSuccess(c, rest) \/ CallbackFailure(c, rest),
         UNCHANGED <<queries, nextQueryId>>
  PROVE  /\ attached' \subseteq DOMAIN queries' /\ Fresh(uiTasks)'
         /\ \A q \in DOMAIN queries' : Counted(uiTasks, q)'
<1>1. CASE c \notin attached
  BY <1>1 DEF OnceInv, CallbackSuccess, CallbackFailure, Fresh, Counted
<1>2. CASE c \in attached
  <2>1. PICK o \in {"OnCallbackSuccess", "OnCallbackFailure"} :
           /\ uiTasks' = Append(rest, QueryTask(o, c))
           /\ attached' = IF o = "OnCallbackSuccess" /\ queries[c].persistent
                          THEN attached ELSE attached \ {c}
    BY <1>2 DEF CallbackSuccess, CallbackFailure
  <2>2. QueryTask(o, c).query = c /\ QueryTask(o, c).op = o
    BY DEF QueryTask
  <2>3. c \in DOMAIN queries /\ c < nextQueryId
    BY <1>2 DEF OnceInv, IdsAscend
  <2>4. Fresh(uiTasks)'
    <3>1. Fresh(Append(rest, QueryTask(o, c)))
      BY <2>2, <2>3, FreshAppend
    <3> QED BY <2>1, <3>1 DEF Fresh
  <2>5. ASSUME NEW q \in DOMAIN queries PROVE Counted(uiTasks, q)'
    <3> DEFINE p == queries[q].persistent
               t == QueryTask(o, c)
    <3>1. Posted(uiTasks', q, p) = Posted(rest, q, p) \cup (IF EndsIt(t, q, p) THEN {Len(rest) + 1} ELSE {})
      BY <2>1, AppendPosted
    <3>2. EndsIt(t, q, p) <=> q = c /\ (o = "OnCallbackFailure" \/ ~p)
      BY <2>1, <2>2 DEF EndsIt
    <3>3. Counted(rest, q)
      OBVIOUS
    <3>4. q \in attached' <=> q \in attached /\ ~(q = c /\ (o = "OnCallbackFailure" \/ ~p))
      BY <2>1
    <3> HIDE DEF t
    <3>5. IF q \in attached' THEN Posted(uiTasks', q, p) = {} ELSE PostedOnce(uiTasks', q, p)
      BY <1>2, <3>1, <3>2, <3>3, <3>4 DEF Counted, PostedOnce
    <3> QED BY <3>5 DEF Counted
  <2> QED BY <2>1, <2>4, <2>5 DEF OnceInv
<1> QED BY <1>1, <1>2

(* Queries leave the map.                                                  *)
LEMMA CancelOnce ==
  ASSUME OnceInv, NEW Q, CancelQueries(Q), UNCHANGED nextQueryId, Fresh(uiTasks'),
         \A q \in DOMAIN queries : Counted(uiTasks', q)
  PROVE  /\ attached' \subseteq DOMAIN queries' /\ Fresh(uiTasks)'
         /\ \A q \in DOMAIN queries' : Counted(uiTasks, q)'
BY DEF OnceInv, CancelQueries, Without, Counted, Fresh, PostedOnce

LEMMA OnceInvFacts ==
  ASSUME OnceInv
  PROVE  /\ TypeInv /\ BrowserSideTypeOK /\ uiTasks \in Seq(UiTask) /\ Fresh(uiTasks) /\ IdsAscend
         /\ \A q \in DOMAIN queries : Counted(uiTasks, q)
         /\ nextQueryId \in Nat \ {0} /\ DOMAIN queries \subseteq QueryId
         /\ attached \subseteq DOMAIN queries
BY DEF OnceInv, TypeInv, TypeOK, BrowserSideTypeOK

OnceKept ==
  /\ attached' \subseteq DOMAIN queries' /\ Fresh(uiTasks)'
  /\ \A q \in DOMAIN queries' : Counted(uiTasks, q)'

(* A call from another thread was run and leaves the queue.                *)
LEMMA HeadRuns ==
  ASSUME OnceInv, uiTasks # <<>>, Head(uiTasks).op \in {"Success", "Failure", "CancelPendingFor"}
  PROVE  /\ Tail(uiTasks) \in Seq(UiTask) /\ Fresh(Tail(uiTasks))
         /\ \A q \in DOMAIN queries : Counted(Tail(uiTasks), q)
<1>1. Tail(uiTasks) \in Seq(UiTask) /\ Fresh(Tail(uiTasks))
  BY OnceInvFacts, FreshTail
<1>2. ASSUME NEW q \in DOMAIN queries PROVE Counted(Tail(uiTasks), q)
  <2>1. ~EndsIt(Head(uiTasks), q, queries[q].persistent)
    BY DEF EndsIt
  <2>2. /\ Posted(uiTasks, q, queries[q].persistent) = {}
             => Posted(Tail(uiTasks), q, queries[q].persistent) = {}
        /\ PostedOnce(uiTasks, q, queries[q].persistent)
             => PostedOnce(Tail(uiTasks), q, queries[q].persistent)
    BY <2>1, OnceInvFacts, TailPosted
  <2> QED BY <2>2, OnceInvFacts DEF Counted
<1> QED BY <1>1, <1>2

(* An answer is delivered: unless it is a success of a persistent query,   *)
(* its query leaves the map with it.                                       *)
LEMMA DeliverOnce ==
  ASSUME OnceInv, NEW success \in BOOLEAN, uiTasks # <<>>,
         Head(uiTasks).op = (IF success THEN "OnCallbackSuccess" ELSE "OnCallbackFailure"),
         Deliver(Head(uiTasks).query, success), DeliverUnchanged
  PROVE  OnceKept
<1> DEFINE t == Head(uiTasks)
           c == t.query
<1>1. uiTasks' = Tail(uiTasks) /\ attached' = attached /\ nextQueryId' = nextQueryId
  BY DEF DeliverUnchanged
<1>2. Tail(uiTasks) \in Seq(UiTask) /\ Fresh(Tail(uiTasks)) /\ t \in UiTask
  BY OnceInvFacts, FreshTail
<1>3. \A q \in DOMAIN queries' :
         /\ q \in DOMAIN queries /\ queries'[q] = queries[q]
         /\ q = c => success /\ queries[q].persistent
  BY DEF Deliver, Without
<1>4. \A q \in DOMAIN queries : q \notin DOMAIN queries' =>
         q = c /\ (~success \/ ~queries[q].persistent)
  BY DEF Deliver, Without
<1>5. ASSUME NEW q \in DOMAIN queries' PROVE Counted(uiTasks, q)'
  <2> DEFINE p == queries[q].persistent
  <2>1. ~EndsIt(t, q, p)
    BY <1>3 DEF EndsIt
  <2>2. /\ Posted(uiTasks, q, p) = {} => Posted(Tail(uiTasks), q, p) = {}
        /\ PostedOnce(uiTasks, q, p) => PostedOnce(Tail(uiTasks), q, p)
    BY <2>1, OnceInvFacts, TailPosted
  <2>3. Counted(uiTasks, q)
    BY <1>3, OnceInvFacts
  <2>4. IF q \in attached' THEN Posted(uiTasks', q, p) = {} ELSE PostedOnce(uiTasks', q, p)
    BY <1>1, <2>2, <2>3 DEF Counted
  <2> QED BY <1>3, <2>4 DEF Counted
<1>6. ASSUME NEW q \in attached PROVE q \in DOMAIN queries'
  <2>1. q \in DOMAIN queries /\ Counted(uiTasks, q)
    BY OnceInvFacts
  <2>2. Posted(uiTasks, q, queries[q].persistent) = {}
    BY <2>1 DEF Counted
  <2>3. 1 \in 1 .. Len(uiTasks) /\ uiTasks[1] = t
    BY OnceInvFacts, EmptySeq, LenProperties, HeadTailProperties
  <2>4. ~EndsIt(t, q, queries[q].persistent)
    BY <2>2, <2>3 DEF Posted
  <2> QED BY <1>4, <2>1, <2>4 DEF EndsIt
<1> QED BY <1>1, <1>2, <1>5, <1>6 DEF OnceKept, Fresh

(* A query is taken, under an id nothing was posted for.                   *)
LEMMA TakeQueryOnce ==
  ASSUME OnceInv, NEW b, NEW e, NEW m, NEW unguarded, NEW taker, NEW removed,
         TakeQuery(b, e, m, unguarded, taker, removed)
  PROVE  OnceKept
<1> DEFINE gone == Matching(Browser, removed)
           i == [browser |-> b, epoch |-> e, ctx |-> m.ctx, req |-> m.req,
                 persistent |-> m.persistent, handler |-> taker, unguarded |-> unguarded]
<1>1. uiTasks' = uiTasks /\ nextQueryId <= nextQueryId' /\ nextQueryId' \in Nat
  BY OnceInvFacts DEF TakeQuery
<1>2. Fresh(uiTasks)'
  <2>1. \A n \in 1 .. Len(uiTasks) : uiTasks[n].query \in Nat
    <3>1. \A t \in UiTask : t.query \in Nat
      BY DEF UiTask, QueryId, kReservedId
    <3> QED BY <3>1, OnceInvFacts, ElementOfSeq
  <2> QED BY <1>1, <2>1, OnceInvFacts DEF Fresh
<1>3. CASE taker \notin handlers
  <2>1. CancelQueries(gone)
    BY <1>3 DEF TakeQuery
  <2> HIDE DEF gone
  <2> QED BY <1>1, <1>2, <2>1, OnceInvFacts DEF CancelQueries, Without, Counted, PostedOnce, OnceKept
<1>4. CASE taker \in handlers
  <2>1. /\ queries' = [q \in (DOMAIN queries \ gone) \cup {nextQueryId} |->
                         IF q = nextQueryId THEN i ELSE queries[q]]
        /\ attached' = (attached \ gone) \cup {nextQueryId}
    BY <1>4 DEF TakeQuery
  <2> HIDE DEF gone, i
  <2>2. attached' \subseteq DOMAIN queries'
    BY <2>1, OnceInvFacts
  <2>3. ASSUME NEW q \in DOMAIN queries', q # nextQueryId PROVE Counted(uiTasks, q)'
    <3>1. q \in DOMAIN queries /\ queries'[q] = queries[q] /\ (q \in attached' <=> q \in attached)
      BY <2>1, <2>3
    <3>2. Counted(uiTasks, q)
      BY <3>1, OnceInvFacts
    <3> QED BY <1>1, <3>1, <3>2 DEF Counted, PostedOnce
  <2>4. ASSUME NEW q \in DOMAIN queries', q = nextQueryId PROVE Counted(uiTasks, q)'
    <3>1. \A p : Posted(uiTasks, q, p) = {}
      <4>1. \A n \in 1 .. Len(uiTasks) : uiTasks[n].query # q
        BY <2>4, OnceInvFacts DEF Fresh
      <4> QED BY <4>1 DEF Posted, EndsIt
    <3>2. q \in attached'
      BY <2>1, <2>4
    <3> QED BY <1>1, <3>1, <3>2 DEF Counted
  <2> QED BY <1>2, <2>2, <2>3, <2>4 DEF OnceKept
<1> QED BY <1>3, <1>4

(* Where no task is posted or run, the queries that stay keep their        *)
(* callbacks and their answers.                                            *)
LEMMA QuietOnce ==
  ASSUME OnceInv, UNCHANGED <<uiTasks, nextQueryId>>,
         (\E Q : CancelQueries(Q)) \/ UNCHANGED <<queries, attached>>
  PROVE  OnceKept
<1>1. Fresh(uiTasks') /\ \A q \in DOMAIN queries : Counted(uiTasks', q)
  BY OnceInvFacts
<1>2. CASE \E Q : CancelQueries(Q)
  BY <1>1, <1>2, CancelOnce DEF OnceKept
<1>3. CASE UNCHANGED <<queries, attached>>
  BY <1>1, <1>3, OnceInvFacts DEF OnceKept, Fresh, Counted, PostedOnce
<1> QED BY <1>2, <1>3

(* A task that ends nothing is posted.                                     *)
LEMMA PostOnce ==
  ASSUME OnceInv, NEW t, uiTasks' = Append(uiTasks, t), t.query < nextQueryId,
         t.op \notin {"OnCallbackSuccess", "OnCallbackFailure"},
         UNCHANGED <<queries, attached, nextQueryId>>
  PROVE  OnceKept
<1>1. Fresh(uiTasks)'
  <2>1. Fresh(Append(uiTasks, t))
    BY OnceInvFacts, FreshAppend
  <2> QED BY <2>1 DEF Fresh
<1>2. ASSUME NEW q \in DOMAIN queries PROVE Counted(uiTasks, q)'
  <2> DEFINE p == queries[q].persistent
  <2>1. ~EndsIt(t, q, p)
    BY DEF EndsIt
  <2>2. Posted(uiTasks', q, p) = Posted(uiTasks, q, p)
    <3>1. Posted(Append(uiTasks, t), q, p)
            = Posted(uiTasks, q, p) \cup (IF EndsIt(t, q, p) THEN {Len(uiTasks) + 1} ELSE {})
      BY OnceInvFacts, AppendPosted
    <3> HIDE DEF p
    <3> QED BY <2>1, <3>1
  <2>3. Counted(uiTasks, q)
    BY OnceInvFacts
  <2> QED BY <2>2, <2>3 DEF Counted, PostedOnce
<1> QED BY <1>1, <1>2, OnceInvFacts DEF OnceKept

LEMMA HandlerStepOnce ==
  ASSUME OnceInv, HandlerStep
  PROVE  OnceKept
<1>1. CASE \E h \in Handler : AddHandler(h) \/ RemoveHandler(h)
  BY <1>1, QuietOnce DEF AddHandler, RemoveHandler, CancelPendingFor
<1>2. ASSUME NEW B, NEW H, CancelPending(B, H) PROVE OnceKept
  BY <1>2, QuietOnce DEF CancelPending, CancelPendingFor
<1>3. ASSUME NEW B, NEW H, CancelPendingOffUI(B, H) PROVE OnceKept
  <2> DEFINE t == CancelTask(B, H)
  <2>1. t.query = kReservedId /\ t.op = "CancelPendingFor"
    BY DEF CancelTask
  <2>2. uiTasks' = Append(uiTasks, t) /\ UNCHANGED <<queries, attached, nextQueryId>>
    BY <1>3 DEF CancelPendingOffUI
  <2> HIDE DEF t
  <2>3. t.query < nextQueryId
    BY <2>1, OnceInvFacts DEF kReservedId
  <2> QED BY <2>1, <2>2, <2>3, PostOnce
<1>4. ASSUME NEW q \in DOMAIN queries, Succeed(q) \/ Fail(q) PROVE OnceKept
  <2>1. /\ CallbackSuccess(q, uiTasks) \/ CallbackFailure(q, uiTasks)
        /\ UNCHANGED <<queries, nextQueryId>> /\ q \in QueryId
    BY <1>4, OnceInvFacts DEF Succeed, Fail, CallbackUnchanged
  <2> QED BY <2>1, OnceInvFacts, CallbackOnce DEF OnceKept
<1>5. ASSUME NEW q \in DOMAIN queries, NEW op \in {"Success", "Failure"}, AnswerOffUI(q, op)
      PROVE  OnceKept
  <2> DEFINE t == QueryTask(op, q)
  <2>1. t.query = q /\ t.op = op
    BY DEF QueryTask
  <2>2. uiTasks' = Append(uiTasks, t) /\ UNCHANGED <<queries, attached, nextQueryId>>
    BY <1>5 DEF AnswerOffUI, CallbackUnchanged
  <2> HIDE DEF t
  <2>3. t.query < nextQueryId
    BY <2>1, OnceInvFacts DEF IdsAscend
  <2> QED BY <1>5, <2>1, <2>2, <2>3, PostOnce
<1> QED BY <1>1, <1>2, <1>3, <1>4, <1>5 DEF HandlerStep

LEMMA UiTaskStepOnce ==
  ASSUME OnceInv, UiTaskStep
  PROVE  OnceKept
<1> DEFINE c == Head(uiTasks).query
<1>1. CASE RunSuccess \/ RunFailure
  <2>1. /\ uiTasks # <<>> /\ Head(uiTasks).op \in {"Success", "Failure", "CancelPendingFor"}
        /\ CallbackSuccess(c, Tail(uiTasks)) \/ CallbackFailure(c, Tail(uiTasks))
        /\ UNCHANGED <<queries, nextQueryId>>
    BY <1>1 DEF RunSuccess, RunFailure, NextTask, CallbackUnchanged
  <2>2. CASE c \in QueryId
    BY <2>1, <2>2, HeadRuns, CallbackOnce DEF OnceKept
  <2>3. CASE c \notin QueryId
    <3>1. uiTasks' = Tail(uiTasks) /\ attached' = attached
      BY <2>1, <2>3, OnceInvFacts DEF CallbackSuccess, CallbackFailure
    <3> QED BY <2>1, <3>1, HeadRuns, OnceInvFacts DEF OnceKept, Fresh, Counted, PostedOnce
  <2> QED BY <2>2, <2>3
<1>2. CASE RunCancelPending
  <2>1. /\ uiTasks # <<>> /\ Head(uiTasks).op = "CancelPendingFor"
        /\ uiTasks' = Tail(uiTasks) /\ UNCHANGED nextQueryId
        /\ \E Q : CancelQueries(Q)
    BY <1>2 DEF RunCancelPending, NextTask, CancelPendingFor
  <2>2. Fresh(uiTasks') /\ \A q \in DOMAIN queries : Counted(uiTasks', q)
    BY <2>1, HeadRuns
  <2> QED BY <2>1, <2>2, CancelOnce DEF OnceKept
<1>3. CASE OnCallbackSuccess
  BY <1>3, DeliverOnce DEF OnCallbackSuccess, NextTask
<1>4. CASE OnCallbackFailure
  BY <1>4, DeliverOnce DEF OnCallbackFailure, NextTask
<1> QED BY <1>1, <1>2, <1>3, <1>4 DEF UiTaskStep

LEMMA OnceInvStep == OnceInv /\ [Next]_vars => OnceInv'
<1> SUFFICES ASSUME OnceInv, [Next]_vars PROVE OnceInv'
  OBVIOUS
<1>1. TypeInv' /\ IdsAscend'
  BY TypeInvStep, IdsAscendStep, OnceInvFacts
<1>2. SUFFICES OnceKept
  BY <1>1 DEF OnceKept, OnceInv
<1>3. ASSUME NEW b \in Browser, BrowserStep(b) PROVE OnceKept
  <2>1. CASE OnProcessMessageReceived(b)
    <3>1. CASE \E taker \in handlers \cup {NoHandler}, removed \in SUBSET handlers :
                  ReceiveQuery(b, navigating[b], taker, removed)
      BY <3>1, TakeQueryOnce DEF ReceiveQuery
    <3>2. CASE ReceiveCancel(b)
      BY <3>2, QuietOnce DEF ReceiveCancel, CancelPendingRequest
    <3> QED BY <2>1, <3>1, <3>2 DEF OnProcessMessageReceived
  <2>4. CASE ReceiveLate(b)
    <3>1. CASE \E e \in Epoch : \E taker, removed : ReceiveLateQuery(b, e, taker, removed)
      BY <3>1, TakeQueryOnce DEF ReceiveLateQuery
    <3>2. CASE \E e \in Epoch : ReceiveLateCancel(b, e)
      BY <3>2, QuietOnce DEF ReceiveLateCancel, CancelPendingRequest
    <3> QED BY <2>4, <3>1, <3>2 DEF ReceiveLate
  <2>2. CASE OnBeforeBrowse(b) \/ OnBeforeClose(b)
             \/ (\E normal \in BOOLEAN : RenderProcessGone(b, normal))
    BY <2>2, QuietOnce DEF OnBeforeBrowse, OnBeforeClose, RenderProcessGone, CancelSilently
  <2>3. CASE ~(OnProcessMessageReceived(b) \/ ReceiveLate(b) \/ OnBeforeBrowse(b) \/ OnBeforeClose(b)
               \/ (\E normal \in BOOLEAN : RenderProcessGone(b, normal)))
    <3>1. UNCHANGED <<queries, attached, uiTasks, nextQueryId>>
      BY <1>3, <2>3
      DEF BrowserStep, JavaScriptStep, ReceiveAnswerStep, ExecuteStep, ReleaseContext, StopLoad,
          CommitElsewhere, LaunchRenderer, RenderViewReady, Crash, browserSideVars
    <3> QED BY <3>1, QuietOnce
  <2> QED BY <2>1, <2>2, <2>3, <2>4
<1>4. CASE UNCHANGED vars
  BY <1>4, QuietOnce DEF vars, browserSideVars
<1> QED BY <1>3, <1>4, HandlerStepOnce, UiTaskStepOnce DEF Next

LEMMA OnceCounts == OnceInv => CallbackUsedOnce
<1> SUFFICES ASSUME OnceInv PROVE CallbackUsedOnce
  OBVIOUS
<1>1. ASSUME NEW q \in DOMAIN queries
      PROVE  Cardinality({n \in 1 .. Len(uiTasks) : Terminal(uiTasks[n], q)})
               = IF q \in attached THEN 0 ELSE 1
  <2> DEFINE N == Posted(uiTasks, q, queries[q].persistent)
  <2>1. {n \in 1 .. Len(uiTasks) : Terminal(uiTasks[n], q)} = N
    BY DEF Posted, EndsIt, Terminal
  <2>2. Counted(uiTasks, q)
    BY OnceInvFacts
  <2> HIDE DEF N
  <2>3. CASE q \in attached
    <3>1. N = {}
      BY <2>2, <2>3 DEF Counted, N
    <3> QED BY <2>1, <2>3, <3>1, FS_EmptySet
  <2>4. CASE q \notin attached
    <3>1. PICK n : N = {n}
      BY <2>2, <2>4 DEF Counted, PostedOnce, N
    <3> QED BY <2>1, <2>4, <3>1, FS_Singleton
  <2> QED BY <2>3, <2>4
<1> QED BY <1>1, OnceInvFacts DEF CallbackUsedOnce

LEMMA OnceInvInit == Init => OnceInv
<1> SUFFICES ASSUME Init PROVE OnceInv
  OBVIOUS
<1>1. attached = {} /\ DOMAIN queries = {} /\ uiTasks = <<>>
  BY DEF Init, BrowserSideInit
<1> QED BY <1>1, TypeInvInit DEF OnceInv, IdsAscend, Fresh

(* A callback cannot be used up without its answer, nor can a query be     *)
(* answered twice, whichever threads call it and whatever cancels it: a    *)
(* pending query whose callback is used up has exactly one terminal answer *)
(* posted, and no other has one.                                           *)
THEOREM AnsweredOnce == Spec => []CallbackUsedOnce
BY OnceInvInit, OnceInvStep, OnceCounts, PTL DEF Spec

-----------------------------------------------------------------------------
(* The contract of a query, step by step.  What the history and the two    *)
(* sides say of a request, by its name.                                    *)
Name(b, e, r) == [browser |-> b, epoch |-> e, req |-> r]

Awaits(r) == \E i \in requests[r.browser] : UidOf(r.browser, i.req) = r
HasQuery(r) == \E q \in DOMAIN queries : UidOfQuery(q) = r

(* A request is told of only while it is waited for, and once its query    *)
(* ended, or by the answer to one not waited for; one is waited for anew   *)
(* only when it was made.                                                  *)
JsStep ==
  /\ issued \subseteq issued' /\ answered \subseteq answered' /\ misled \subseteq misled'
  /\ \A r \in Uid :
        /\ r \in answered' \ answered => Awaits(r) /\ HdView(r) = "ended"
        /\ r \in misled' \ misled =>
              Awaits(r) /\ \E s \in Uid \ {r} : s \in received /\ ~Awaits(s)
        /\ (Awaits(r)' /\ ~Awaits(r)) <=> r \in issued' \ issued

(* A query is pending anew only when its message was received, and only a  *)
(* pending one is dropped.                                                 *)
HdStep ==
  /\ received \subseteq received' /\ received' \ received \subseteq issued
  /\ dropped \subseteq dropped'
  /\ \A r \in Uid :
        /\ r \in dropped' \ dropped => HasQuery(r)
        /\ HasQuery(r)' /\ ~HasQuery(r) => r \in received' \ received

(* The ids of a process are new, and the history tells what became of them.*)
HistoryKnown ==
  /\ dropped \subseteq received /\ received \subseteq issued
  /\ answered \subseteq issued /\ misled \subseteq issued /\ answered \cap misled = {}
  /\ \A u \in issued :
        /\ u.epoch <= epoch[u.browser]
        /\ proc[u.browser] = "live" /\ u.epoch = epoch[u.browser] => u.req <= lastReq[u.browser]

(* Each request has one message, and no message was received before: in    *)
(* the sequence s from process e of browser b, those of I are expected.    *)
Unread(I, b, e, s) ==
  \A n \in 1 .. Len(s) : s[n].kind = "query" =>
     /\ Name(b, e, s[n].req) \in I
     /\ \A k \in 1 .. Len(s) : s[k].kind = "query" /\ s[k].req = s[n].req => k = n

MessagesFresh(b) ==
  /\ Unread(issued \ received, b, epoch[b], toBrowser[b])
  /\ \A e \in Epoch : Unread(issued \ received, b, e, late[b][e])

QueriesReceived ==
  /\ \A q \in DOMAIN queries : UidOfQuery(q) \in received \ dropped
  /\ \A q, p \in DOMAIN queries : UidOfQuery(q) = UidOfQuery(p) => q = p

RequestsIssued(b) ==
  /\ \A i, j \in requests[b] : i.req = j.req => i = j
  /\ \A i \in requests[b] : UidOf(b, i.req) \in issued \ (answered \cup misled)

(* An answer that ends its own request is not to a query that was dropped. *)
AnswersKept(b) ==
  \A a \in Answers(b) : \A i \in requests[b] : ForGood(a, i) => UidOf(b, i.req) \notin dropped

Recorded ==
  /\ HistoryKnown /\ QueriesReceived
  /\ \A b \in Browser : MessagesFresh(b) /\ RequestsIssued(b) /\ AnswersKept(b)

(* An answer, of whichever process, is to a query that was received.       *)
Sent(b) == Elements(toRenderer[b]) \cup Elements(jsTasks[b]) \cup Elements(queued[b])
SentReceived == \A b \in Browser : \A a \in Sent(b) : Name(b, a.epoch, a.req) \in received

RecordedInv == LinkedInv /\ Recorded /\ SentReceived

LEMMA UidTypes ==
  ASSUME TypeInv
  PROVE  /\ issued \subseteq Uid /\ answered \subseteq Uid /\ misled \subseteq Uid
         /\ received \subseteq Uid /\ dropped \subseteq Uid
         /\ \A q \in DOMAIN queries : UidOfQuery(q) \in Uid
         /\ \A b \in Browser, x \in Id : proc[b] \in {"live", "dead"} => UidOf(b, x) \in Uid
<1>1. \A q \in DOMAIN queries : queries[q] \in QueryInfo
  BY DEF TypeInv, TypeOK, BrowserSideTypeOK
<1>2. \A b \in Browser : proc[b] \in {"live", "dead"} => epoch[b] \in Epoch
  BY BoundsAssumption DEF TypeInv, Started, TypeOK, TransportTypeOK, Epoch
<1> QED BY <1>1, <1>2
        DEF TypeInv, TypeOK, BrowserSideTypeOK, RendererSideTypeOK, UidOfQuery, UidOf, Uid, QueryInfo

LEMMA RecordedFacts ==
  ASSUME TypeInv, Recorded, NEW r \in Uid
  PROVE  /\ r \in answered => r \in issued /\ r \notin misled
         /\ r \in misled => r \in issued /\ r \notin answered
         /\ Awaits(r) => r \in issued /\ r \notin answered /\ r \notin misled
         /\ HasQuery(r) => r \in received /\ r \notin dropped
         /\ r \in dropped => r \in received
         /\ r \in received => r \in issued
<1>1. r.browser \in Browser
  BY DEF Uid
<1> QED BY <1>1 DEF Recorded, HistoryKnown, QueriesReceived, RequestsIssued, Awaits, HasQuery

(* No two cases of the views hold at once.                                 *)
LEMMA JsViews ==
  ASSUME NEW r, r \in answered => r \in issued /\ r \notin misled, r \in misled => r \in issued,
         Awaits(r) => r \in issued /\ r \notin answered /\ r \notin misled
  PROVE  JsView(r) = IF r \in answered THEN "told" ELSE IF r \in misled THEN "misled"
                     ELSE IF Awaits(r) THEN "waiting"
                     ELSE IF r \notin issued THEN "unused" ELSE "gone"
<1>1. CASE r \in answered
  BY <1>1 DEF JsView, Awaits
<1>2. CASE r \in misled
  BY <1>2 DEF JsView, Awaits
<1>3. CASE Awaits(r)
  BY <1>3 DEF JsView, Awaits
<1>4. CASE r \notin issued
  BY <1>4 DEF JsView, Awaits
<1>5. CASE r \notin answered /\ r \notin misled /\ ~Awaits(r) /\ r \in issued
  BY <1>5 DEF JsView, Awaits
<1> QED BY <1>1, <1>2, <1>3, <1>4, <1>5

LEMMA HdViews ==
  ASSUME NEW r, HasQuery(r) => r \in received /\ r \notin dropped, r \in dropped => r \in received
  PROVE  HdView(r) = IF HasQuery(r) THEN "pending" ELSE IF r \in dropped THEN "dropped"
                     ELSE IF r \notin received THEN "unseen" ELSE "ended"
<1>1. CASE HasQuery(r)
  BY <1>1 DEF HdView, HasQuery
<1>2. CASE r \in dropped
  BY <1>2 DEF HdView, HasQuery
<1>3. CASE r \notin received
  BY <1>3 DEF HdView, HasQuery
<1>4. CASE ~HasQuery(r) /\ r \notin dropped /\ r \in received
  BY <1>4 DEF HdView, HasQuery
<1> QED BY <1>1, <1>2, <1>3, <1>4

(* The moves of the contract.                                              *)
LEMMA JsMoves ==
  ASSUME TypeInv, TypeInv', Recorded, Recorded', JsStep, NEW r \in Uid
  PROVE  \/ JsView(r)' = JsView(r)
         \/ JsView(r) = "unused" /\ JsView(r)' = "waiting"
         \/ JsView(r) = "waiting" /\ JsView(r)' = "gone"
         \/ JsView(r) = "waiting" /\ HdView(r) = "ended" /\ JsView(r)' = "told"
         \/ /\ JsView(r) = "waiting" /\ JsView(r)' = "misled"
            /\ \E s \in Uid \ {r} : JsView(s) \notin {"unused", "waiting"} /\ HdView(s) # "unseen"
<1>1. /\ r \in answered => r \in issued /\ r \notin misled
      /\ r \in misled => r \in issued
      /\ Awaits(r) => r \in issued /\ r \notin answered /\ r \notin misled
  BY RecordedFacts
<1>2. /\ r \in answered' => r \in issued' /\ r \notin misled'
      /\ r \in misled' => r \in issued'
      /\ Awaits(r)' => r \in issued' /\ r \notin answered' /\ r \notin misled'
  <2>1. r.browser \in Browser
    BY DEF Uid
  <2> QED BY <2>1 DEF Recorded, HistoryKnown, RequestsIssued, Awaits
<1>3. JsView(r) = IF r \in answered THEN "told" ELSE IF r \in misled THEN "misled"
                  ELSE IF Awaits(r) THEN "waiting"
                  ELSE IF r \notin issued THEN "unused" ELSE "gone"
  BY <1>1, JsViews
<1>4. JsView(r)' = IF r \in answered' THEN "told" ELSE IF r \in misled' THEN "misled"
                   ELSE IF Awaits(r)' THEN "waiting"
                   ELSE IF r \notin issued' THEN "unused" ELSE "gone"
  <2>1. CASE r \in answered'
    BY <1>2, <2>1 DEF JsView, Awaits
  <2>2. CASE r \in misled'
    BY <1>2, <2>2 DEF JsView, Awaits
  <2>3. CASE Awaits(r)'
    BY <1>2, <2>3 DEF JsView, Awaits
  <2>4. CASE r \notin issued'
    BY <1>2, <2>4 DEF JsView, Awaits
  <2>5. CASE r \notin answered' /\ r \notin misled' /\ ~Awaits(r)' /\ r \in issued'
    BY <2>5 DEF JsView, Awaits
  <2> QED BY <2>1, <2>2, <2>3, <2>4, <2>5
<1>5. /\ issued \subseteq issued' /\ answered \subseteq answered' /\ misled \subseteq misled'
      /\ r \in answered' \ answered => Awaits(r) /\ HdView(r) = "ended"
      /\ r \in misled' \ misled =>
            Awaits(r) /\ \E s \in Uid \ {r} : s \in received /\ ~Awaits(s)
      /\ (Awaits(r)' /\ ~Awaits(r)) <=> r \in issued' \ issued
  BY DEF JsStep
<1>6. ASSUME NEW s \in Uid, s \in received, ~Awaits(s)
      PROVE  JsView(s) \notin {"unused", "waiting"} /\ HdView(s) # "unseen"
  <2>1. /\ s \in answered => s \in issued /\ s \notin misled
        /\ s \in misled => s \in issued
        /\ HasQuery(s) => s \in received /\ s \notin dropped
        /\ s \in dropped => s \in received
        /\ s \in issued
    BY <1>6, RecordedFacts
  <2>2. JsView(s) = IF s \in answered THEN "told" ELSE IF s \in misled THEN "misled"
                    ELSE IF Awaits(s) THEN "waiting"
                    ELSE IF s \notin issued THEN "unused" ELSE "gone"
    BY <1>6, <2>1, JsViews
  <2>3. HdView(s) = IF HasQuery(s) THEN "pending" ELSE IF s \in dropped THEN "dropped"
                    ELSE IF s \notin received THEN "unseen" ELSE "ended"
    BY <2>1, HdViews
  <2> QED BY <1>6, <2>1, <2>2, <2>3
<1>7. ASSUME r \in misled' \ misled
      PROVE  /\ JsView(r) = "waiting" /\ JsView(r)' = "misled"
             /\ \E s \in Uid \ {r} : JsView(s) \notin {"unused", "waiting"} /\ HdView(s) # "unseen"
  <2>1. Awaits(r) /\ \E s \in Uid \ {r} : s \in received /\ ~Awaits(s)
    BY <1>5, <1>7
  <2>2. r \notin answered /\ r \notin misled /\ r \notin answered'
    BY <1>1, <1>2, <1>7, <2>1
  <2> QED BY <1>3, <1>4, <1>6, <1>7, <2>1, <2>2
<1>8. ASSUME r \notin misled' \ misled
      PROVE  \/ JsView(r)' = JsView(r)
             \/ JsView(r) = "unused" /\ JsView(r)' = "waiting"
             \/ JsView(r) = "waiting" /\ JsView(r)' = "gone"
             \/ JsView(r) = "waiting" /\ HdView(r) = "ended" /\ JsView(r)' = "told"
  BY <1>1, <1>2, <1>3, <1>4, <1>5, <1>8
<1> QED BY <1>7, <1>8

LEMMA HdMoves ==
  ASSUME TypeInv, TypeInv', Recorded, Recorded', HdStep, NEW r \in Uid
  PROVE  \/ HdView(r)' = HdView(r)
         \/ HdView(r) = "unseen" /\ JsView(r) # "unused" /\ HdView(r)' \in {"pending", "ended"}
         \/ HdView(r) = "pending" /\ HdView(r)' \in {"ended", "dropped"}
<1>1. /\ HasQuery(r) => r \in received /\ r \notin dropped
      /\ r \in dropped => r \in received
  BY RecordedFacts
<1>2. HasQuery(r)' => r \in received' /\ r \notin dropped'
  BY DEF Recorded, QueriesReceived, HasQuery
<1>3. HdView(r) = IF HasQuery(r) THEN "pending" ELSE IF r \in dropped THEN "dropped"
                  ELSE IF r \notin received THEN "unseen" ELSE "ended"
  BY <1>1, HdViews
<1>4. HdView(r)' = IF HasQuery(r)' THEN "pending" ELSE IF r \in dropped' THEN "dropped"
                   ELSE IF r \notin received' THEN "unseen" ELSE "ended"
  <2>0. r \in dropped' => r \in received'
    BY DEF Recorded, HistoryKnown
  <2>1. CASE HasQuery(r)'
    BY <1>2, <2>0, <2>1 DEF HdView, HasQuery
  <2>2. CASE r \in dropped'
    BY <1>2, <2>0, <2>2 DEF HdView, HasQuery
  <2>3. CASE r \notin received'
    BY <1>2, <2>0, <2>3 DEF HdView, HasQuery
  <2>4. CASE ~HasQuery(r)' /\ r \notin dropped' /\ r \in received'
    BY <2>4 DEF HdView, HasQuery
  <2> QED BY <2>1, <2>2, <2>3, <2>4
<1>5. r \in issued => JsView(r) # "unused"
  BY RecordedFacts, JsViews
<1>6. /\ received \subseteq received' /\ received' \ received \subseteq issued
      /\ dropped \subseteq dropped'
      /\ r \in dropped' \ dropped => HasQuery(r)
      /\ HasQuery(r)' /\ ~HasQuery(r) => r \in received' \ received
  BY DEF HdStep
<1> QED BY <1>1, <1>2, <1>3, <1>4, <1>5, <1>6

-----------------------------------------------------------------------------
(* What keeps the parts of the record.                                     *)
LEMMA QueriesStay ==
  ASSUME TypeInv, Recorded, \A q : Kept(q), received' = received, dropped \subseteq dropped',
         \A u \in dropped' \ dropped :
            \E q \in DOMAIN queries : q \notin DOMAIN queries' /\ u = UidOfQuery(q)
  PROVE  HdStep /\ QueriesReceived' /\ dropped' \subseteq received'
<1>1. \A q \in DOMAIN queries' : q \in DOMAIN queries /\ UidOfQuery(q)' = UidOfQuery(q)
  BY DEF Kept, UidOfQuery
<1>2. /\ \A q \in DOMAIN queries : UidOfQuery(q) \in received \ dropped
      /\ \A q, p \in DOMAIN queries : UidOfQuery(q) = UidOfQuery(p) => q = p
      /\ dropped \subseteq received
  BY DEF Recorded, QueriesReceived, HistoryKnown
<1>3. \A q \in DOMAIN queries' : UidOfQuery(q) \notin dropped'
  BY <1>1, <1>2
<1>4. \A r : r \in dropped' \ dropped => HasQuery(r)
  BY DEF HasQuery
<1>5. \A r : HasQuery(r)' => HasQuery(r)
  BY <1>1 DEF HasQuery
<1>6. dropped' \subseteq received'
  BY <1>2
<1>7. QueriesReceived'
  BY <1>1, <1>2, <1>3 DEF QueriesReceived
<1> QED BY <1>4, <1>5, <1>6, <1>7 DEF HdStep

LEMMA RequestsStay ==
  ASSUME Recorded, UNCHANGED <<issued, answered, misled>>,
         \A b \in Browser : /\ requests'[b] \subseteq requests[b]
                            /\ requests'[b] # {} => epoch'[b] = epoch[b]
  PROVE  JsStep /\ \A b \in Browser : RequestsIssued(b)'
<1>1. ASSUME NEW r \in Uid, Awaits(r)' PROVE Awaits(r)
  <2>1. r.browser \in Browser
    BY DEF Uid
  <2> QED BY <1>1, <2>1 DEF Awaits, UidOf
<1>2. JsStep
  BY <1>1 DEF JsStep
<1>3. ASSUME NEW b \in Browser PROVE RequestsIssued(b)'
  <2>1. RequestsIssued(b)
    BY DEF Recorded
  <2> QED BY <2>1 DEF RequestsIssued, UidOf
<1> QED BY <1>2, <1>3

LEMMA HistoryStays ==
  ASSUME TypeInv, Recorded, issued' = issued, answered' \subseteq issued, misled' \subseteq issued,
         answered' \cap misled' = {}, HdStep, dropped' \subseteq received',
         \A b \in Browser :
            \/ epoch'[b] = epoch[b] + 1
            \/ /\ epoch'[b] = epoch[b]
               /\ proc'[b] = "live" => proc[b] = "live" /\ lastReq'[b] = lastReq[b]
  PROVE  HistoryKnown'
<1>1. /\ received \subseteq issued
      /\ \A u \in issued :
            /\ u.epoch <= epoch[u.browser]
            /\ proc[u.browser] = "live" /\ u.epoch = epoch[u.browser] => u.req <= lastReq[u.browser]
  BY DEF Recorded, HistoryKnown
<1>2. \A u \in issued : u.browser \in Browser /\ u.epoch \in Nat /\ epoch[u.browser] \in Nat
  BY BoundsAssumption DEF TypeInv, TypeOK, RendererSideTypeOK, TransportTypeOK, Epoch
<1>3. received' \subseteq issued
  BY <1>1 DEF HdStep
<1>4. ASSUME NEW u \in issued
      PROVE  /\ u.epoch <= epoch'[u.browser]
             /\ proc'[u.browser] = "live" /\ u.epoch = epoch'[u.browser] => u.req <= lastReq'[u.browser]
  BY <1>1, <1>2
<1> QED BY <1>3, <1>4 DEF HistoryKnown

-----------------------------------------------------------------------------
(* The messages a sequence still holds are read in order, each once.       *)
LEMMA NoneUnread ==
  ASSUME NEW I, NEW b, NEW e
  PROVE  Unread(I, b, e, <<>>)
BY DEF Unread

LEMMA UnreadPrefix ==
  ASSUME NEW I, NEW b, NEW e, NEW s \in Seq(Request), Unread(I, b, e, s), NEW n \in 0 .. Len(s)
  PROVE  Unread(I, b, e, SubSeq(s, 1, n))
<1> DEFINE t == SubSeq(s, 1, n)
<1>1. /\ Len(t) \in Nat /\ Len(s) \in Nat /\ Len(t) <= Len(s)
      /\ \A k \in 1 .. Len(t) : t[k] = s[k]
  BY SubSeqProperties, LenProperties
<1>2. \A k \in 1 .. Len(t) : k \in 1 .. Len(s)
  BY <1>1
<1> HIDE DEF t
<1>3. Unread(I, b, e, t)
  BY <1>1, <1>2 DEF Unread
<1> QED BY <1>3 DEF t

LEMMA UnreadTail ==
  ASSUME NEW I, NEW b, NEW e, NEW s \in Seq(Request), s # <<>>, Unread(I, b, e, s)
  PROVE  /\ Unread(I, b, e, Tail(s))
         /\ Head(s).kind = "query" =>
               /\ Name(b, e, Head(s).req) \in I
               /\ Unread(I \ {Name(b, e, Head(s).req)}, b, e, Tail(s))
<1>1. /\ Len(s) \in Nat \ {0} /\ Len(Tail(s)) = Len(s) - 1 /\ Head(s) = s[1]
      /\ \A n \in 1 .. Len(Tail(s)) : Tail(s)[n] = s[n + 1]
  BY EmptySeq, HeadTailProperties, LenProperties
<1>2. /\ 1 \in 1 .. Len(s)
      /\ \A n \in 1 .. Len(Tail(s)) : n + 1 \in 1 .. Len(s) /\ n + 1 # 1 /\ Tail(s)[n] = s[n + 1]
  BY <1>1
<1>3. ASSUME NEW n \in 1 .. Len(Tail(s)), Tail(s)[n].kind = "query"
      PROVE  /\ Name(b, e, Tail(s)[n].req) \in I
             /\ \A k \in 1 .. Len(Tail(s)) :
                   Tail(s)[k].kind = "query" /\ Tail(s)[k].req = Tail(s)[n].req => k = n
             /\ Head(s).kind = "query" => Tail(s)[n].req # Head(s).req
  <2>1. /\ n + 1 \in 1 .. Len(s) /\ s[n + 1].kind = "query" /\ Tail(s)[n] = s[n + 1]
        /\ Name(b, e, s[n + 1].req) \in I
        /\ \A k \in 1 .. Len(s) : s[k].kind = "query" /\ s[k].req = s[n + 1].req => k = n + 1
    BY <1>2, <1>3 DEF Unread
  <2>2. ASSUME NEW k \in 1 .. Len(Tail(s)), Tail(s)[k].kind = "query", Tail(s)[k].req = Tail(s)[n].req
        PROVE  k = n
    <3>1. k + 1 = n + 1
      BY <1>2, <2>1, <2>2
    <3> QED BY <3>1
  <2>3. Head(s).kind = "query" => s[n + 1].req # Head(s).req
    BY <1>1, <1>2, <2>1
  <2> QED BY <2>1, <2>2, <2>3
<1>4. Head(s).kind = "query" => Name(b, e, Head(s).req) \in I
  BY <1>1, <1>2 DEF Unread
<1>5. \A x, y : Name(b, e, x) = Name(b, e, y) => x = y
  BY DEF Name
<1>6. Unread(I, b, e, Tail(s))
  BY <1>3 DEF Unread
<1>7. ASSUME Head(s).kind = "query" PROVE Unread(I \ {Name(b, e, Head(s).req)}, b, e, Tail(s))
  BY <1>3, <1>5, <1>7 DEF Unread
<1> QED BY <1>4, <1>6, <1>7

LEMMA UnreadMore ==
  ASSUME NEW I, NEW J, I \subseteq J, NEW b, NEW e, NEW s, Unread(I, b, e, s)
  PROVE  Unread(J, b, e, s)
BY DEF Unread

LEMMA UnreadOther ==
  ASSUME NEW I, NEW b, NEW e, NEW s, Unread(I, b, e, s), NEW c, NEW d, NEW r, b # c \/ e # d
  PROVE  Unread(I \ {Name(c, d, r)}, b, e, s)
<1>1. \A x : Name(b, e, x) # Name(c, d, r)
  BY DEF Name
<1> QED BY <1>1 DEF Unread

LEMMA UnreadSent ==
  ASSUME NEW I, NEW b, NEW e, NEW s \in Seq(Request), Unread(I, b, e, s), NEW m \in Request,
         m.kind = "query" => Name(b, e, m.req) \notin I
  PROVE  LET J == IF m.kind = "query" THEN I \cup {Name(b, e, m.req)} ELSE I
         IN  Unread(J, b, e, s \o <<m>>)
<1> DEFINE t == s \o <<m>>
           J == IF m.kind = "query" THEN I \cup {Name(b, e, m.req)} ELSE I
<1>1. /\ Len(s) \in Nat /\ Len(t) = Len(s) + 1
      /\ \A n \in 1 .. Len(t) : IF n <= Len(s) THEN n \in 1 .. Len(s) /\ t[n] = s[n]
                                ELSE n = Len(s) + 1 /\ t[n] = m
  <2>1. <<m>> \in Seq(Request) /\ Len(<<m>>) = 1 /\ <<m>>[1] = m
    OBVIOUS
  <2> QED BY <2>1, ConcatProperties, LenProperties
<1>2. I \subseteq J /\ (m.kind = "query" => Name(b, e, m.req) \in J)
  OBVIOUS
<1> HIDE DEF t, J
<1>3. \A n \in 1 .. Len(s) : s[n].kind = "query" => Name(b, e, s[n].req) \in I
  BY DEF Unread
<1>4. ASSUME NEW n \in 1 .. Len(t), t[n].kind = "query", NEW k \in 1 .. Len(t),
             t[k].kind = "query", t[k].req = t[n].req
      PROVE  k = n
  <2>1. CASE n <= Len(s) /\ k <= Len(s)
    BY <1>1, <1>4, <2>1 DEF Unread
  <2>2. CASE ~(n <= Len(s)) /\ ~(k <= Len(s))
    BY <1>1, <2>2
  <2>3. CASE n <= Len(s) /\ ~(k <= Len(s))
    <3>1. t[n] = s[n] /\ n \in 1 .. Len(s) /\ t[k] = m
      BY <1>1, <2>3
    <3> QED BY <1>3, <1>4, <3>1
  <2>4. CASE ~(n <= Len(s)) /\ k <= Len(s)
    <3>1. t[k] = s[k] /\ k \in 1 .. Len(s) /\ t[n] = m
      BY <1>1, <2>4
    <3> QED BY <1>3, <1>4, <3>1
  <2> QED BY <2>1, <2>2, <2>3, <2>4
<1>5. \A n \in 1 .. Len(t) : t[n].kind = "query" => Name(b, e, t[n].req) \in J
  BY <1>1, <1>2, <1>3
<1>6. Unread(J, b, e, t)
  BY <1>4, <1>5 DEF Unread
<1> QED BY <1>6 DEF t, J

LEMMA MessagesStay ==
  ASSUME TypeInv, NEW b \in Browser, MessagesFresh(b), issued \subseteq issued', received' = received,
         \A e \in Epoch : late'[b][e] \in {late[b][e], <<>>},
         \/ toBrowser'[b] = toBrowser[b] /\ epoch'[b] = epoch[b]
         \/ toBrowser'[b] = <<>>
         \/ /\ \E n \in 0 .. Len(toBrowser[b]) : toBrowser'[b] = SubSeq(toBrowser[b], 1, n)
            /\ epoch'[b] = epoch[b]
  PROVE  MessagesFresh(b)'
<1> DEFINE I == issued \ received
           J == issued' \ received'
<1>1. I \subseteq J /\ toBrowser[b] \in Seq(Request)
  BY DEF TypeInv, TypeOK, TransportTypeOK
<1>2. Unread(I, b, epoch[b], toBrowser[b]) /\ \A e \in Epoch : Unread(I, b, e, late[b][e])
  BY DEF MessagesFresh
<1> HIDE DEF I, J
<1>3. ASSUME NEW e \in Epoch PROVE Unread(J, b, e, late'[b][e])
  BY <1>1, <1>2, NoneUnread, UnreadMore
<1>4. Unread(I, b, epoch'[b], toBrowser'[b])
  BY <1>1, <1>2, NoneUnread, UnreadPrefix
<1>5. Unread(J, b, epoch'[b], toBrowser'[b])
  BY <1>1, <1>4, UnreadMore
<1>6. MessagesFresh(b)' <=> /\ Unread(J, b, epoch'[b], toBrowser'[b])
                            /\ \A e \in Epoch : Unread(J, b, e, late'[b][e])
  BY DEF MessagesFresh, Unread, Name, J
<1> QED BY <1>3, <1>5, <1>6

(* The head of a stream is taken: the living process's or another's.       *)
Reads(c, d, m) ==
  \/ /\ d = epoch[c] /\ toBrowser[c] # <<>> /\ m = Head(toBrowser[c])
     /\ toBrowser' = [toBrowser EXCEPT ![c] = Tail(@)] /\ late' = late
  \/ /\ d # epoch[c] /\ late[c][d] # <<>> /\ m = Head(late[c][d])
     /\ late' = [late EXCEPT ![c][d] = Tail(@)] /\ toBrowser' = toBrowser

LEMMA MessageRead ==
  ASSUME TypeInv, NEW b \in Browser, MessagesFresh(b), UNCHANGED <<epoch, issued>>,
         NEW c \in Browser, NEW d \in Epoch, NEW m, Reads(c, d, m),
         \/ received' = received
         \/ m.kind = "query" /\ received' = received \cup {Name(c, d, m.req)}
  PROVE  MessagesFresh(b)'
<1> DEFINE I == issued \ received
           J == issued' \ received'
           u == Name(c, d, m.req)
<1>1. toBrowser[b] \in Seq(Request) /\ \A e \in Epoch : late[b][e] \in Seq(Request)
  BY DEF TypeInv, TypeOK, TransportTypeOK
<1>2. Unread(I, b, epoch[b], toBrowser[b]) /\ \A e \in Epoch : Unread(I, b, e, late[b][e])
  BY DEF MessagesFresh
<1>3. J = I \/ (m.kind = "query" /\ J = I \ {u})
  OBVIOUS
<1>4. /\ b = c /\ d = epoch[c] => /\ toBrowser[b] # <<>> /\ m = Head(toBrowser[b])
                                  /\ toBrowser'[b] = Tail(toBrowser[b]) /\ late'[b] = late[b]
      /\ b # c \/ d # epoch[c] => toBrowser'[b] = toBrowser[b]
      /\ b = c /\ d # epoch[c] => /\ late[b][d] # <<>> /\ m = Head(late[b][d])
                                  /\ late'[b][d] = Tail(late[b][d])
      /\ \A e \in Epoch : b # c \/ d # e => late'[b][e] = late[b][e]
      /\ \A e \in Epoch : e = epoch[b] => late[b][e] = <<>>
  <2>1. \A e \in Epoch : e = epoch[b] => late[b][e] = <<>>
    <3>1. \A e \in Epoch : e \in Int
      BY BoundsAssumption DEF Epoch
    <3> QED BY <3>1 DEF TypeInv, Started
  <2>2. CASE d = epoch[c]
    BY <2>1, <2>2 DEF Reads, TypeInv, TypeOK, TransportTypeOK
  <2>3. CASE d # epoch[c]
    <3>1. /\ late[c][d] # <<>> /\ m = Head(late[c][d]) /\ toBrowser' = toBrowser
          /\ late' = [late EXCEPT ![c] = [late[c] EXCEPT ![d] = Tail(late[c][d])]]
          /\ late \in [Browser -> [Epoch -> Seq(Request)]]
      BY <2>3 DEF Reads, TypeInv, TypeOK, TransportTypeOK
    <3>2. late'[c][d] = Tail(late[c][d]) /\ \A e \in Epoch : d # e => late'[c][e] = late[c][e]
      BY <3>1
    <3>3. b # c => late'[b] = late[b]
      BY <3>1
    <3> QED BY <2>1, <2>3, <3>1, <3>2, <3>3
  <2> QED BY <2>2, <2>3
<1> HIDE DEF I, J, u
<1>5. Unread(J, b, epoch[b], toBrowser'[b])
  <2>1. CASE b = c /\ d = epoch[c]
    <3>1. /\ toBrowser[b] # <<>> /\ toBrowser'[b] = Tail(toBrowser[b])
          /\ m = Head(toBrowser[b]) /\ u = Name(b, epoch[b], Head(toBrowser[b]).req)
      BY <1>4, <2>1 DEF u
    <3>2. /\ Unread(I, b, epoch[b], Tail(toBrowser[b]))
          /\ m.kind = "query" => Unread(I \ {u}, b, epoch[b], Tail(toBrowser[b]))
      BY <1>1, <1>2, <3>1, UnreadTail
    <3> QED BY <1>3, <3>1, <3>2
  <2>2. CASE b # c \/ d # epoch[b]
    <3>1. Unread(I \ {u}, b, epoch[b], toBrowser[b])
      BY <1>2, <2>2, UnreadOther DEF u
    <3> QED BY <1>2, <1>3, <1>4, <2>2, <3>1
  <2> QED BY <2>1, <2>2
<1>6. ASSUME NEW e \in Epoch PROVE Unread(J, b, e, late'[b][e])
  <2>1. CASE b = c /\ d # epoch[c] /\ d = e
    <3>1. /\ late[b][e] # <<>> /\ late'[b][e] = Tail(late[b][e])
          /\ m = Head(late[b][e]) /\ u = Name(b, e, Head(late[b][e]).req)
      BY <1>4, <2>1 DEF u
    <3>2. /\ Unread(I, b, e, Tail(late[b][e]))
          /\ m.kind = "query" => Unread(I \ {u}, b, e, Tail(late[b][e]))
      BY <1>1, <1>2, <3>1, UnreadTail
    <3> QED BY <1>3, <3>1, <3>2
  <2>2. CASE b # c \/ d # e
    <3>1. Unread(I \ {u}, b, e, late[b][e])
      BY <1>2, <2>2, UnreadOther DEF u
    <3> QED BY <1>2, <1>3, <1>4, <2>2, <3>1
  <2>3. CASE b = c /\ d = e /\ d = epoch[c]
    BY <1>4, <2>3, NoneUnread
  <2> QED BY <2>1, <2>2, <2>3
<1>7. MessagesFresh(b)' <=> /\ Unread(J, b, epoch[b], toBrowser'[b])
                            /\ \A e \in Epoch : Unread(J, b, e, late'[b][e])
  BY DEF MessagesFresh, Unread, Name, J
<1> QED BY <1>5, <1>6, <1>7

-----------------------------------------------------------------------------
(* An answer that ends a request is to a query that is not pending.        *)
LEMMA EndedNotPending ==
  ASSUME LinkedInv, NEW b \in Browser, proc[b] = "live", NEW a \in Answers(b),
         NEW i \in requests[b], ForGood(a, i)
  PROVE  ~HasQuery(UidOf(b, i.req))
<1> SUFFICES ASSUME NEW q \in DOMAIN queries, UidOfQuery(q) = UidOf(b, i.req) PROVE FALSE
  BY DEF HasQuery
<1>1. q \in PendingOf(b) /\ queries[q].req = i.req /\ i.req = a.req
  BY DEF UidOfQuery, UidOf, PendingOf, ForGood, AnswerTo
<1>2. AnswersMeant(b) /\ BothAgree(b)
  BY LinkedInvFacts DEF Linked
<1>3. a.success /\ queries[q].persistent /\ queries[q].persistent = i.persistent
  BY <1>1, <1>2 DEF AnswersMeant, BothAgree, SameAs
<1> QED BY <1>3 DEF ForGood

LEMMA AnswersStay ==
  ASSUME LinkedInv, Recorded, HdStep, NEW b \in Browser, epoch'[b] = epoch[b],
         requests'[b] \subseteq requests[b],
         \A a \in Answers(b)' : a \in Answers(b) \/ UidOf(b, a.req) \in received' \ dropped'
  PROVE  AnswersKept(b)'
<1>0. \A x : UidOf(b, x)' = UidOf(b, x)
  BY DEF UidOf
<1>1. /\ received \subseteq received' /\ \A r \in Uid : r \in dropped' \ dropped => HasQuery(r)
  BY DEF HdStep
<1>2. AnswersKept(b) /\ TypeInv
  BY LinkedInvFacts DEF Recorded
<1>3. ASSUME NEW a \in Answers(b), NEW i \in requests[b], ForGood(a, i)
      PROVE  UidOf(b, i.req) \notin dropped'
  <2>0. proc[b] = "live"
    BY <1>2 DEF TypeInv, Started
  <2>1. UidOf(b, i.req) \notin dropped /\ ~HasQuery(UidOf(b, i.req))
    BY <1>2, <1>3, <2>0, EndedNotPending DEF AnswersKept
  <2>2. UidOf(b, i.req) \in Uid
    <3>1. i.req \in Id
      BY <1>2 DEF TypeInv, TypeOK, RendererSideTypeOK, RequestInfo
    <3> QED BY <1>2, <2>0, <3>1, UidTypes
  <2> QED BY <1>1, <2>1, <2>2
<1>4. ASSUME NEW a \in Answers(b)', a \notin Answers(b), NEW i \in requests'[b], ForGood(a, i)
      PROVE  UidOf(b, i.req) \notin dropped'
  BY <1>4 DEF ForGood, AnswerTo
<1> QED BY <1>0, <1>3, <1>4 DEF AnswersKept, ForGood, AnswerTo

LEMMA NoRequests ==
  ASSUME NEW b, requests'[b] = {}
  PROVE  AnswersKept(b)'
BY DEF AnswersKept

LEMMA AnswersOfPending ==
  ASSUME Recorded, NEW b \in Browser, NEW a, AnswersOneOf(b, a)
  PROVE  UidOf(b, a.req) \in received \ dropped
<1>1. PICK q \in PendingOf(b) : a.req = queries[q].req
  BY DEF AnswersOneOf, AnswerTo
<1>2. q \in DOMAIN queries /\ UidOfQuery(q) = UidOf(b, a.req)
  BY <1>1 DEF PendingOf, UidOfQuery, UidOf
<1> QED BY <1>2 DEF Recorded, QueriesReceived

(* Where the handlers only answer, and drop nothing.                       *)
LEMMA SettlesAnswers ==
  ASSUME LinkedInv, Recorded, HdStep, dropped' = dropped, NEW b \in Browser, proc[b] = "live",
         HandlerSide(b)
  PROVE  AnswersKept(b)'
<1>1. PICK New : LeavesAnswered(b, New) /\ \A a \in New : AnswersOneOf(b, a)
  BY DEF HandlerSide, Settles
<1>2. Answers(b)' = Answers(b) \cup New
  <2>1. Own(b, jsTasks[b])' = Own(b, jsTasks[b])
    BY <1>1 DEF LeavesAnswered, Own, Elements
  <2> QED BY <1>1, <2>1 DEF LeavesAnswered, Answers
<1>3. received \subseteq received'
  BY DEF HdStep
<1>4. epoch'[b] = epoch[b] /\ requests'[b] = requests[b]
  BY <1>1 DEF LeavesAnswered
<1>5. \A a \in New : UidOf(b, a.req) \in received' \ dropped'
  BY <1>1, <1>3, AnswersOfPending
<1> QED BY <1>2, <1>4, <1>5, AnswersStay

-----------------------------------------------------------------------------
(* The browser side answers only queries it received, of any process.      *)
LEMMA SentAll ==
  ASSUME TypeOK, SentReceived, received \subseteq received', jsTasks' = jsTasks,
         NEW out \in [Browser -> Seq(Answer)], SendAll(out),
         \A b \in Browser : \A a \in Elements(out[b]) : Name(b, a.epoch, a.req) \in received'
  PROVE  SentReceived'
<1> SUFFICES ASSUME NEW b \in Browser, NEW a \in Sent(b)'
             PROVE  Name(b, a.epoch, a.req) \in received'
  BY DEF SentReceived, Name
<1>1. toRenderer[b] \in Seq(Answer) /\ queued[b] \in Seq(Answer) /\ out[b] \in Seq(Answer)
  BY DEF TypeOK, TransportTypeOK
<1>2. /\ Elements(toRenderer[b] \o out[b]) = Elements(toRenderer[b]) \cup Elements(out[b])
      /\ Elements(queued[b] \o out[b]) = Elements(queued[b]) \cup Elements(out[b])
  BY <1>1, ElementsOfConcat
<1>3. Sent(b)' = Elements(toRenderer'[b]) \cup Elements(jsTasks[b]) \cup Elements(queued'[b])
  BY DEF Sent, Elements
<1>4. /\ queued'[b] \in {queued[b], queued[b] \o out[b]}
      /\ toRenderer'[b] \in {toRenderer[b], toRenderer[b] \o out[b]}
  BY DEF SendAll
<1>5. a \in Sent(b) \/ a \in Elements(out[b])
  BY <1>2, <1>3, <1>4 DEF Sent
<1> QED BY <1>5 DEF SentReceived

LEMMA SentLess ==
  ASSUME SentReceived, received \subseteq received', \A b \in Browser : Sent(b)' \subseteq Sent(b)
  PROVE  SentReceived'
BY DEF SentReceived, Name

LEMMA SentSame ==
  ASSUME SentReceived, received \subseteq received', UNCHANGED <<toRenderer, queued, jsTasks>>
  PROVE  SentReceived'
<1>1. \A b \in Browser : Sent(b)' = Sent(b)
  BY DEF Sent, Elements
<1> QED BY <1>1, SentLess

LEMMA FailuresNamed ==
  ASSUME TypeOK, QueriesReceived, NEW Q \in SUBSET DOMAIN queries, NEW b \in Browser,
         NEW a \in Elements(Failures(Q)[b])
  PROVE  Name(b, a.epoch, a.req) \in received
<1>1. PICK q \in Q : QueryOf(b, q) /\ a = AnswerFor(q, FALSE)
  BY FailuresElements
<1>2. Name(b, a.epoch, a.req) = UidOfQuery(q)
  BY <1>1 DEF QueryOf, AnswerFor, AnswerMsg, Name, UidOfQuery
<1> QED BY <1>2 DEF QueriesReceived

LEMMA SentHandlers ==
  ASSUME TypeInv, QueriesReceived, SentReceived, received' = received, jsTasks' = jsTasks,
         HandlerStep \/ UiTaskStep
  PROVE  SentReceived'
<1>0. TypeOK /\ BrowserSideTypeOK
  BY DEF TypeInv, TypeOK
<1>1. ASSUME NEW B, NEW H, CancelPendingFor(B, H) PROVE SentReceived'
  <2>1. Matching(B, H) \in SUBSET DOMAIN queries
    BY DEF Matching
  <2>2. Failures(Matching(B, H)) \in [Browser -> Seq(Answer)]
    BY <1>0, <2>1, FailuresType
  <2> QED BY <1>0, <1>1, <2>1, <2>2, FailuresNamed, SentAll DEF CancelPendingFor
<1>2. ASSUME UNCHANGED transportVars PROVE SentReceived'
  BY <1>2, SentSame DEF transportVars
<1>3. ASSUME NEW q, NEW success \in BOOLEAN, Deliver(q, success) PROVE SentReceived'
  <2>1. CASE q \in DOMAIN queries
    <3> DEFINE a == AnswerFor(q, success)
               c == queries[q].browser
               t == <<a>>
    <3>1. a \in Answer /\ c \in Browser /\ Name(c, a.epoch, a.req) = UidOfQuery(q)
      BY <1>0, <2>1, AnswerForType
      DEF BrowserSideTypeOK, QueryInfo, AnswerFor, AnswerMsg, Name, UidOfQuery
    <3>2. Name(c, a.epoch, a.req) \in received
      BY <2>1, <3>1 DEF QueriesReceived
    <3>3. SendAll(To(c, t))
      BY <1>3, <2>1 DEF Deliver
    <3> HIDE DEF a, c
    <3>4. t \in Seq(Answer) /\ Elements(t) = {a} /\ Elements(<<>>) = {}
      BY <3>1, ElementsOfOne
    <3> HIDE DEF t
    <3>5. To(c, t) \in [Browser -> Seq(Answer)]
      BY <3>1, <3>4, ToType
    <3>6. \A b \in Browser : \A x \in Elements(To(c, t)[b]) : Name(b, x.epoch, x.req) \in received
      BY <3>1, <3>2, <3>4 DEF To
    <3> QED BY <1>0, <3>3, <3>5, <3>6, SentAll
  <2>2. CASE q \notin DOMAIN queries
    BY <1>3, <2>2, SentSame DEF Deliver
  <2> QED BY <2>1, <2>2
<1>4. CASE HandlerStep
  BY <1>1, <1>2, <1>4 DEF HandlerStep, AddHandler, RemoveHandler, CancelPending,
     CancelPendingOffUI, Succeed, Fail, AnswerOffUI, CallbackUnchanged
<1>5. CASE UiTaskStep
  BY <1>1, <1>2, <1>3, <1>5 DEF UiTaskStep, RunSuccess, RunFailure, RunCancelPending,
     OnCallbackSuccess, OnCallbackFailure, CallbackUnchanged
<1> QED BY <1>4, <1>5

LEMMA SentTaken ==
  ASSUME TypeInv, QueriesReceived, SentReceived, jsTasks' = jsTasks,
         NEW c \in Browser, NEW e \in Epoch, NEW m \in Request, m.kind = "query",
         NEW unguarded, NEW taker, NEW removed, TakeQuery(c, e, m, unguarded, taker, removed)
  PROVE  SentReceived'
<1> DEFINE gone == Matching(Browser, removed)
           fail == Failures(gone)
           a == AnswerMsg(e, m.ctx, m.req, FALSE)
           t == <<a>>
           out == [fail EXCEPT ![c] = @ \o t]
<1>0. /\ TypeOK /\ received' = received \cup {Name(c, e, m.req)}
  BY DEF TypeInv, TakeQuery, Name
<1>1. gone \in SUBSET DOMAIN queries
  BY DEF Matching
<1>2. fail \in [Browser -> Seq(Answer)]
  BY <1>1, FailuresType DEF TypeInv, TypeOK
<1>3. \A b \in Browser : \A x \in Elements(fail[b]) : Name(b, x.epoch, x.req) \in received
  BY <1>0, <1>1, FailuresNamed
<1>4. SendAll(fail) \/ SendAll(out)
  BY DEF TakeQuery, CancelUnhandledQuery
<1>5. a \in Answer /\ Name(c, a.epoch, a.req) \in received'
  BY <1>0 DEF AnswerMsg, Answer, Request
<1> HIDE DEF a, fail
<1>6. t \in Seq(Answer) /\ Elements(t) = {a}
  BY <1>5, ElementsOfOne
<1> HIDE DEF t
<1>7. Elements(fail[c] \o t) = Elements(fail[c]) \cup {a}
  BY <1>2, <1>6, ElementsOfConcat
<1>8. /\ out \in [Browser -> Seq(Answer)]
      /\ \A b \in Browser : out[b] = IF b = c THEN fail[c] \o t ELSE fail[b]
  BY <1>2, <1>6
<1> HIDE DEF out
<1>9. \A b \in Browser : \A x \in Elements(out[b]) : Name(b, x.epoch, x.req) \in received'
  BY <1>0, <1>3, <1>5, <1>7, <1>8
<1> QED BY <1>0, <1>2, <1>3, <1>4, <1>8, <1>9, SentAll

(* Otherwise what was sent moves on, or is lost.                           *)
LEMMA SentMoves ==
  ASSUME TypeInv, NEW c \in Browser, NEW b \in Browser,
         \/ ReceiveAnswerStep(c) \/ ExecuteStep(c) \/ RenderViewReady(c)
         \/ Crash(c) \/ CommitElsewhere(c) \/ OnBeforeClose(c)
  PROVE  Sent(b)' \subseteq Sent(b)
<1> DEFINE r == toRenderer'[b]
           j == jsTasks'[b]
           u == queued'[b]
<1>1. Sent(b)' = Elements(r) \cup Elements(j) \cup Elements(u)
  BY DEF Sent, Elements
<1>2. /\ toRenderer[b] \in Seq(Answer) /\ jsTasks[b] \in Seq(Answer) /\ queued[b] \in Seq(Answer)
      /\ Elements(<<>>) = {}
  BY ElementsOfOne DEF TypeInv, TypeOK, TransportTypeOK, RendererSideTypeOK
<1> USE DEF TypeInv, TypeOK, TransportTypeOK, RendererSideTypeOK
<1>3. CASE ReceiveAnswerStep(c)
  <2>1. CASE b # c
    <3>1. r = toRenderer[b] /\ j = jsTasks[b] /\ u = queued[b]
      BY <1>3, <2>1 DEF ReceiveAnswerStep, ReceiveAnswer
    <3> QED BY <1>1, <3>1 DEF Sent
  <2>2. CASE b = c
    <3> DEFINE a == Head(toRenderer[b])
               t == <<a>>
    <3>1. /\ toRenderer[b] # <<>> /\ r = Tail(toRenderer[b]) /\ j = Append(jsTasks[b], a)
          /\ u = queued[b]
      BY <1>3, <2>2 DEF ReceiveAnswerStep, ReceiveAnswer
    <3>2. a \in Answer /\ Elements(toRenderer[b]) = {a} \cup Elements(r)
      BY <1>2, <3>1, HeadTailProperties, ElementsOfTail
    <3> HIDE DEF a, r, j, u
    <3>3. t \in Seq(Answer) /\ Elements(t) = {a} /\ j = jsTasks[b] \o t
      BY <1>2, <3>1, <3>2, ElementsOfOne, AppendIsConcat
    <3> HIDE DEF t
    <3>4. Elements(j) = Elements(jsTasks[b]) \cup {a}
      BY <1>2, <3>3, ElementsOfConcat
    <3> QED BY <1>1, <3>1, <3>2, <3>4 DEF Sent
  <2> QED BY <2>1, <2>2
<1>4. CASE ExecuteStep(c)
  <2>0. /\ r = toRenderer[b] /\ u = queued[b]
        /\ jsTasks[c] # <<>> /\ jsTasks' = [jsTasks EXCEPT ![c] = Tail(@)]
    BY <1>4 DEF ExecuteStep, ExecuteSuccessCallback, ExecuteFailureCallback, transportVars
  <2>1. /\ r = toRenderer[b] /\ u = queued[b]
        /\ j = jsTasks[b] \/ (jsTasks[b] # <<>> /\ j = Tail(jsTasks[b]))
    BY <2>0
  <2> HIDE DEF r, j, u
  <2>2. Elements(j) \subseteq Elements(jsTasks[b])
    BY <1>2, <2>1, ElementsOfTail
  <2> QED BY <1>1, <2>1, <2>2 DEF Sent
<1>5. CASE RenderViewReady(c)
  <2>1. /\ j = jsTasks[b] /\ u \in {queued[b], <<>>}
        /\ r \in {toRenderer[b], toRenderer[b] \o queued[b]}
    BY <1>5 DEF RenderViewReady, FlushQueue, rendererSideVars
  <2>2. Elements(toRenderer[b] \o queued[b]) = Elements(toRenderer[b]) \cup Elements(queued[b])
    BY <1>2, ElementsOfConcat
  <2> HIDE DEF r, j, u
  <2> QED BY <1>1, <1>2, <2>1, <2>2 DEF Sent
<1>6. CASE Crash(c) \/ CommitElsewhere(c) \/ OnBeforeClose(c)
  <2>1. r \in {toRenderer[b], <<>>} /\ j \in {jsTasks[b], <<>>} /\ u \in {queued[b], <<>>}
    BY <1>6 DEF Crash, ProcessDies, CommitElsewhere, SwapProcess, OnBeforeClose, DestroyChannel,
       ForgetProcess
  <2> HIDE DEF r, j, u
  <2> QED BY <1>1, <1>2, <2>1 DEF Sent
<1> QED BY <1>3, <1>4, <1>5, <1>6

LEMMA SentStep ==
  ASSUME TypeInv, QueriesReceived, SentReceived, received \subseteq received', [Next]_vars
  PROVE  SentReceived'
<1>1. CASE HandlerStep \/ UiTaskStep
  <2>1. jsTasks' = jsTasks
    BY <1>1 DEF HandlerStep, UiTaskStep, rendererSideVars
  <2>2. received' = received
    BY <1>1 DEF HandlerStep, AddHandler, RemoveHandler, CancelPending, CancelPendingOffUI,
       Succeed, Fail, AnswerOffUI, CallbackUnchanged, UiTaskStep, RunSuccess, RunFailure,
       RunCancelPending, OnCallbackSuccess, OnCallbackFailure, DeliverUnchanged
  <2> QED BY <1>1, <2>1, <2>2, SentHandlers
<1>2. ASSUME NEW c \in Browser, BrowserStep(c) PROVE SentReceived'
  <2>1. ASSUME NEW taker, NEW removed, UNCHANGED rendererSideVars,
               ReceiveQuery(c, navigating[c], taker, removed)
        PROVE  SentReceived'
    <3>1. Head(toBrowser[c]) \in Request /\ Head(toBrowser[c]).kind = "query" /\ epoch[c] \in Epoch
      BY <2>1, ArrivedType DEF ReceiveQuery
    <3> QED BY <2>1, <3>1, SentTaken DEF ReceiveQuery, rendererSideVars
  <2>2. ASSUME NEW e \in Epoch, NEW taker, NEW removed, UNCHANGED rendererSideVars,
               ReceiveLateQuery(c, e, taker, removed)
        PROVE  SentReceived'
    <3>1. Head(late[c][e]) \in Request /\ Head(late[c][e]).kind = "query"
      BY <2>2, LateArrivedType DEF ReceiveLateQuery
    <3> QED BY <2>2, <3>1, SentTaken DEF ReceiveLateQuery, rendererSideVars
  <2>3. ASSUME UNCHANGED rendererSideVars, ReceiveCancel(c) \/ \E e \in Epoch : ReceiveLateCancel(c, e)
        PROVE  SentReceived'
    <3>1. UNCHANGED <<toRenderer, queued, jsTasks>>
      BY <2>3 DEF ReceiveCancel, ReceiveLateCancel, CancelPendingRequest, rendererSideVars
    <3> QED BY <3>1, SentSame
  <2>4. CASE OnProcessMessageReceived(c) \/ ReceiveLate(c)
    BY <2>1, <2>2, <2>3, <2>4 DEF OnProcessMessageReceived, ReceiveLate
  <2>5. CASE \/ JavaScriptStep(c) \/ OnBeforeBrowse(c) \/ (\E f \in Frame : ReleaseContext(c, f))
             \/ StopLoad(c) \/ LaunchRenderer(c)
             \/ \E normal \in BOOLEAN : RenderProcessGone(c, normal)
    <3>1. UNCHANGED <<toRenderer, queued, jsTasks>>
      BY <2>5 DEF JavaScriptStep, CefQuery, CefQueryCancel, CancelUnchanged, OnBeforeBrowse,
         ReleaseContext, OnContextReleased, StopLoad, LaunchRenderer, LaunchProcess,
         RenderProcessGone, ChannelError, transportVars, rendererSideVars
    <3> QED BY <3>1, SentSame
  <2>6. CASE \/ ReceiveAnswerStep(c) \/ ExecuteStep(c) \/ RenderViewReady(c)
             \/ Crash(c) \/ CommitElsewhere(c) \/ OnBeforeClose(c)
    <3>1. \A b \in Browser : Sent(b)' \subseteq Sent(b)
      BY <2>6, SentMoves
    <3> QED BY <3>1, SentLess
  <2> QED BY <1>2, <2>4, <2>5, <2>6 DEF BrowserStep
<1>3. CASE UNCHANGED vars
  BY <1>3, SentSame DEF vars, transportVars, rendererSideVars
<1> QED BY <1>1, <1>2, <1>3 DEF Next

-----------------------------------------------------------------------------
(* The steps of the router, and what they make of the record.              *)
LEMMA HandlersRecord ==
  ASSUME RecordedInv, HandlerStep \/ UiTaskStep
  PROVE  JsStep /\ HdStep /\ Recorded'
<1>0. LinkedInv /\ Recorded /\ TypeInv
  BY LinkedInvFacts DEF RecordedInv
<1>1. /\ UNCHANGED <<proc, epoch, toBrowser, rendererSideVars>>
      /\ \A b \in Browser : HandlerSide(b)
  BY <1>0, HandlerSideSteps, LinkedInvFacts
<1>2. UNCHANGED <<late, received, dropped>>
  BY DEF HandlerStep, AddHandler, RemoveHandler, CancelPending, CancelPendingOffUI, Succeed,
         Fail, AnswerOffUI, CallbackUnchanged, UiTaskStep, RunSuccess, RunFailure,
         RunCancelPending, OnCallbackSuccess, OnCallbackFailure, DeliverUnchanged,
         CancelPendingFor, transportVars
<1>3. \A q : Kept(q)
  BY <1>0, HandlerStepKept, UiTaskStepKept
<1>4. HdStep /\ QueriesReceived' /\ dropped' \subseteq received'
  BY <1>0, <1>2, <1>3, QueriesStay
<1>5. /\ UNCHANGED <<issued, answered, misled, requests, lastReq>>
      /\ HistoryKnown
  BY <1>0, <1>1 DEF rendererSideVars, Recorded
<1>6. JsStep /\ \A b \in Browser : RequestsIssued(b)'
  BY <1>0, <1>1, <1>5, RequestsStay
<1>7. HistoryKnown'
  BY <1>0, <1>1, <1>4, <1>5, HistoryStays DEF HistoryKnown
<1>8. ASSUME NEW b \in Browser PROVE MessagesFresh(b)'
  BY <1>0, <1>1, <1>2, <1>5, MessagesStay DEF Recorded
<1>9. ASSUME NEW b \in Browser PROVE AnswersKept(b)'
  <2>1. CASE proc[b] = "live"
    BY <1>0, <1>1, <1>2, <1>4, <2>1, SettlesAnswers
  <2>2. CASE proc[b] # "live"
    BY <1>0, <1>5, <2>2, NoRequests DEF TypeInv, Started
  <2> QED BY <2>1, <2>2
<1> QED BY <1>4, <1>6, <1>7, <1>8, <1>9 DEF Recorded

(* A query that is taken has the name of its message.                      *)
LEMMA QueryRecorded ==
  ASSUME RecordedInv, NEW c \in Browser, NEW e, NEW m, NEW unguarded, NEW taker, NEW removed,
         TakeQuery(c, e, m, unguarded, taker, removed), Name(c, e, m.req) \in issued \ received
  PROVE  HdStep /\ QueriesReceived' /\ dropped' \subseteq received'
<1> DEFINE u == Name(c, e, m.req)
<1>0. LinkedInv /\ Recorded /\ TypeInv /\ IdsAscend
  BY LinkedInvFacts DEF RecordedInv
<1>1. received' = received \cup {u} /\ dropped' = dropped /\ u \in issued \ received
  BY DEF TakeQuery, Name
<1>2. /\ \A q \in DOMAIN queries : UidOfQuery(q) \in received \ dropped
      /\ \A q, p \in DOMAIN queries : UidOfQuery(q) = UidOfQuery(p) => q = p
      /\ dropped \subseteq received
  BY <1>0 DEF Recorded, QueriesReceived, HistoryKnown
<1>3. \A q \in DOMAIN queries' :
         \/ q \in DOMAIN queries /\ UidOfQuery(q)' = UidOfQuery(q)
         \/ q = nextQueryId /\ UidOfQuery(q)' = u
  <2>1. CASE taker \in handlers
    <3> SUFFICES ASSUME NEW q \in DOMAIN queries'
                 PROVE  \/ q \in DOMAIN queries /\ queries'[q] = queries[q]
                        \/ /\ q = nextQueryId /\ queries'[q].browser = c
                           /\ queries'[q].epoch = e /\ queries'[q].req = m.req
      BY DEF UidOfQuery, Name
    <3> QED BY <2>1 DEF TakeQuery
  <2>2. CASE taker \notin handlers
    <3>1. CancelQueries(Matching(Browser, removed))
      BY <2>2 DEF TakeQuery
    <3> QED BY <3>1, CancelQueriesKept DEF Kept, UidOfQuery
  <2> QED BY <2>1, <2>2
<1> HIDE DEF u
<1>4. QueriesReceived'
  <2>1. \A q \in DOMAIN queries' : UidOfQuery(q)' \in received' \ dropped'
    BY <1>1, <1>2, <1>3
  <2>2. ASSUME NEW q \in DOMAIN queries', NEW p \in DOMAIN queries',
               UidOfQuery(q)' = UidOfQuery(p)'
        PROVE  q = p
    BY <1>1, <1>2, <1>3, <2>2
  <2> QED BY <2>1, <2>2 DEF QueriesReceived
<1>5. \A r : HasQuery(r)' /\ ~HasQuery(r) => r = u
  BY <1>3 DEF HasQuery
<1>6. HdStep
  BY <1>1, <1>5 DEF HdStep
<1> QED BY <1>1, <1>2, <1>4, <1>6

LEMMA TakenRecord ==
  ASSUME RecordedInv, NEW c \in Browser, NEW e \in Epoch, NEW m, m.kind = "query",
         NEW unguarded, NEW taker, NEW removed, TakeQuery(c, e, m, unguarded, taker, removed),
         Reads(c, e, m), UNCHANGED rendererSideVars,
         \A b \in Browser : proc[b] = "live" =>
            HandlerSide(b) \/ (b = c /\ e = epoch[b] /\ Adopts(b, nextQueryId, m))
  PROVE  JsStep /\ HdStep /\ Recorded'
<1> DEFINE u == Name(c, e, m.req)
<1>0. LinkedInv /\ Recorded /\ TypeInv /\ HistoryKnown
  BY LinkedInvFacts DEF RecordedInv, Recorded
<1>1. u \in issued \ received
  <2>1. MessagesFresh(c) /\ toBrowser[c] \in Seq(Request) /\ late[c][e] \in Seq(Request)
    BY <1>0 DEF Recorded, TypeInv, TypeOK, TransportTypeOK
  <2> QED BY <2>1, UnreadTail DEF Reads, MessagesFresh
<1>2. /\ UNCHANGED <<proc, epoch, issued, answered, misled, requests, lastReq>>
      /\ received' = received \cup {u} /\ dropped' = dropped
  BY DEF TakeQuery, rendererSideVars, Name
<1>3. HdStep /\ QueriesReceived' /\ dropped' \subseteq received'
  BY <1>1, QueryRecorded
<1>4. JsStep /\ \A b \in Browser : RequestsIssued(b)'
  BY <1>0, <1>2, RequestsStay
<1>5. HistoryKnown'
  BY <1>0, <1>2, <1>3, HistoryStays DEF HistoryKnown
<1>6. ASSUME NEW b \in Browser PROVE MessagesFresh(b)'
  BY <1>0, <1>2, MessageRead DEF Recorded
<1>7. ASSUME NEW b \in Browser, proc[b] = "live", b = c, e = epoch[b], Adopts(b, nextQueryId, m)
      PROVE  AnswersKept(b)'
  <2>1. PICK New : /\ LeavesAnswered(b, New)
                   /\ \A a \in New : AnswersOneOf(b, a) \/ AnswerTo(a, m)
    BY <1>7 DEF Adopts
  <2>2. Answers(b)' = Answers(b) \cup New
    <3>1. Own(b, jsTasks[b])' = Own(b, jsTasks[b])
      BY <2>1 DEF LeavesAnswered, Own, Elements
    <3> QED BY <2>1, <3>1 DEF LeavesAnswered, Answers
  <2>3. \A a : AnswerTo(a, m) => UidOf(b, a.req) = u
    BY <1>7 DEF AnswerTo, UidOf, Name
  <2>4. u \in received' \ dropped' /\ received \subseteq received'
    BY <1>0, <1>1, <1>2 DEF HistoryKnown
  <2> HIDE DEF u
  <2>5. \A a \in New : UidOf(b, a.req) \in received' \ dropped'
    BY <1>0, <1>2, <2>1, <2>3, <2>4, AnswersOfPending
  <2> QED BY <1>0, <1>2, <1>3, <2>2, <2>5, AnswersStay
<1>8. ASSUME NEW b \in Browser PROVE AnswersKept(b)'
  <2>1. CASE proc[b] = "live"
    BY <1>0, <1>2, <1>3, <1>7, <2>1, SettlesAnswers
  <2>2. CASE proc[b] # "live"
    BY <1>0, <1>2, <2>2, NoRequests DEF TypeInv, Started
  <2> QED BY <2>1, <2>2
<1> QED BY <1>3, <1>4, <1>5, <1>6, <1>8 DEF Recorded

(* What a cancel ends in place of its own is dropped.                      *)
LEMMA CancelRecord ==
  ASSUME RecordedInv, NEW c \in Browser, NEW e \in Epoch, NEW m,
         CancelPendingRequest(c, e, m.ctx, m.req), Reads(c, e, m), UNCHANGED rendererSideVars
  PROVE  JsStep /\ HdStep /\ Recorded'
<1>0. LinkedInv /\ Recorded /\ TypeInv /\ HistoryKnown
  BY LinkedInvFacts DEF RecordedInv, Recorded
<1>1. /\ UNCHANGED <<proc, epoch, toRenderer, received>>
      /\ UNCHANGED <<issued, answered, misled, requests, lastReq, jsTasks>>
  BY DEF CancelPendingRequest, rendererSideVars
<1>2. /\ \A q : Kept(q)
      /\ dropped \subseteq dropped'
      /\ \A u \in dropped' \ dropped :
            \E q \in DOMAIN queries : q \notin DOMAIN queries' /\ u = UidOfQuery(q)
  <2>1. PICK hit \in SUBSET DOMAIN queries :
           /\ CancelQueries(hit)
           /\ dropped' = dropped \cup {UidOfQuery(q) : q \in {p \in hit : queries[p].epoch # e}}
    BY DEF CancelPendingRequest, Canceled
  <2> QED BY <2>1, CancelQueriesKept
<1>3. HdStep /\ QueriesReceived' /\ dropped' \subseteq received'
  BY <1>0, <1>1, <1>2, QueriesStay
<1>4. JsStep /\ \A b \in Browser : RequestsIssued(b)'
  BY <1>0, <1>1, RequestsStay
<1>5. HistoryKnown'
  BY <1>0, <1>1, <1>3, HistoryStays DEF HistoryKnown
<1>6. ASSUME NEW b \in Browser PROVE MessagesFresh(b)'
  BY <1>0, <1>1, MessageRead DEF Recorded
<1>7. ASSUME NEW b \in Browser PROVE AnswersKept(b)'
  <2>1. Answers(b)' = Answers(b)
    BY <1>1 DEF Answers, Own, Elements
  <2> QED BY <1>0, <1>1, <1>3, <2>1, AnswersStay
<1> QED BY <1>3, <1>4, <1>5, <1>6, <1>7 DEF Recorded

(* A message of the living process, or of one left behind, is read.        *)
LEMMA ReceiveRecord ==
  ASSUME RecordedInv, NEW c \in Browser, OnProcessMessageReceived(c) \/ ReceiveLate(c)
  PROVE  JsStep /\ HdStep /\ Recorded'
<1>0. TypeInv /\ NothingQueued /\ EpochsPast /\ IdsAscend /\ UNCHANGED rendererSideVars
  BY LinkedInvFacts DEF RecordedInv, OnProcessMessageReceived, ReceiveLate
<1>1. ASSUME NEW taker, NEW removed, ReceiveQuery(c, navigating[c], taker, removed)
      PROVE  JsStep /\ HdStep /\ Recorded'
  <2> DEFINE m == Head(toBrowser[c])
  <2>1. /\ m.kind = "query" /\ epoch[c] \in Epoch /\ Reads(c, epoch[c], m)
        /\ TakeQuery(c, epoch[c], m, navigating[c], taker, removed)
    BY <1>0, <1>1, ArrivedType DEF ReceiveQuery, Arrived, Reads
  <2>2. ASSUME NEW b \in Browser, proc[b] = "live"
        PROVE  HandlerSide(b) \/ (b = c /\ epoch[c] = epoch[b] /\ Adopts(b, nextQueryId, m))
    BY <1>0, <1>1, <2>2, ReceiveQueryTakes DEF Takes
  <2> HIDE DEF m
  <2> QED BY <1>0, <2>1, <2>2, TakenRecord
<1>2. ASSUME NEW e \in Epoch, NEW taker, NEW removed, ReceiveLateQuery(c, e, taker, removed)
      PROVE  JsStep /\ HdStep /\ Recorded'
  <2> DEFINE m == Head(late[c][e])
  <2>1. e # epoch[c] /\ m.kind = "query"
    <3>1. e < epoch[c] /\ e \in Int /\ epoch[c] \in Int /\ m.kind = "query"
      BY <1>0, <1>2, LateArrivedType, BoundsAssumption
      DEF ReceiveLateQuery, Epoch, TypeInv, TypeOK, TransportTypeOK
    <3> QED BY <3>1
  <2>2. TakeQuery(c, e, m, TRUE, taker, removed) /\ Reads(c, e, m)
    BY <1>2, <2>1 DEF ReceiveLateQuery, LateArrived, Reads
  <2>3. \A b \in Browser : HandlerSide(b)
    BY <1>0, <1>2, ReceiveLateQuerySettles
  <2> HIDE DEF m
  <2> QED BY <1>0, <2>1, <2>2, <2>3, TakenRecord
<1>3. ASSUME ReceiveCancel(c) PROVE JsStep /\ HdStep /\ Recorded'
  <2>1. epoch[c] \in Epoch /\ Reads(c, epoch[c], Head(toBrowser[c]))
    BY <1>0, <1>3, ArrivedType DEF ReceiveCancel, Arrived, Reads
  <2> QED BY <1>0, <1>3, <2>1, CancelRecord DEF ReceiveCancel
<1>4. ASSUME NEW e \in Epoch, ReceiveLateCancel(c, e) PROVE JsStep /\ HdStep /\ Recorded'
  <2>1. e # epoch[c]
    <3>1. e < epoch[c] /\ e \in Int /\ epoch[c] \in Int
      BY <1>0, <1>4, LateArrivedType, BoundsAssumption
      DEF ReceiveLateCancel, Epoch, TypeInv, TypeOK, TransportTypeOK
    <3> QED BY <3>1
  <2>2. Reads(c, e, Head(late[c][e]))
    BY <1>4, <2>1 DEF ReceiveLateCancel, LateArrived, Reads
  <2> QED BY <1>0, <1>4, <2>2, CancelRecord DEF ReceiveLateCancel
<1> QED BY <1>1, <1>2, <1>3, <1>4 DEF OnProcessMessageReceived, ReceiveLate

-----------------------------------------------------------------------------
(* What is canceled silently leaves the map and is dropped.                *)
LEMMA SilentlyDropped ==
  ASSUME RecordedInv, NEW c \in Browser, CancelSilently({c}), received' = received
  PROVE  HdStep /\ QueriesReceived' /\ dropped' \subseteq received'
<1>0. Recorded /\ TypeInv /\ BrowserSideTypeOK
  BY LinkedInvFacts DEF RecordedInv, TypeOK
<1>1. \A q : Kept(q)
  BY <1>0, CancelSilentlyKept
<1>2. /\ dropped' = dropped \cup {UidOfQuery(q) : q \in Matching({c}, Handler)}
      /\ \A q \in Matching({c}, Handler) : q \in DOMAIN queries /\ q \notin DOMAIN queries'
  BY CancelQueriesKept DEF CancelSilently, Matching
<1> QED BY <1>0, <1>1, <1>2, QueriesStay

(* The process of a browser starts, ends, is left or stays, and what is on *)
(* its way is lost with it or stays.                                       *)
ProcessMoves(b) ==
  /\ requests'[b] \in {requests[b], {}}
  /\ requests'[b] # {} => epoch'[b] = epoch[b] /\ Answers(b)' = Answers(b)
  /\ \/ epoch'[b] = epoch[b] + 1
     \/ /\ epoch'[b] = epoch[b]
        /\ proc'[b] = "live" => proc[b] = "live" /\ lastReq'[b] = lastReq[b]
  /\ MessagesFresh(b)'

LEMMA MoveRecord ==
  ASSUME RecordedInv, UNCHANGED <<issued, answered, misled, received>>,
         \/ UNCHANGED <<queries, dropped>>
         \/ \E c \in Browser : CancelSilently({c}),
         \A b \in Browser : ProcessMoves(b)
  PROVE  JsStep /\ HdStep /\ Recorded'
<1> USE DEF ProcessMoves
<1>0. LinkedInv /\ Recorded /\ TypeInv /\ HistoryKnown
  BY LinkedInvFacts DEF RecordedInv, Recorded
<1>1. HdStep /\ QueriesReceived' /\ dropped' \subseteq received'
  <2>1. CASE UNCHANGED <<queries, dropped>>
    <3>1. \A q : Kept(q)
      BY <2>1 DEF Kept
    <3> QED BY <1>0, <2>1, <3>1, QueriesStay
  <2> QED BY <2>1, SilentlyDropped
<1>2. \A b \in Browser : requests'[b] \subseteq requests[b] /\ (requests'[b] # {} => epoch'[b] = epoch[b])
  OBVIOUS
<1>3. JsStep /\ \A b \in Browser : RequestsIssued(b)'
  BY <1>0, <1>2, RequestsStay
<1>4. HistoryKnown'
  BY <1>0, <1>1, HistoryStays DEF HistoryKnown
<1>5. ASSUME NEW b \in Browser PROVE AnswersKept(b)'
  <2>1. CASE requests'[b] = {}
    BY <2>1, NoRequests
  <2>2. CASE requests'[b] # {}
    BY <1>0, <1>1, <1>2, <2>2, AnswersStay
  <2> QED BY <2>1, <2>2
<1> QED BY <1>1, <1>3, <1>4, <1>5 DEF Recorded

LEMMA CancelSent ==
  ASSUME NEW I, NEW b, NEW e, NEW s \in Seq(Request), Unread(I, b, e, s), NEW x \in Id, NEW r \in Id0
  PROVE  Unread(I, b, e, s \o <<CancelMsg(x, r)>>)
<1> DEFINE m == CancelMsg(x, r)
<1>1. m \in Request /\ m.kind # "query"
  BY DEF CancelMsg, Request
<1> HIDE DEF m
<1>2. Unread(I, b, e, s \o <<m>>)
  BY <1>1, UnreadSent
<1> QED BY <1>2 DEF m

(* The messages of the process that is left become late ones.              *)
LEMMA LateFresh ==
  ASSUME TypeInv, NEW c \in Browser, MessagesFresh(c), CommitElsewhere(c),
         UNCHANGED <<issued, received>>
  PROVE  MessagesFresh(c)'
<1> DEFINE I == issued \ received
           x == ctx[c][MainFrame]
           s == toBrowser[c] \o LastCancel(c)
<1>0. /\ toBrowser[c] \in Seq(Request) /\ epoch[c] \in Nat /\ toBrowser[c] \o <<>> = toBrowser[c]
      /\ Unread(I, c, epoch[c], toBrowser[c]) /\ \A e \in Epoch : Unread(I, c, e, late[c][e])
  <2>1. toBrowser[c] \in Seq(Request) /\ epoch[c] \in Nat
    BY DEF TypeInv, TypeOK, TransportTypeOK
  <2> QED BY <2>1, ConcatEmptySeq DEF MessagesFresh
<1>1. s \in Seq(Request) /\ Unread(I, c, epoch[c], s)
  <2>1. CASE PendingRequests(c, x, kReservedId) = {}
    BY <1>0, <2>1 DEF LastCancel
  <2>2. CASE PendingRequests(c, x, kReservedId) # {}
    <3>1. x \in Id /\ kReservedId \in Id0
      BY <2>2 DEF PendingRequests, TypeInv, TypeOK, RendererSideTypeOK, RequestInfo, Id0
    <3>2. s = toBrowser[c] \o <<CancelMsg(x, kReservedId)>>
      BY <2>2 DEF LastCancel
    <3>3. CancelMsg(x, kReservedId) \in Request
      BY <3>1 DEF CancelMsg, Request
    <3>4. <<CancelMsg(x, kReservedId)>> \in Seq(Request)
      BY <3>3
    <3> HIDE DEF s, x, I
    <3>5. Unread(I, c, epoch[c], toBrowser[c] \o <<CancelMsg(x, kReservedId)>>)
      BY <1>0, <3>1, CancelSent
    <3> QED BY <1>0, <3>2, <3>4, <3>5
  <2> QED BY <2>1, <2>2
<1>2. PICK n \in 0 .. Len(s) : late' = [late EXCEPT ![c][epoch[c]] = SubSeq(s, 1, n)]
  BY DEF CommitElsewhere, SwapProcess
<1> HIDE DEF s, I
<1>3. Unread(I, c, epoch[c], SubSeq(s, 1, n))
  BY <1>1, UnreadPrefix
<1>4. ASSUME NEW e \in Epoch PROVE Unread(I, c, e, late'[c][e])
  <2>1. late'[c][e] = IF e = epoch[c] THEN SubSeq(s, 1, n) ELSE late[c][e]
    <3>1. late \in [Browser -> [Epoch -> Seq(Request)]]
      BY DEF TypeInv, TypeOK, TransportTypeOK
    <3> QED BY <1>2, <3>1
  <2> QED BY <1>0, <1>3, <2>1
<1>5. toBrowser'[c] = <<>>
  BY DEF CommitElsewhere, SwapProcess, TypeInv, TypeOK, TransportTypeOK
<1>6. Unread(I, c, epoch'[c], <<>>)
  BY NoneUnread
<1>7. MessagesFresh(c)' <=> /\ Unread(I, c, epoch'[c], toBrowser'[c])
                            /\ \A e \in Epoch : Unread(I, c, e, late'[c][e])
  BY DEF MessagesFresh, Unread, Name, I
<1> QED BY <1>4, <1>5, <1>6, <1>7

(* What a navigation and the life of a process do to a browser.            *)
MovesProcess(c) ==
  \/ OnBeforeBrowse(c) \/ StopLoad(c) \/ CommitElsewhere(c) \/ LaunchRenderer(c)
  \/ RenderViewReady(c) \/ Crash(c) \/ (\E normal \in BOOLEAN : RenderProcessGone(c, normal))
  \/ OnBeforeClose(c)

LEMMA ProcessMessages ==
  ASSUME TypeInv, NEW c \in Browser, MovesProcess(c), NEW b \in Browser, MessagesFresh(b),
         UNCHANGED <<issued, received>>
  PROVE  MessagesFresh(b)'
<1> USE DEF TypeInv, TypeOK, TransportTypeOK
<1>1. CASE b = c /\ CommitElsewhere(c)
  BY <1>1, LateFresh
<1>2. CASE ~(b = c /\ CommitElsewhere(c))
  <2>1. \/ toBrowser'[b] = toBrowser[b] /\ epoch'[b] = epoch[b]
        \/ toBrowser'[b] = <<>>
        \/ /\ \E n \in 0 .. Len(toBrowser[b]) : toBrowser'[b] = SubSeq(toBrowser[b], 1, n)
           /\ epoch'[b] = epoch[b]
    <3>1. proc[b] = "absent" => toBrowser[b] = <<>>
      BY DEF Started
    <3>2. CASE OnBeforeBrowse(c) \/ StopLoad(c) \/ RenderViewReady(c)
      BY <3>2 DEF OnBeforeBrowse, StopLoad, RenderViewReady, FlushQueue, transportVars
    <3>3. CASE LaunchRenderer(c)
      BY <3>1, <3>3 DEF LaunchRenderer, LaunchProcess
    <3>4. CASE CommitElsewhere(c)
      BY <1>2, <3>4 DEF CommitElsewhere, SwapProcess
    <3>5. CASE Crash(c)
      BY <3>5 DEF Crash, ProcessDies
    <3>6. CASE \E normal \in BOOLEAN : RenderProcessGone(c, normal)
      BY <3>6 DEF RenderProcessGone, ChannelError
    <3>7. CASE OnBeforeClose(c)
      BY <3>7 DEF OnBeforeClose, DestroyChannel
    <3> QED BY <3>2, <3>3, <3>4, <3>5, <3>6, <3>7 DEF MovesProcess
  <2>2. late'[b] = late[b] \/ late'[b] = [e \in Epoch |-> <<>>]
    <3>1. CASE CommitElsewhere(c)
      <4>1. \E z : late' = [late EXCEPT ![c] = z]
        BY <3>1 DEF CommitElsewhere, SwapProcess
      <4> QED BY <1>2, <3>1, <4>1
    <3>2. CASE ~CommitElsewhere(c)
      BY <3>2 DEF MovesProcess, OnBeforeBrowse, StopLoad, LaunchRenderer, LaunchProcess,
         RenderViewReady, FlushQueue, Crash, ProcessDies, RenderProcessGone, ChannelError,
         OnBeforeClose, DestroyChannel, transportVars
    <3> QED BY <3>1, <3>2
  <2>3. \A e \in Epoch : late'[b][e] \in {late[b][e], <<>>}
    BY <2>2
  <2> QED BY <2>1, <2>3, MessagesStay
<1> QED BY <1>1, <1>2

LEMMA ProcessRecord ==
  ASSUME RecordedInv, NEW c \in Browser, MovesProcess(c)
  PROVE  JsStep /\ HdStep /\ Recorded'
<1>0. TypeInv /\ TypeOK /\ LinkedInv
  BY LinkedInvFacts DEF RecordedInv
<1>1. /\ UNCHANGED <<issued, answered, misled, received>>
      /\ CancelSilently({c}) \/ UNCHANGED <<queries, dropped>>
  BY DEF MovesProcess, OnBeforeBrowse, StopLoad, CommitElsewhere, LaunchRenderer, RenderViewReady,
         Crash, RenderProcessGone, OnBeforeClose, ForgetProcess, browserSideVars, rendererSideVars
<1>2. ASSUME NEW b \in Browser PROVE MessagesFresh(b)'
  BY <1>0, <1>1, <1>2, ProcessMessages DEF RecordedInv, Recorded
<1>3. ASSUME NEW b \in Browser
      PROVE  /\ requests'[b] \in {requests[b], {}}
             /\ requests'[b] # {} => epoch'[b] = epoch[b] /\ Answers(b)' = Answers(b)
             /\ \/ epoch'[b] = epoch[b] + 1
                \/ /\ epoch'[b] = epoch[b]
                   /\ proc'[b] = "live" => proc[b] = "live" /\ lastReq'[b] = lastReq[b]
  <2> USE <1>0 DEF TypeOK, TransportTypeOK, RendererSideTypeOK
  <2>1. UNCHANGED <<epoch[b], toRenderer[b], jsTasks[b]>> => Answers(b)' = Answers(b)
    BY DEF Answers, Own, Elements
  <2>2. CASE OnBeforeBrowse(c) \/ StopLoad(c)
    BY <2>1, <2>2 DEF OnBeforeBrowse, StopLoad, transportVars, rendererSideVars
  <2>3. CASE LaunchRenderer(c)
    <3>1. proc[b] = "absent" => requests[b] = {}
      BY DEF TypeInv, Started
    <3> QED BY <2>1, <2>3, <3>1 DEF LaunchRenderer, LaunchProcess, rendererSideVars
  <2>4. CASE RenderViewReady(c)
    <3>1. UNCHANGED <<proc, epoch, requests, lastReq, jsTasks>>
      BY <2>4 DEF RenderViewReady, FlushQueue, rendererSideVars
    <3>2. ASSUME requests[b] # {} PROVE Answers(b)' = Answers(b)
      <4>1. CASE b # c
        BY <2>1, <2>4, <3>1, <4>1 DEF RenderViewReady, FlushQueue
      <4>2. CASE b = c
        <5>1. proc[b] = "live" /\ InStep(b)
          BY <3>2 DEF TypeInv, Started, LinkedInv
        <5>2. Own(b, queued[b]) = {} /\ toRenderer'[b] = toRenderer[b] \o queued[b]
          BY <2>4, <4>2, <5>1 DEF RenderViewReady, FlushQueue, InStep
        <5>3. Elements(toRenderer[b] \o queued[b]) = Elements(toRenderer[b]) \cup Elements(queued[b])
          BY ElementsOfConcat
        <5>4. Own(b, toRenderer[b])' = Own(b, toRenderer[b])
          <6>1. Elements(toRenderer[b])' = Elements(toRenderer[b]) \cup Elements(queued[b])
            BY <5>2, <5>3 DEF Elements
          <6> QED BY <3>1, <5>2, <6>1 DEF Own
        <5>5. Own(b, jsTasks[b])' = Own(b, jsTasks[b])
          BY <3>1 DEF Own, Elements
        <5> QED BY <5>4, <5>5 DEF Answers
      <4> QED BY <4>1, <4>2
    <3> QED BY <3>1, <3>2
  <2>5. CASE Crash(c) \/ CommitElsewhere(c)
    BY <2>1, <2>5 DEF Crash, ProcessDies, CommitElsewhere, SwapProcess, ForgetProcess
  <2>6. CASE \E normal \in BOOLEAN : RenderProcessGone(c, normal)
    BY <2>1, <2>6 DEF RenderProcessGone, ChannelError, rendererSideVars
  <2>7. CASE OnBeforeClose(c)
    BY <2>1, <2>7 DEF OnBeforeClose, DestroyChannel, ForgetProcess
  <2> QED BY <2>2, <2>3, <2>4, <2>5, <2>6, <2>7 DEF MovesProcess
<1>4. \A b \in Browser : ProcessMoves(b)
  BY <1>2, <1>3 DEF ProcessMoves
<1> QED BY <1>1, <1>4, MoveRecord

-----------------------------------------------------------------------------
(* cefQuery(): a request nobody has made before.                           *)
LEMMA AskRecord ==
  ASSUME RecordedInv, NEW c \in Browser, NEW f \in Frame, NEW persistent \in BOOLEAN,
         CefQuery(c, f, persistent), UNCHANGED browserSideVars
  PROVE  JsStep /\ HdStep /\ Recorded'
<1> DEFINE i == [ctx |-> ContextId(c, f), req |-> lastReq[c] + 1, persistent |-> persistent]
           m == QueryMsg(i.ctx, i.req, persistent)
           u == UidOf(c, i.req)
<1>0. LinkedInv /\ Recorded /\ TypeInv /\ proc[c] = "live" /\ Linked(c)
      /\ lastReq[c] \in Nat /\ toBrowser[c] \in Seq(Request)
  BY LinkedInvFacts DEF RecordedInv, CefQuery, UseContext, TypeInv, TypeOK, RendererSideTypeOK,
     Id0, Id, kReservedId
<1>1. i \in RequestInfo /\ i.req \in Id /\ i.req = lastReq[c] + 1 /\ m \in Request
      /\ m.kind = "query" /\ m.req = i.req
  BY DEF CefQuery, UseContext, RequestInfo, QueryMsg, Request
<1>2. /\ UNCHANGED <<proc, epoch, late, toRenderer, jsTasks, answered, misled>>
      /\ UNCHANGED <<received, dropped, queries>>
      /\ issued' = issued \cup {u}
      /\ toBrowser'[c] = toBrowser[c] \o <<m>>
      /\ requests'[c] = requests[c] \cup {i}
      /\ lastReq'[c] = lastReq[c] + 1
      /\ \A b \in Browser : b # c =>
            /\ toBrowser'[b] = toBrowser[b]
            /\ requests'[b] = requests[b]
            /\ lastReq'[b] = lastReq[b]
  BY <1>0 DEF CefQuery, UseContext, SendToBrowser, browserSideVars, RequestUid, UidOf,
     TypeInv, TypeOK, TransportTypeOK, RendererSideTypeOK
<1> HIDE DEF m, i
<1>3. \A b \in Browser : \A x : UidOf(b, x)' = UidOf(b, x)
  BY <1>2 DEF UidOf
<1>4. u.browser = c /\ u.epoch = epoch[c] /\ u.req = lastReq[c] + 1 /\ u = Name(c, epoch[c], m.req)
  BY <1>1 DEF UidOf, Name
<1>5. /\ HistoryKnown /\ QueriesReceived
      /\ \A b \in Browser : MessagesFresh(b) /\ RequestsIssued(b) /\ AnswersKept(b)
  BY <1>0 DEF Recorded
<1>6. u \notin issued
  BY <1>0, <1>4, <1>5 DEF HistoryKnown
<1> HIDE DEF u
<1>7. HistoryKnown'
  <2>1. \A v \in issued : v.browser \in Browser /\ v.req \in Nat
    BY <1>0 DEF TypeInv, TypeOK, RendererSideTypeOK, Id
  <2>2. epoch[c] \in Nat
    BY <1>0 DEF TypeInv, TypeOK, TransportTypeOK
  <2>3. ASSUME NEW v \in issued'
        PROVE  /\ v.epoch <= epoch'[v.browser]
               /\ proc'[v.browser] = "live" /\ v.epoch = epoch'[v.browser]
                     => v.req <= lastReq'[v.browser]
    BY <1>0, <1>2, <1>4, <1>5, <2>1, <2>2 DEF HistoryKnown
  <2> QED BY <1>2, <1>5, <2>3 DEF HistoryKnown
<1>8. QueriesReceived'
  BY <1>2, <1>5 DEF QueriesReceived, UidOfQuery
<1>9. HdStep
  BY <1>2 DEF HdStep, HasQuery, UidOfQuery
<1>10. JsStep
  <2>1. ASSUME NEW r \in Uid PROVE Awaits(r)' <=> Awaits(r) \/ r = u
    <3>1. r.browser \in Browser
      BY DEF Uid
    <3>2. CASE r.browser # c
      BY <1>2, <1>3, <1>4, <3>1, <3>2 DEF Awaits
    <3>3. CASE r.browser = c
      BY <1>2, <1>3, <3>3 DEF Awaits, u
    <3> QED BY <3>2, <3>3
  <2>2. \A r \in Uid : Awaits(r) => r \in issued
    BY <1>0, RecordedFacts
  <2> QED BY <1>2, <1>6, <2>1, <2>2 DEF JsStep
<1>11. ASSUME NEW b \in Browser PROVE RequestsIssued(b)'
  <2>1. CASE b # c
    BY <1>2, <1>3, <1>5, <2>1 DEF RequestsIssued
  <2>2. CASE b = c
    <3>1. \A j \in requests[c] : j.req # i.req
      BY <1>5, <1>6 DEF RequestsIssued, u
    <3>2. u \notin answered \cup misled
      BY <1>5, <1>6 DEF HistoryKnown
    <3> QED BY <1>2, <1>3, <1>5, <2>2, <3>1, <3>2 DEF RequestsIssued, u
  <2> QED BY <2>1, <2>2
<1>12. ASSUME NEW b \in Browser PROVE MessagesFresh(b)'
  <2> DEFINE I == issued \ received
             J == issued' \ received'
  <2>1. J = I \cup {u} /\ u \notin I
    BY <1>2, <1>5, <1>6 DEF HistoryKnown
  <2>2. Unread(I, b, epoch[b], toBrowser[b]) /\ \A e \in Epoch : Unread(I, b, e, late[b][e])
    BY <1>5 DEF MessagesFresh
  <2>3. MessagesFresh(b)' <=> /\ Unread(J, b, epoch[b], toBrowser'[b])
                              /\ \A e \in Epoch : Unread(J, b, e, late[b][e])
    BY <1>2 DEF MessagesFresh, Unread, Name
  <2> HIDE DEF I, J
  <2>4. ASSUME NEW e \in Epoch PROVE Unread(J, b, e, late[b][e])
    BY <2>1, <2>2, UnreadMore
  <2>5. CASE b # c
    BY <1>2, <2>1, <2>2, <2>3, <2>4, <2>5, UnreadMore
  <2>6. CASE b = c
    <3> DEFINE v == Name(c, epoch[c], m.req)
    <3>1. /\ toBrowser[c] \in Seq(Request) /\ m \in Request /\ m.kind = "query"
          /\ Unread(I, c, epoch[c], toBrowser[c]) /\ v \notin I /\ v = u
      BY <1>0, <1>1, <1>4, <2>1, <2>2, <2>6
    <3>2. Unread(I \cup {v}, c, epoch[c], toBrowser[c] \o <<m>>)
      BY <3>1, UnreadSent
    <3> HIDE DEF v
    <3> QED BY <1>2, <2>1, <2>3, <2>4, <2>6, <3>1, <3>2
  <2> QED BY <2>5, <2>6
<1>13. ASSUME NEW b \in Browser PROVE AnswersKept(b)'
  <2>1. Answers(b)' = Answers(b)
    BY <1>2 DEF Answers, Own, Elements
  <2>2. CASE b # c
    BY <1>2, <1>3, <1>5, <2>1, <2>2 DEF AnswersKept, ForGood, AnswerTo
  <2>3. CASE b = c
    <3>1. \A a \in Answers(c) : a.req <= lastReq[c]
      BY <1>0 DEF Linked, IdsKnown
    <3>2. \A a \in Answers(c) : ~ForGood(a, i)
      BY <1>0, <1>1, <3>1 DEF ForGood, AnswerTo
    <3> QED BY <1>2, <1>3, <1>5, <2>1, <2>3, <3>2 DEF AnswersKept, ForGood, AnswerTo
  <2> QED BY <2>2, <2>3
<1> QED BY <1>7, <1>8, <1>9, <1>10, <1>11, <1>12, <1>13 DEF Recorded

(* cefQueryCancel() and the release of a context: at most a cancel is sent.*)
LEMMA WithdrawRecord ==
  ASSUME RecordedInv, NEW c \in Browser,
         \/ (\E f \in Frame : \E r \in Id : CefQueryCancel(c, f, r)) /\ UNCHANGED browserSideVars
         \/ \E f \in Frame : ReleaseContext(c, f)
  PROVE  JsStep /\ HdStep /\ Recorded'
<1>0. LinkedInv /\ Recorded /\ TypeInv /\ TypeOK /\ HistoryKnown
  BY LinkedInvFacts DEF RecordedInv, Recorded
<1>1. /\ UNCHANGED <<proc, epoch, late, lastReq, toRenderer, jsTasks, issued, answered, misled>>
      /\ UNCHANGED <<queries, received, dropped>>
      /\ \A b \in Browser : b # c => toBrowser'[b] = toBrowser[b] /\ requests'[b] = requests[b]
      /\ requests'[c] \subseteq requests[c]
      /\ \/ toBrowser'[c] = toBrowser[c]
         \/ \E x \in Id : \E r \in Id0 : toBrowser'[c] = toBrowser[c] \o <<CancelMsg(x, r)>>
  <2> USE <1>0 DEF TypeOK, TransportTypeOK, RendererSideTypeOK, browserSideVars, CancelUnchanged,
         SendCancel, SendToBrowser
  <2>0. toBrowser[c] \in Seq(Request) /\ toBrowser[c] \o <<>> = toBrowser[c]
    BY ConcatEmptySeq
  <2>1. CASE (\E f \in Frame : \E r \in Id : CefQueryCancel(c, f, r)) /\ UNCHANGED browserSideVars
    <3>1. PICK f \in Frame, r \in Id : CefQueryCancel(c, f, r)
      BY <2>1
    <3>2. ContextId(c, f) \in Id /\ r \in Id0
      BY <3>1 DEF CefQueryCancel, UseContext, Id0
    <3> QED BY <2>0, <2>1, <3>1, <3>2 DEF CefQueryCancel, UseContext
  <2>2. CASE \E f \in Frame : ReleaseContext(c, f)
    <3>1. PICK f \in Frame : ReleaseContext(c, f)
      BY <2>2
    <3> DEFINE x == ctx[c][f]
               P == PendingRequests(c, x, kReservedId)
               last == IF P = {} THEN <<>> ELSE <<CancelMsg(x, kReservedId)>>
    <3>2. x \in Id /\ kReservedId \in Id0
      BY <3>1 DEF ReleaseContext, OnContextReleased, Id0
    <3>3. /\ UNCHANGED <<proc, epoch, late, lastReq, toRenderer, jsTasks, issued, answered, misled>>
          /\ UNCHANGED <<queries, received, dropped>>
          /\ requests' = [requests EXCEPT ![c] = @ \ P]
          /\ toBrowser' = [toBrowser EXCEPT ![c] = @ \o last]
      BY <3>1 DEF ReleaseContext, OnContextReleased
    <3>4. last = <<>> \/ last = <<CancelMsg(x, kReservedId)>>
      OBVIOUS
    <3> HIDE DEF x, P, last
    <3> QED BY <2>0, <3>2, <3>3, <3>4
  <2> QED BY <2>1, <2>2
<1>2. HdStep /\ QueriesReceived' /\ dropped' \subseteq received'
  <2>1. \A q : Kept(q)
    BY <1>1 DEF Kept
  <2> QED BY <1>0, <1>1, <2>1, QueriesStay
<1>3. JsStep /\ \A b \in Browser : RequestsIssued(b)'
  BY <1>0, <1>1, RequestsStay
<1>4. HistoryKnown'
  BY <1>0, <1>1, <1>2, HistoryStays DEF HistoryKnown
<1>5. ASSUME NEW b \in Browser PROVE MessagesFresh(b)'
  <2> DEFINE I == issued \ received
  <2>1. CASE toBrowser'[b] = toBrowser[b]
    BY <1>0, <1>1, <2>1, MessagesStay DEF Recorded
  <2>2. CASE toBrowser'[b] # toBrowser[b]
    <3>1. PICK x \in Id, r \in Id0 : toBrowser'[b] = toBrowser[b] \o <<CancelMsg(x, r)>>
      BY <1>1, <2>2
    <3>2. /\ toBrowser[b] \in Seq(Request) /\ Unread(I, b, epoch[b], toBrowser[b])
          /\ \A e \in Epoch : Unread(I, b, e, late[b][e])
      BY <1>0 DEF Recorded, MessagesFresh, TypeOK, TransportTypeOK
    <3>3. MessagesFresh(b)' <=> /\ Unread(I, b, epoch[b], toBrowser'[b])
                                /\ \A e \in Epoch : Unread(I, b, e, late[b][e])
      BY <1>1 DEF MessagesFresh, Unread, Name
    <3> HIDE DEF I
    <3> QED BY <3>1, <3>2, <3>3, CancelSent
  <2> QED BY <2>1, <2>2
<1>6. ASSUME NEW b \in Browser PROVE AnswersKept(b)'
  <2>1. Answers(b)' = Answers(b) /\ requests'[b] \subseteq requests[b]
    BY <1>1 DEF Answers, Own, Elements
  <2> QED BY <1>0, <1>1, <1>2, <2>1, AnswersStay
<1> QED BY <1>2, <1>3, <1>4, <1>5, <1>6 DEF Recorded

LEMMA ArriveRecord ==
  ASSUME RecordedInv, NEW c \in Browser, ReceiveAnswerStep(c)
  PROVE  JsStep /\ HdStep /\ Recorded'
<1>0. LinkedInv /\ Recorded /\ TypeInv /\ TypeOK /\ HistoryKnown
  BY LinkedInvFacts DEF RecordedInv, Recorded
<1>1. /\ UNCHANGED <<proc, epoch, late, lastReq, requests, toBrowser, issued, answered, misled>>
      /\ UNCHANGED <<queries, received, dropped>>
      /\ \A b \in Browser : b # c => toRenderer'[b] = toRenderer[b] /\ jsTasks'[b] = jsTasks[b]
  BY <1>0 DEF ReceiveAnswerStep, ReceiveAnswer, browserSideVars, TypeOK, TransportTypeOK,
     RendererSideTypeOK
<1>2. HdStep /\ QueriesReceived' /\ dropped' \subseteq received'
  <2>1. \A q : Kept(q)
    BY <1>1 DEF Kept
  <2> QED BY <1>0, <1>1, <2>1, QueriesStay
<1>3. JsStep /\ \A b \in Browser : RequestsIssued(b)'
  BY <1>0, <1>1, RequestsStay
<1>4. HistoryKnown'
  BY <1>0, <1>1, <1>2, HistoryStays DEF HistoryKnown
<1>5. ASSUME NEW b \in Browser PROVE MessagesFresh(b)'
  BY <1>0, <1>1, MessagesStay DEF Recorded
<1>6. ASSUME NEW b \in Browser PROVE AnswersKept(b)'
  <2>1. Answers(b)' = Answers(b)
    <3>1. CASE b = c
      BY <1>0, <3>1, ReceiveAnswerArrives DEF Arrives
    <3>2. CASE b # c
      BY <1>1, <3>2 DEF Answers, Own, Elements
    <3> QED BY <3>1, <3>2
  <2> QED BY <1>0, <1>1, <1>2, <2>1, AnswersStay
<1> QED BY <1>2, <1>3, <1>4, <1>5, <1>6 DEF Recorded

(* An answer is applied: the requests it ends are waited for, and their    *)
(* queries ended if it is an answer of their own process.                  *)
LEMMA ApplyRecord ==
  ASSUME RecordedInv, NEW c \in Browser, ExecuteStep(c)
  PROVE  JsStep /\ HdStep /\ Recorded'
<1> DEFINE a == Head(jsTasks[c])
           Done == {UidOf(c, i.req) : i \in {j \in requests[c] : ForGood(a, j)}}
<1>0. LinkedInv /\ Recorded /\ TypeInv /\ TypeOK /\ SentReceived /\ jsTasks[c] \in Seq(Answer)
  BY LinkedInvFacts DEF RecordedInv
<1>1. proc[c] = "live" /\ Linked(c)
  <2>1. jsTasks[c] # <<>>
    BY DEF ExecuteStep, ExecuteSuccessCallback, ExecuteFailureCallback
  <2> QED BY <1>0, <2>1, LinkedInvFacts DEF LinkedInv, InStep, Idle
<1>2. /\ jsTasks[c] # <<>> /\ jsTasks'[c] = Tail(jsTasks[c])
      /\ requests'[c] = {i \in requests[c] : ~ForGood(a, i)}
  BY <1>0, <1>1, ExecuteApplies DEF Applies
<1>3. /\ UNCHANGED <<proc, epoch, late, lastReq, toBrowser, toRenderer, issued>>
      /\ UNCHANGED <<queries, received, dropped>>
      /\ \A b \in Browser : b # c => requests'[b] = requests[b] /\ jsTasks'[b] = jsTasks[b]
  BY <1>0 DEF ExecuteStep, ExecuteSuccessCallback, ExecuteFailureCallback, EndRequests,
     browserSideVars, transportVars, TypeOK, RendererSideTypeOK
<1>4. IF a.epoch = epoch[c]
      THEN answered \subseteq answered' /\ answered' \subseteq answered \cup Done /\ misled' = misled
      ELSE misled \subseteq misled' /\ misled' \subseteq misled \cup Done /\ answered' = answered
  <2>1. \A i \in GetRequestInfo(c, a) :
           i \in requests[c] /\ (~a.success \/ ~i.persistent => ForGood(a, i))
    BY DEF GetRequestInfo, ForGood, AnswerTo
  <2>2. \A I \in SUBSET {j \in requests[c] : ForGood(a, j)} : Told(c, I) \subseteq Done
    BY DEF Told, RequestUid, UidOf
  <2>3. \E I \in SUBSET {j \in requests[c] : ForGood(a, j)} : EndRequests(c, a, I)
    <3> HIDE DEF a, Done
    <3> QED BY <2>1 DEF ExecuteStep, ExecuteSuccessCallback, ExecuteFailureCallback, a
  <2> HIDE DEF a, Done
  <2> QED BY <2>2, <2>3 DEF EndRequests
<1>5. a \in Elements(jsTasks[c])
  BY <1>0, <1>2, ElementsOfTail
<1>6. /\ HistoryKnown /\ QueriesReceived /\ Name(c, a.epoch, a.req) \in received
      /\ \A b \in Browser : MessagesFresh(b) /\ RequestsIssued(b) /\ AnswersKept(b)
  BY <1>0, <1>5 DEF Recorded, SentReceived, Sent
<1> HIDE DEF a
<1>7. ASSUME NEW i \in requests[c], ForGood(a, i)
      PROVE  LET u == UidOf(c, i.req)
             IN  /\ u \in issued /\ u \notin answered \cup misled /\ Awaits(u)
                 /\ a.epoch = epoch[c] => HdView(u) = "ended"
  <2> DEFINE u == UidOf(c, i.req)
  <2>1. Awaits(u)
    BY DEF Awaits, UidOf
  <2>2. u \in issued /\ u \notin answered \cup misled
    BY <1>6 DEF RequestsIssued
  <2>3. ASSUME a.epoch = epoch[c] PROVE HdView(u) = "ended"
    <3>1. a \in Answers(c)
      BY <1>5, <2>3 DEF Answers, Own
    <3>2. ~HasQuery(u) /\ u \notin dropped
      BY <1>0, <1>1, <1>6, <1>7, <3>1, EndedNotPending DEF AnswersKept
    <3>3. u \in received
      BY <1>6, <1>7, <2>3 DEF ForGood, AnswerTo, UidOf, Name
    <3> HIDE DEF u
    <3> QED BY <3>2, <3>3, HdViews
  <2> QED BY <2>1, <2>2, <2>3
<1>8. HdStep /\ QueriesReceived' /\ dropped' \subseteq received'
  <2>1. \A q : Kept(q)
    BY <1>3 DEF Kept
  <2> QED BY <1>0, <1>3, <2>1, QueriesStay
<1>9. \A b \in Browser : \A x : UidOf(b, x)' = UidOf(b, x)
  BY <1>3 DEF UidOf
<1>10. \A b \in Browser : requests'[b] \subseteq requests[b]
  BY <1>2, <1>3
<1>11. ASSUME NEW r \in Done, a.epoch # epoch[c]
       PROVE  \E s \in Uid \ {r} : s \in received /\ ~Awaits(s)
  <2> DEFINE s == Name(c, a.epoch, a.req)
  <2>1. s \in Uid
    BY <1>0, <1>6, UidTypes
  <2>2. s.browser = c /\ s.epoch # epoch[c] /\ r.epoch = epoch[c]
    BY <1>11 DEF Name, UidOf
  <2> HIDE DEF s, Done
  <2>3. s # r /\ ~Awaits(s)
    BY <2>2 DEF UidOf, Awaits
  <2> USE DEF s
  <2> QED BY <1>6, <2>1, <2>3
<1>12. JsStep
  <2>1. ASSUME NEW r \in Uid, Awaits(r)' PROVE Awaits(r)
    <3>1. r.browser \in Browser
      BY DEF Uid
    <3> QED BY <1>9, <1>10, <2>1, <3>1 DEF Awaits
  <2>2. \A r \in Done : Awaits(r) /\ (a.epoch = epoch[c] => HdView(r) = "ended")
    BY <1>7
  <2> HIDE DEF Done
  <2> QED BY <1>3, <1>4, <1>11, <2>1, <2>2 DEF JsStep
<1>13. ASSUME NEW b \in Browser PROVE RequestsIssued(b)'
  <2>1. ASSUME NEW j \in requests'[b] PROVE UidOf(b, j.req) \notin Done
    <3>1. CASE b # c
      BY <3>1 DEF UidOf
    <3>2. CASE b = c
      <4>1. j \in requests[c] /\ ~ForGood(a, j)
        BY <1>2, <3>2
      <4>2. \A i \in requests[c] : ForGood(a, i) => i.req # j.req
        BY <1>6, <4>1 DEF RequestsIssued
      <4> QED BY <3>2, <4>2 DEF UidOf
    <3> QED BY <3>1, <3>2
  <2> HIDE DEF Done
  <2> QED BY <1>3, <1>4, <1>6, <1>9, <1>10, <2>1 DEF RequestsIssued
<1>14. HistoryKnown'
  <2>1. \A u \in Done : u \in issued /\ u \notin answered \cup misled
    BY <1>7
  <2> HIDE DEF Done
  <2>2. answered' \subseteq issued /\ misled' \subseteq issued /\ answered' \cap misled' = {}
    BY <1>4, <1>6, <2>1 DEF HistoryKnown
  <2> QED BY <1>0, <1>3, <1>8, <2>2, HistoryStays
<1>15. ASSUME NEW b \in Browser PROVE MessagesFresh(b)'
  BY <1>0, <1>3, MessagesStay DEF Recorded
<1>16. ASSUME NEW b \in Browser PROVE AnswersKept(b)'
  <2>1. Elements(jsTasks'[b]) \subseteq Elements(jsTasks[b])
    BY <1>0, <1>2, <1>3, ElementsOfTail
  <2>2. Answers(b)' \subseteq Answers(b)
    <3> DEFINE j == jsTasks'[b]
    <3>1. Elements(jsTasks[b])' = Elements(j)
      BY DEF Elements
    <3> HIDE DEF j
    <3> QED BY <1>3, <2>1, <3>1 DEF Answers, Own, Elements, j
  <2> QED BY <1>0, <1>3, <1>8, <1>10, <2>2, AnswersStay
<1> QED BY <1>8, <1>12, <1>13, <1>14, <1>15, <1>16 DEF Recorded

LEMMA RecordStep ==
  ASSUME RecordedInv, [Next]_vars
  PROVE  RecordedInv' /\ JsStep /\ HdStep
<1>1. JsStep /\ HdStep /\ Recorded'
  <2>1. CASE HandlerStep \/ UiTaskStep
    BY <2>1, HandlersRecord
  <2>2. ASSUME NEW c \in Browser, BrowserStep(c) PROVE JsStep /\ HdStep /\ Recorded'
    <3>1. CASE OnProcessMessageReceived(c) \/ ReceiveLate(c)
      BY <3>1, ReceiveRecord
    <3>2. CASE JavaScriptStep(c)
      BY <3>2, AskRecord, WithdrawRecord DEF JavaScriptStep
    <3>3. CASE MovesProcess(c)
      BY <3>3, ProcessRecord
    <3> QED BY <2>2, <3>1, <3>2, <3>3, WithdrawRecord, ArriveRecord, ApplyRecord
            DEF BrowserStep, MovesProcess
  <2>3. CASE UNCHANGED vars
    <3>0. LinkedInv /\ Recorded
      BY DEF RecordedInv
    <3>1. UNCHANGED <<issued, answered, misled, received, queries, dropped>>
      BY <2>3 DEF vars, browserSideVars, rendererSideVars
    <3>2. ASSUME NEW b \in Browser PROVE ProcessMoves(b)
      <4>1. UNCHANGED <<proc, epoch, toBrowser, late, toRenderer, requests, jsTasks, lastReq>>
        BY <2>3 DEF vars, transportVars, rendererSideVars
      <4>2. MessagesFresh(b)'
        BY <3>0, <3>1, <4>1, MessagesStay, LinkedInvFacts DEF Recorded
      <4>3. Answers(b)' = Answers(b)
        BY <4>1 DEF Answers, Own, Elements
      <4> QED BY <4>1, <4>2, <4>3 DEF ProcessMoves
    <3> QED BY <3>1, <3>2, MoveRecord
  <2> QED BY <2>1, <2>2, <2>3 DEF Next
<1>2. LinkedInv'
  BY LinkedInvStep DEF RecordedInv
<1>3. SentReceived'
  <2>1. TypeInv /\ QueriesReceived /\ SentReceived
    BY LinkedInvFacts DEF RecordedInv, Recorded
  <2>2. received \subseteq received'
    BY <1>1 DEF HdStep
  <2> QED BY <2>1, <2>2, SentStep
<1> QED BY <1>1, <1>2, <1>3 DEF RecordedInv

LEMMA RecordedInit == Init => RecordedInv
<1> SUFFICES ASSUME Init PROVE RecordedInv
  OBVIOUS
<1>1. LinkedInv
  BY LinkedInvInit
<1>2. /\ issued = {} /\ answered = {} /\ misled = {} /\ received = {} /\ dropped = {}
      /\ DOMAIN queries = {}
      /\ \A b \in Browser : /\ toBrowser[b] = <<>> /\ requests[b] = {} /\ queued[b] = <<>>
                            /\ toRenderer[b] = <<>> /\ jsTasks[b] = <<>>
                            /\ \A e \in Epoch : late[b][e] = <<>>
  BY DEF Init, TransportInit, BrowserSideInit, RendererSideInit
<1>3. HistoryKnown /\ QueriesReceived
  BY <1>2 DEF HistoryKnown, QueriesReceived
<1>4. ASSUME NEW b \in Browser PROVE MessagesFresh(b) /\ RequestsIssued(b) /\ AnswersKept(b)
  BY <1>2, NoneUnread DEF MessagesFresh, RequestsIssued, AnswersKept
<1>5. SentReceived
  BY <1>2, ElementsOfOne DEF SentReceived, Sent
<1> QED BY <1>1, <1>3, <1>4, <1>5 DEF RecordedInv, Recorded

LEMMA ContractInit == Init => Contract!Init
<1> SUFFICES ASSUME Init PROVE Contract!Init
  OBVIOUS
<1>1. /\ issued = {} /\ answered = {} /\ misled = {} /\ received = {} /\ dropped = {}
      /\ DOMAIN queries = {}
      /\ \A b \in Browser : requests[b] = {}
  BY DEF Init, TransportInit, BrowserSideInit, RendererSideInit
<1>2. ASSUME NEW r \in Uid PROVE JsView(r) = "unused" /\ HdView(r) = "unseen"
  <2>1. ~Awaits(r) /\ ~HasQuery(r)
    BY <1>1 DEF Awaits, HasQuery, Uid
  <2> QED BY <1>1, <2>1, JsViews, HdViews
<1> QED BY <1>2 DEF Contract!Init

LEMMA ContractStep ==
  ASSUME RecordedInv, RecordedInv', JsStep, HdStep
  PROVE  Contract!Next
<1> DEFINE J == [r \in Uid |-> JsView(r)]
           H == [r \in Uid |-> HdView(r)]
<1>1. TypeInv /\ TypeInv' /\ Recorded /\ Recorded'
  BY DEF RecordedInv, LinkedInv
<1>2. ASSUME NEW r \in Uid
      PROVE  /\ JsView(r)' \in {"unused", "waiting", "told", "misled", "gone"}
             /\ HdView(r)' \in {"unseen", "pending", "ended", "dropped"}
  BY DEF JsView, HdView
<1>3. \A r \in Uid :
         \/ JsView(r)' = JsView(r)
         \/ JsView(r) = "unused" /\ JsView(r)' = "waiting"
         \/ JsView(r) = "waiting" /\ JsView(r)' = "gone"
         \/ JsView(r) = "waiting" /\ HdView(r) = "ended" /\ JsView(r)' = "told"
         \/ /\ JsView(r) = "waiting" /\ JsView(r)' = "misled"
            /\ \E s \in Uid \ {r} : JsView(s) \notin {"unused", "waiting"} /\ HdView(s) # "unseen"
  BY <1>1, JsMoves
<1>4. \A r \in Uid :
         \/ HdView(r)' = HdView(r)
         \/ HdView(r) = "unseen" /\ JsView(r) # "unused" /\ HdView(r)' \in {"pending", "ended"}
         \/ HdView(r) = "pending" /\ HdView(r)' \in {"ended", "dropped"}
  BY <1>1, HdMoves
<1>5. /\ J' \in [Uid -> Contract!JsState]
      /\ H' \in [Uid -> Contract!HdState]
  BY <1>2 DEF Contract!JsState, Contract!HdState
<1>6. \A s \in Uid : Contract!MayMislead(s) <=> JsView(s) \notin {"unused", "waiting"} /\ HdView(s) # "unseen"
  BY DEF Contract!MayMislead
<1>7. \A r \in Uid : Contract!JsMove(r)
  BY <1>3, <1>6 DEF Contract!JsMove
<1>8. \A r \in Uid : Contract!HdMove(r)
  BY <1>4 DEF Contract!HdMove
<1> QED BY <1>5, <1>7, <1>8 DEF Contract!Next

(* The router keeps the contract of a query, whatever the handlers do,     *)
(* whichever threads they do it on and whenever processes and browsers     *)
(* end or a page moves to another process: a query is offered to the       *)
(* handlers at most once and comes to one end, and JavaScript is told the  *)
(* final answer at most once, and never of a query that is pending or was  *)
(* dropped; if it is told another's, then of a query that was received.    *)
THEOREM RouterKeepsContract == Spec => KeepsContract
<1> SUFFICES Spec => Contract!Spec
  BY DEF KeepsContract
<1>1. RecordedInv /\ [Next]_vars => RecordedInv' /\ Contract!Next
  BY RecordStep, ContractStep
<1> QED BY <1>1, RecordedInit, ContractInit, PTL DEF Spec, Contract!Spec
=============================================================================
