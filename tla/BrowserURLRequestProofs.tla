------------------------ MODULE BrowserURLRequestProofs ------------------------
(***************************************************************************)
(* How often a URL request completes, for responses of any length, and that*)
(* what its client sees keeps the contract of a CefURLRequest.             *)
(*                                                                         *)
(* The first invariant, IInv, counts the completions and what is still to  *)
(* cause one.  The second, JInv, rests on it: it follows the data on its   *)
(* way through the writer, the stop of the fetcher, and the notices of the *)
(* upload, each of which the contract lets come once.                      *)
(***************************************************************************)
EXTENDS BrowserURLRequest, TLAPS

(* The two tasks that lead to the completion of a fetch that ended.        *)
Ends == {"Fetched", "OnComplete"}
NoEnd(s) == \A x \in Ends : ~Has(s, x)
OneEnd(s) == \A i, j \in DOMAIN s : s[i] \in Ends /\ s[j] \in Ends => i = j

Ended == fetch.state \in {"success", "failed", "stopped"}

(* OnComplete is still to report what it was posted for.                   *)
Reporting == Has(tasks, "OnComplete") \/ Has(callbacks, "UploadInComplete")

(* Only OnRequestComplete is called from inside another callback, and only *)
(* by a Cancel, which deleted the fetcher.                                 *)
Nesting ==
  \/ callbacks = <<>>
  \/ \E c \in Callback : callbacks = <<c>>
  \/ \E c \in Callback : callbacks = <<"RequestComplete", c>> /\ fetcher = "deleted"

(* A fetch ends once.                                                      *)
EndsOnce ==
  /\ OneEnd(tasks)
  /\ ~NoEnd(tasks) => Ended
  /\ Has(callbacks, "UploadInComplete") => NoEnd(tasks) /\ Ended

(* What the fetcher's life says about the completions.                     *)
NotStarted ==
  /\ tasks = IF getting THEN <<>> ELSE <<"Continue">>
  /\ callbacks = <<>> /\ completions = <<>> /\ ~raced
  /\ fetch.state = "idle" /\ ioTasks = <<>>

Fetching ==
  /\ ~raced
  /\ \/ completions = <<>> /\ ~Has(callbacks, "RequestComplete")
     \/ Len(completions) = 1 /\ callbacks = <<"RequestComplete">> /\ NoEnd(tasks) /\ Ended

Deleted ==
  Len(completions) + (IF Reporting THEN 1 ELSE 0) <= IF raced THEN 2 ELSE 1

Phases ==
  /\ fetcher = "none" => NotStarted
  /\ fetcher # "none" => ~getting /\ ~Has(tasks, "Continue")
  /\ fetcher = "live" => Fetching
  /\ fetcher = "deleted" => Deleted

IInv == TypeOK /\ Nesting /\ EndsOnce /\ Phases

-----------------------------------------------------------------------------
(* Sequences seen as the set of their elements.                            *)
LEMMA HasAppend ==
  ASSUME NEW S, NEW s \in Seq(S), NEW x \in S
  PROVE  \A y : Has(Append(s, x), y) <=> Has(s, y) \/ x = y
<1> DEFINE t == Append(s, x)
<1>1. /\ DOMAIN t = 1 .. Len(s) + 1 /\ t[Len(s) + 1] = x
      /\ \A i \in 1 .. Len(s) : t[i] = s[i]
      /\ DOMAIN s = 1 .. Len(s) /\ Len(s) \in Nat
  OBVIOUS
<1> HIDE DEF t
<1>2. \A i \in 1 .. Len(s) + 1 : i \in 1 .. Len(s) \/ i = Len(s) + 1
  BY <1>1
<1>3. 1 .. Len(s) \subseteq 1 .. Len(s) + 1 /\ Len(s) + 1 \in 1 .. Len(s) + 1
  BY <1>1
<1>4. \A y : Has(t, y) <=> Has(s, y) \/ x = y
  BY <1>1, <1>2, <1>3, Zenon DEF Has
<1> QED BY <1>4 DEF t

LEMMA HasTail ==
  ASSUME NEW S, NEW s \in Seq(S), s # <<>>
  PROVE  \A y : Has(s, y) <=> Head(s) = y \/ Has(Tail(s), y)
<1> DEFINE t == Tail(s)
<1>1. /\ DOMAIN t = 1 .. Len(s) - 1 /\ DOMAIN s = 1 .. Len(s)
      /\ \A i \in 1 .. Len(s) - 1 : t[i] = s[i + 1]
      /\ Head(s) = s[1] /\ Len(s) \in Nat /\ Len(s) >= 1
  OBVIOUS
<1> HIDE DEF t
<1>2. \A i \in 1 .. Len(s) : i = 1 \/ (i - 1 \in 1 .. Len(s) - 1 /\ t[i - 1] = s[i])
  BY <1>1
<1>3. \A i \in 1 .. Len(s) - 1 : i + 1 \in 1 .. Len(s)
  BY <1>1
<1>4. 1 \in 1 .. Len(s)
  BY <1>1
<1>5. \A y : Has(s, y) <=> Head(s) = y \/ Has(t, y)
  BY <1>1, <1>2, <1>3, <1>4, Zenon DEF Has
<1> QED BY <1>5 DEF t

LEMMA HasFew ==
  /\ \A y : ~Has(<<>>, y)
  /\ \A x, y : Has(<<x>>, y) <=> x = y
  /\ \A w, x, y : Has(<<w, x>>, y) <=> w = y \/ x = y
BY DEF Has

(* The innermost callback, and what it returns to.                         *)
LEMMA Innermost ==
  ASSUME Nesting, callbacks # <<>>
  PROVE  \/ \E c \in Callback : /\ callbacks = <<c>>
                                /\ Head(callbacks) = c /\ Tail(callbacks) = <<>>
         \/ \E c \in Callback : /\ callbacks = <<"RequestComplete", c>> /\ fetcher = "deleted"
                                /\ Head(callbacks) = "RequestComplete"
                                /\ Tail(callbacks) = <<c>>
<1>1. ASSUME NEW c \in Callback, callbacks = <<c>>
      PROVE  Head(callbacks) = c /\ Tail(callbacks) = <<>>
  BY <1>1
<1>2. ASSUME NEW c \in Callback, callbacks = <<"RequestComplete", c>>
      PROVE  Head(callbacks) = "RequestComplete" /\ Tail(callbacks) = <<c>>
  BY <1>2
<1> QED BY <1>1, <1>2, Zenon DEF Nesting

(* OnRequestComplete pushed on a stack of at most one callback, which it   *)
(* leaves below it.                                                        *)
LEMMA StackTypes ==
  ASSUME NEW s, \/ s = <<>>
                \/ \E c \in Callback : s = <<c>>
                \/ \E c \in Callback : s = <<"RequestComplete", c>>
  PROVE  s \in Seq(Callback) /\ Len(s) <= 2
<1>1. ASSUME NEW c \in Callback, s = <<c>>
      PROVE  s \in Seq(Callback) /\ Len(s) <= 2
  BY <1>1
<1>2. ASSUME NEW c \in Callback, s = <<"RequestComplete", c>>
      PROVE  s \in Seq(Callback) /\ Len(s) <= 2
  <2>1. "RequestComplete" \in Callback
    BY DEF Callback
  <2> QED BY <1>2, <2>1
<1>3. CASE s = <<>>
  BY <1>3
<1> QED BY <1>1, <1>2, <1>3

LEMMA Pushed ==
  ASSUME NEW c \in Callback
  PROVE  <<"RequestComplete">> \o <<c>> = <<"RequestComplete", c>>
<1> DEFINE s == <<"RequestComplete">> \o <<c>>
           t == <<"RequestComplete", c>>
<1>1. "RequestComplete" \in Callback
  BY DEF Callback
<1>2. s \in Seq(Callback) /\ Len(s) = 2 /\ s[1] = "RequestComplete" /\ s[2] = c
  BY <1>1
<1>3. t \in Seq(Callback) /\ Len(t) = 2 /\ t[1] = "RequestComplete" /\ t[2] = c
  BY <1>1
<1> HIDE DEF s, t
<1>4. \A i \in 1 .. 2 : s[i] = t[i]
  BY <1>2, <1>3
<1>5. s = t
  BY <1>2, <1>3, <1>4
<1> QED BY <1>5 DEF s, t

(* Adding a task, and taking the first one, keep the end of a fetch unique.*)
LEMMA OneEndAppend ==
  ASSUME NEW s \in Seq(Task), NEW x \in Task, OneEnd(s), x \notin Ends \/ NoEnd(s)
  PROVE  OneEnd(Append(s, x))
BY DEF OneEnd, NoEnd, Has

LEMMA OneEndTail ==
  ASSUME NEW s \in Seq(Task), s # <<>>, OneEnd(s)
  PROVE  OneEnd(Tail(s)) /\ (Head(s) \in Ends => NoEnd(Tail(s)))
BY DEF OneEnd, NoEnd, Has

-----------------------------------------------------------------------------
(* A task taken from the queue.                                            *)
LEMMA TakeStep ==
  ASSUME TypeOK, EndsOnce, NEW t, Take(t)
  PROVE  /\ Tail(tasks) \in Seq(Task) /\ OneEnd(Tail(tasks))
         /\ \A x : Has(tasks, x) <=> x = t \/ Has(Tail(tasks), x)
         /\ t \in Ends => NoEnd(Tail(tasks)) /\ Ended
<1>1. tasks \in Seq(Task) /\ tasks # <<>> /\ Head(tasks) = t
  BY DEF TypeOK, Take
<1>2. \A x : Has(tasks, x) <=> Head(tasks) = x \/ Has(Tail(tasks), x)
  BY <1>1, HasTail
<1>3. OneEnd(Tail(tasks)) /\ (t \in Ends => NoEnd(Tail(tasks)))
  BY <1>1, OneEndTail DEF EndsOnce
<1>4. Tail(tasks) \in Seq(Task)
  BY <1>1
<1> QED BY <1>1, <1>2, <1>3, <1>4 DEF EndsOnce, NoEnd

LEMMA CallAlone ==
  ASSUME NEW c, Call(c, <<>>)
  PROVE  callbacks' = <<c>>
BY DEF Call

LEMMA CompletionsGrow ==
  ASSUME TypeOK, NEW st \in Status, NEW below, Report(st, below)
  PROVE  /\ completions' \in Seq([status : Status, named : BOOLEAN])
         /\ Len(completions') = Len(completions) + 1
         /\ Len(completions) \in Nat
         /\ status' = st /\ Call("RequestComplete", below)
<1>1. [status |-> st, named |-> url_request] \in [status : Status, named : BOOLEAN]
  BY Zenon DEF TypeOK
<1> QED BY <1>1 DEF TypeOK, Report

(* The client is called from a task while nothing else calls it; the rest  *)
(* of the tasks waits.                                                     *)
LEMMA TaskCallTypes ==
  ASSUME TypeOK, NEW c \in Callback, callbacks' = <<c>>
  PROVE  callbacks' \in Seq(Callback) /\ Len(callbacks') <= 2
OBVIOUS

(* The steps in which OnComplete is run by its task.                       *)
LEMMA OnCompleteStep ==
  ASSUME IInv, OnComplete
  PROVE  IInv'
<1> DEFINE rest == Tail(tasks)
<1>1. /\ rest \in Seq(Task) /\ OneEnd(rest) /\ NoEnd(rest) /\ Ended
      /\ Has(tasks, "OnComplete") /\ callbacks = <<>>
      /\ \A x : Has(rest, x) => Has(tasks, x)
  BY TakeStep DEF IInv, OnComplete, Take, Ends
<1>2. /\ tasks' = rest /\ UNCHANGED <<request, getting, fetcher, url_request, fetch, ioTasks,
                                      got_upload_progress_complete, raced>>
  BY DEF OnComplete, Take, netVars
<1> HIDE DEF rest
<1>3. fetcher # "none"
  BY <1>1, HasFew DEF IInv, Phases, NotStarted
<1>4. CASE /\ fetcher = "live" /\ Call("UploadInComplete", <<>>)
           /\ told' = [told EXCEPT !.stoodIn = @ + 1]
           /\ UNCHANGED <<status, response, completions>>
  <2>1. callbacks' = <<"UploadInComplete">>
    BY <1>4, CallAlone
  <2>2. \A x : Has(callbacks', x) <=> x = "UploadInComplete"
    BY <2>1, HasFew
  <2>3. completions = <<>>
    BY <1>1, <1>4 DEF IInv, Phases, Fetching
  <2>4. TypeOK'
    BY <1>1, <1>2, <1>4, <2>1 DEF IInv, TypeOK, Callback
  <2>5. Nesting' /\ EndsOnce'
    BY <1>1, <1>2, <1>4, <2>1, <2>2 DEF Nesting, EndsOnce, Callback, Ended
  <2>6. Phases'
    BY <1>1, <1>2, <1>3, <1>4, <2>2, <2>3 DEF IInv, Phases, Fetching
  <2> QED BY <2>4, <2>5, <2>6 DEF IInv
<1>5. ASSUME NEW st \in Status, Report(st, <<>>), UNCHANGED told, response' \in BOOLEAN
      PROVE  IInv'
  <2>1. callbacks' = <<"RequestComplete">>
    BY <1>5, CallAlone DEF Report
  <2>2. /\ completions' \in Seq([status : Status, named : BOOLEAN])
        /\ Len(completions') = Len(completions) + 1 /\ Len(completions) \in Nat /\ status' = st
    BY <1>5, CompletionsGrow DEF IInv
  <2>3. \A x : Has(callbacks', x) <=> x = "RequestComplete"
    BY <2>1, HasFew
  <2>4. TypeOK'
    BY <1>1, <1>2, <1>5, <2>1, <2>2 DEF IInv, TypeOK, Callback
  <2>5. Nesting' /\ EndsOnce'
    BY <1>1, <1>2, <2>1, <2>3 DEF Nesting, EndsOnce, Callback, Ended
  <2>6. CASE fetcher = "live"
    <3>1. completions = <<>> /\ ~raced
      BY <1>1, <2>6 DEF IInv, Phases, Fetching
    <3> QED BY <1>1, <1>2, <2>1, <2>2, <2>4, <2>5, <2>6, <3>1 DEF IInv, Phases, Fetching, Ended, NoEnd
  <2>7. CASE fetcher = "deleted"
    <3>1. ~Reporting'
      BY <1>1, <1>2, <2>3 DEF Reporting, NoEnd, Ends
    <3>2. Len(completions) + 1 <= IF raced THEN 2 ELSE 1
      BY <1>1, <2>7 DEF IInv, Phases, Deleted, Reporting
    <3>3. Deleted'
      BY <1>2, <2>2, <3>1, <3>2 DEF Deleted
    <3> QED BY <1>1, <1>2, <2>4, <2>5, <2>7, <3>3 DEF IInv, Phases
  <2> QED BY <1>3, <2>6, <2>7 DEF IInv, TypeOK
<1>6. status \in Status /\ \A x : Fetched(x) \in Status
  BY DEF IInv, TypeOK, Fetched, Status
<1>7. response \in BOOLEAN
  BY DEF IInv, TypeOK
<1> QED BY <1>4, <1>5, <1>6, <1>7 DEF OnComplete

(* ... and goes on when OnUploadProgress returns.                          *)
LEMMA CompleteAfterUploadStep ==
  ASSUME IInv, CompleteAfterUpload
  PROVE  IInv'
<1>1. callbacks = <<"UploadInComplete">> /\ Tail(callbacks) = <<>>
  <2>1. callbacks # <<>> /\ Head(callbacks) = "UploadInComplete" /\ Nesting
    BY DEF CompleteAfterUpload, IInv
  <2> QED BY <2>1, Innermost
<1>2. /\ Has(callbacks, "UploadInComplete") /\ ~Has(callbacks, "RequestComplete")
      /\ callbacks # <<"RequestComplete">>
  BY <1>1, HasFew
<1>3. PICK st \in Status : Report(st, <<>>)
  BY <1>1 DEF CompleteAfterUpload, Fetched, Status
<1>4. /\ callbacks' = <<"RequestComplete">>
      /\ completions' \in Seq([status : Status, named : BOOLEAN])
      /\ Len(completions') = Len(completions) + 1 /\ Len(completions) \in Nat /\ status' = st
  BY <1>3, CallAlone, CompletionsGrow DEF IInv, Report
<1>5. /\ UNCHANGED <<request, getting, tasks, fetcher, url_request, fetch, ioTasks, told,
                     raced>>
      /\ got_upload_progress_complete' = TRUE
  BY DEF CompleteAfterUpload, netVars
<1>6. response' \in BOOLEAN
  BY DEF CompleteAfterUpload, IInv, TypeOK
<1>7. \A x : Has(callbacks', x) <=> x = "RequestComplete"
  BY <1>4, HasFew
<1>8. TypeOK'
  <2>1. got_upload_progress_complete' \in BOOLEAN
    BY <1>5
  <2> QED BY <1>4, <1>5, <1>6, <2>1 DEF IInv, TypeOK, Callback
<1>9. Nesting' /\ EndsOnce' /\ NoEnd(tasks) /\ Ended
  BY <1>2, <1>4, <1>5, <1>7 DEF IInv, Nesting, EndsOnce, Callback, Ended
<1>10. Phases'
  <2>1. CASE fetcher = "live"
    <3>1. completions = <<>> /\ ~raced
      BY <1>2, <2>1 DEF IInv, Phases, Fetching
    <3> QED BY <1>4, <1>5, <1>9, <2>1, <3>1 DEF IInv, Phases, Fetching, Ended
  <2>2. CASE fetcher = "deleted"
    <3>1. ~Reporting'
      BY <1>5, <1>7, <1>9 DEF Reporting, NoEnd, Ends
    <3>2. Len(completions) + 1 <= IF raced THEN 2 ELSE 1
      BY <1>2, <2>2 DEF IInv, Phases, Deleted, Reporting
    <3>3. Deleted'
      BY <1>4, <1>5, <3>1, <3>2 DEF Deleted
    <3> QED BY <1>5, <2>2, <3>3 DEF IInv, Phases
  <2>3. fetcher # "none"
    BY <1>1 DEF IInv, Phases, NotStarted
  <2> QED BY <2>1, <2>2, <2>3 DEF IInv, TypeOK
<1> QED BY <1>8, <1>9, <1>10 DEF IInv

(* OnComplete ends: whatever it was called from goes on.                   *)
LEMMA CompletedStep ==
  ASSUME IInv, Completed
  PROVE  IInv'
<1>1. /\ UNCHANGED <<request, getting, tasks, status, response, fetch, completions, told,
                     got_upload_progress_complete, raced>>
      /\ url_request' = FALSE /\ DeleteFetcher /\ callbacks' = Tail(callbacks)
      /\ callbacks # <<>> /\ Head(callbacks) = "RequestComplete"
  BY DEF Completed, history
<1>2. fetcher # "none" /\ fetcher' = "deleted"
  BY <1>1 DEF DeleteFetcher, IInv, TypeOK, Phases, NotStarted
<1>3. \/ callbacks = <<"RequestComplete">> /\ callbacks' = <<>>
      \/ \E c \in Callback : /\ callbacks = <<"RequestComplete", c>> /\ callbacks' = <<c>>
                             /\ fetcher = "deleted"
  <2>1. Nesting
    BY DEF IInv
  <2> QED BY <1>1, <2>1, Innermost, Zenon
<1>4. /\ Has(callbacks', "UploadInComplete") <=> Has(callbacks, "UploadInComplete")
      /\ callbacks' \in Seq(Callback) /\ Len(callbacks') <= 2
  <2>1. callbacks' \in Seq(Callback) /\ Len(callbacks') <= 2
    BY <1>3, StackTypes, Zenon
  <2>2. CASE callbacks = <<"RequestComplete">> /\ callbacks' = <<>>
    BY <2>1, <2>2, HasFew
  <2>3. ASSUME NEW c \in Callback, callbacks = <<"RequestComplete", c>>, callbacks' = <<c>>
        PROVE  Has(callbacks', "UploadInComplete") <=> Has(callbacks, "UploadInComplete")
    BY <2>3, HasFew
  <2> QED BY <1>3, <2>1, <2>2, <2>3
<1>5. ioTasks' \in Seq({"Continue", "Stop"})
  BY <1>1 DEF DeleteFetcher, IInv, TypeOK
<1>6. TypeOK'
  <2>1. url_request' \in BOOLEAN
    BY <1>1
  <2> QED BY <1>1, <1>2, <1>4, <1>5, <2>1 DEF IInv, TypeOK
<1>7. Nesting' /\ EndsOnce'
  BY <1>1, <1>2, <1>3, <1>4 DEF IInv, Nesting, EndsOnce, Ended
<1>8. Deleted'
  <2>1. CASE fetcher = "live"
    <3>1. callbacks = <<"RequestComplete">> /\ callbacks' = <<>>
      BY <1>3, <2>1
    <3>2. Has(callbacks, "RequestComplete")
      BY <3>1, HasFew
    <3>3. Len(completions) = 1 /\ NoEnd(tasks)
      BY <2>1, <3>2 DEF IInv, Phases, Fetching
    <3>4. ~Reporting'
      BY <1>1, <3>1, <3>3, HasFew DEF Reporting, NoEnd, Ends
    <3> QED BY <1>1, <3>3, <3>4 DEF Deleted
  <2>2. CASE fetcher = "deleted"
    <3>1. Reporting' <=> Reporting
      BY <1>1, <1>4 DEF Reporting
    <3> QED BY <1>1, <2>2, <3>1 DEF IInv, Phases, Deleted
  <2> QED BY <1>2, <2>1, <2>2 DEF IInv, TypeOK
<1>9. Phases'
  BY <1>1, <1>2, <1>8 DEF IInv, Phases
<1> QED BY <1>6, <1>7, <1>9 DEF IInv

(* The client cancels.                                                     *)
LEMMA CancelStep ==
  ASSUME IInv, Cancel
  PROVE  IInv'
<1>1. UNCHANGED <<request, getting, tasks, url_request, response, fetch,
                  got_upload_progress_complete, told>>
  BY DEF Cancel, contextVars, netVars, IInv, TypeOK
<1>2. CASE fetcher = "live"
  <2>1. /\ fetcher' = "deleted" /\ ioTasks' = Append(ioTasks, "Stop")
        /\ Report("UR_CANCELED", callbacks) /\ raced' = (raced \/ Completing)
    BY <1>2 DEF Cancel, StopFetch, DeleteFetcher, ReportCanceled
  <2>2. /\ completions' \in Seq([status : Status, named : BOOLEAN])
        /\ Len(completions') = Len(completions) + 1 /\ Len(completions) \in Nat
        /\ status' = "UR_CANCELED" /\ callbacks' = <<"RequestComplete">> \o callbacks
    BY <2>1, CompletionsGrow DEF IInv, Status, Call
  <2>3. \/ callbacks = <<>> /\ callbacks' = <<"RequestComplete">>
        \/ \E c \in Callback : callbacks = <<c>> /\ callbacks' = <<"RequestComplete", c>>
    <3>1. <<"RequestComplete">> \o <<>> = <<"RequestComplete">>
      OBVIOUS
    <3>2. fetcher # "deleted"
      BY <1>2
    <3> QED BY <2>2, <3>1, <3>2, Pushed, Zenon DEF IInv, Nesting
  <2>4. /\ Has(callbacks', "UploadInComplete") <=> Has(callbacks, "UploadInComplete")
        /\ callbacks' \in Seq(Callback) /\ Len(callbacks') <= 2
    <3>1. callbacks' \in Seq(Callback) /\ Len(callbacks') <= 2
      <4>1. "RequestComplete" \in Callback
        BY DEF Callback
      <4> QED BY <2>3, <4>1, StackTypes, Zenon
    <3>2. CASE callbacks = <<>> /\ callbacks' = <<"RequestComplete">>
      BY <3>1, <3>2, HasFew
    <3>3. ASSUME NEW c \in Callback, callbacks = <<c>>, callbacks' = <<"RequestComplete", c>>
          PROVE  Has(callbacks', "UploadInComplete") <=> Has(callbacks, "UploadInComplete")
      BY <3>3, HasFew
    <3> QED BY <2>3, <3>1, <3>2, <3>3
  <2>5. TypeOK'
    <3>1. raced' \in BOOLEAN /\ ioTasks' \in Seq({"Continue", "Stop"})
      BY <2>1 DEF IInv, TypeOK
    <3> QED BY <1>1, <2>1, <2>2, <2>4, <3>1 DEF IInv, TypeOK, Status
  <2>6. Nesting' /\ EndsOnce'
    <3>1. Nesting'
      BY <2>1, <2>3 DEF Nesting, Callback
    <3> QED BY <1>1, <2>4, <3>1 DEF IInv, EndsOnce, Ended
  <2>7. Reporting' <=> Reporting
    BY <1>1, <2>4 DEF Reporting
  <2>8. Deleted'
    <3>1. CASE completions = <<>> /\ ~Has(callbacks, "RequestComplete")
      <4>1. Reporting => raced'
        BY <2>1 DEF Reporting, Completing
      <4> QED BY <2>2, <2>7, <3>1, <4>1 DEF Deleted
    <3>2. CASE Len(completions) = 1 /\ callbacks = <<"RequestComplete">> /\ NoEnd(tasks)
      <4>1. Has(callbacks, "RequestComplete") /\ ~Reporting
        BY <3>2, HasFew DEF Reporting, NoEnd, Ends
      <4>2. raced'
        BY <2>1, <4>1 DEF Completing
      <4> QED BY <2>2, <2>7, <3>2, <4>1, <4>2 DEF Deleted
    <3> QED BY <1>2, <3>1, <3>2 DEF IInv, Phases, Fetching
  <2>9. Phases'
    BY <1>1, <1>2, <2>1, <2>8 DEF IInv, Phases
  <2> QED BY <2>5, <2>6, <2>9 DEF IInv
<1>3. CASE fetcher # "live"
  <2>1. UNCHANGED <<callbacks, fetcher, contextVars, netVars, completions, told, raced>>
    BY <1>3 DEF Cancel
  <2> QED
    BY <1>1, <2>1
    DEF IInv, TypeOK, Nesting, EndsOnce, Phases, NotStarted, Fetching, Deleted, Reporting, Ended,
        contextVars, netVars
<1> QED BY <1>2, <1>3

-----------------------------------------------------------------------------
(* A task that has nothing to do with the end of the fetch.                *)
LEMMA NoticeStep ==
  ASSUME IInv, NEW t, Take(t), t \notin Ends, t # "Continue",
         tasks' = Tail(tasks),
         callbacks' = <<>> \/ \E c \in {"UploadInDownload", "Progress", "DownloadData"} :
                                callbacks' = <<c>>,
         UNCHANGED <<fetcher, fetch, completions, raced>>
  PROVE  Nesting' /\ EndsOnce' /\ Phases'
<1>1. /\ OneEnd(tasks') /\ callbacks = <<>> /\ UNCHANGED getting
      /\ \A x : Has(tasks, x) <=> x = t \/ Has(tasks', x)
  BY TakeStep DEF IInv, Take
<1>2. /\ Has(tasks', "OnComplete") <=> Has(tasks, "OnComplete")
      /\ Has(tasks', "Continue") <=> Has(tasks, "Continue")
      /\ NoEnd(tasks') <=> NoEnd(tasks)
  BY <1>1 DEF NoEnd, Ends
<1>3. ~Has(callbacks', "UploadInComplete") /\ ~Has(callbacks', "RequestComplete")
  <2>1. ASSUME NEW c \in {"UploadInDownload", "Progress", "DownloadData"}, callbacks' = <<c>>
        PROVE  ~Has(callbacks', "UploadInComplete") /\ ~Has(callbacks', "RequestComplete")
    BY <2>1, HasFew
  <2> QED BY <2>1, HasFew
<1>4. ~Has(callbacks, "UploadInComplete")
  BY <1>1, HasFew
<1>5. Nesting'
  BY DEF Nesting, Callback
<1>6. EndsOnce'
  BY <1>1, <1>2, <1>3 DEF IInv, EndsOnce, Ended
<1>7. fetcher # "none"
  BY HasFew DEF IInv, Phases, NotStarted, Take
<1>8. Reporting' <=> Reporting
  BY <1>2, <1>3, <1>4 DEF Reporting
<1>9. fetcher = "live" => Fetching'
  <2>1. SUFFICES ASSUME fetcher = "live" PROVE Fetching'
    OBVIOUS
  <2>2. completions = <<>> /\ ~raced
    BY <1>1, <2>1 DEF IInv, Phases, Fetching
  <2> QED BY <1>3, <2>2 DEF Fetching
<1> QED BY <1>1, <1>2, <1>5, <1>6, <1>7, <1>8, <1>9 DEF IInv, Phases, Deleted

(* A callback returns that has nothing to do with the completion.          *)
LEMMA ReturnStep ==
  ASSUME IInv, callbacks # <<>>,
         Head(callbacks) \in {"UploadInDownload", "Progress", "DownloadData"},
         callbacks' = <<>> \/ callbacks' = <<"Progress">>,
         UNCHANGED <<getting, tasks, fetcher, fetch, completions, raced>>
  PROVE  Tail(callbacks) = <<>> /\ Nesting' /\ EndsOnce' /\ Phases'
<1>1. PICK c \in {"UploadInDownload", "Progress", "DownloadData"} :
        callbacks = <<c>> /\ Tail(callbacks) = <<>>
  BY Innermost DEF IInv
<1>2. /\ ~Has(callbacks, "UploadInComplete") /\ ~Has(callbacks, "RequestComplete")
      /\ ~Has(callbacks', "UploadInComplete") /\ ~Has(callbacks', "RequestComplete")
  BY <1>1, HasFew
<1>3. Nesting'
  BY DEF Nesting, Callback
<1>4. EndsOnce'
  BY <1>2 DEF IInv, EndsOnce, Ended
<1>5. fetcher # "none"
  BY DEF IInv, Phases, NotStarted
<1>6. Reporting' <=> Reporting
  BY <1>2 DEF Reporting
<1>7. fetcher = "live" => Fetching'
  <2>1. SUFFICES ASSUME fetcher = "live" PROVE Fetching'
    OBVIOUS
  <2>2. callbacks # <<"RequestComplete">>
    BY <1>2, HasFew
  <2>3. completions = <<>> /\ ~raced
    BY <2>1, <2>2 DEF IInv, Phases, Fetching
  <2> QED BY <1>2, <2>3 DEF Fetching
<1> QED BY <1>1, <1>3, <1>4, <1>5, <1>6, <1>7 DEF IInv, Phases, Deleted

(* A step of the fetch, which may post tasks but not end one twice.        *)
LEMMA NetStep ==
  ASSUME IInv, fetcher # "none", FetchStep,
         OneEnd(tasks'), ~NoEnd(tasks') => Ended',
         Ended => Ended' /\ (NoEnd(tasks) => NoEnd(tasks')),
         Has(tasks', "OnComplete") <=> Has(tasks, "OnComplete"),
         Has(tasks', "Continue") <=> Has(tasks, "Continue")
  PROVE  Nesting' /\ EndsOnce' /\ Phases'
<1>1. UNCHANGED <<request, getting, callbacks, fetcher, completions, raced>>
  BY DEF FetchStep, history
<1>2. Nesting'
  BY <1>1 DEF IInv, Nesting
<1>3. EndsOnce'
  BY <1>1 DEF IInv, EndsOnce
<1>4. Reporting' <=> Reporting
  BY <1>1 DEF Reporting
<1>5. fetcher = "live" => Fetching'
  BY <1>1 DEF IInv, Phases, Fetching
<1> QED BY <1>1, <1>2, <1>3, <1>4, <1>5 DEF IInv, Phases, Deleted

-----------------------------------------------------------------------------
(* The first two tasks.                                                    *)
LEMMA GetRequestContextStep ==
  ASSUME IInv, GetRequestContextOnUIThread
  PROVE  IInv'
<1>1. /\ getting = TRUE /\ getting' = FALSE /\ tasks' = Append(tasks, "Continue")
      /\ UNCHANGED <<request, callbacks, fetcher, url_request, status, response, fetch, ioTasks,
                     got_upload_progress_complete, completions, told, raced>>
  BY DEF GetRequestContextOnUIThread, contextVars, netVars, history, IInv, TypeOK
<1>2. fetcher = "none" /\ tasks = <<>>
  BY <1>1 DEF IInv, Phases, NotStarted
<1>3. tasks' \in Seq(Task) /\ tasks' = <<"Continue">>
  <2>1. "Continue" \in Task
    BY DEF Task
  <2> QED BY <1>1, <1>2, <2>1
<1>4. TypeOK'
  BY <1>1, <1>3 DEF IInv, TypeOK
<1>5. NoEnd(tasks')
  BY <1>3, HasFew DEF NoEnd, Ends
<1>6. OneEnd(tasks')
  BY <1>3 DEF OneEnd
<1>7. Nesting' /\ EndsOnce'
  BY <1>1, <1>2, <1>5, <1>6, HasFew DEF IInv, Nesting, EndsOnce, Phases, NotStarted
<1>8. Phases'
  BY <1>1, <1>2, <1>3 DEF IInv, Phases, NotStarted
<1> QED BY <1>4, <1>7, <1>8 DEF IInv

LEMMA ContinueStep ==
  ASSUME IInv, ContinueOnOriginatingThread
  PROVE  IInv'
<1>1. /\ tasks' = Tail(tasks) /\ fetcher' = "live" /\ Take("Continue")
      /\ fetch' = [fetch EXCEPT !.state = "reading"]
      /\ UNCHANGED <<request, getting, callbacks, url_request, status, response, ioTasks,
                     got_upload_progress_complete, completions, told, raced>>
  BY DEF ContinueOnOriginatingThread, Take, contextVars, history
<1>2. Has(tasks, "Continue") /\ Tail(tasks) \in Seq(Task)
  BY <1>1, TakeStep DEF IInv
<1>3. fetcher = "none" /\ NotStarted
  BY <1>2 DEF IInv, Phases, TypeOK
<1>4. tasks = <<"Continue">> /\ ~getting
  BY <1>2, <1>3, HasFew DEF NotStarted
<1>5. tasks' = <<>>
  BY <1>1, <1>4
<1>6. TypeOK'
  BY <1>1, <1>2 DEF IInv, TypeOK, Fetch
<1>7. Nesting' /\ EndsOnce'
  BY <1>1, <1>3, <1>5, HasFew DEF Nesting, EndsOnce, NotStarted, OneEnd, NoEnd
<1>8. Phases'
  BY <1>1, <1>3, <1>4, <1>5, HasFew DEF Phases, Fetching, NotStarted
<1> QED BY <1>6, <1>7, <1>8 DEF IInv

(* The tasks that give the client a notice or data, or drop a notice.      *)
LEMMA NoticeTypes ==
  ASSUME IInv, NEW t, Take(t), tasks' = Tail(tasks)
  PROVE  /\ tasks' \in Seq(Task) /\ callbacks = <<>> /\ UNCHANGED <<request, getting>>
         /\ \A c \in Callback : <<c>> \in Seq(Callback) /\ Len(<<c>>) <= 2
BY TakeStep DEF IInv, Take

LEMMA DropStep ==
  ASSUME IInv, DropNotice
  PROVE  IInv'
<1>1. CASE \E t \in {"Upload", "UploadAll", "Download"} : Take(t)
  <2>1. PICK t \in {"Upload", "UploadAll", "Download"} : Take(t)
    BY <1>1
  <2>2. /\ tasks' = Tail(tasks)
        /\ UNCHANGED <<callbacks, fetcher, contextVars, netVars, history>>
    BY DEF DropNotice
  <2>3. TypeOK'
    BY <2>1, <2>2, NoticeTypes DEF IInv, TypeOK, contextVars, netVars, history
  <2>4. callbacks' = <<>>
    BY <2>1, <2>2 DEF Take
  <2>5. /\ t \notin Ends /\ t # "Continue"
        /\ UNCHANGED <<fetcher, fetch, completions, raced>>
    BY <2>1, <2>2 DEF Ends, netVars, history
  <2>6. Nesting' /\ EndsOnce' /\ Phases'
    BY <2>1, <2>2, <2>4, <2>5, NoticeStep
  <2> QED BY <2>3, <2>6 DEF IInv
<1>2. CASE Take("Fetched")
  <2>1. /\ tasks' = Tail(tasks) /\ fetcher # "live"
        /\ UNCHANGED <<callbacks, fetcher, contextVars, netVars, history>>
    BY DEF DropNotice
  <2>2. TypeOK'
    BY <1>2, <2>1, NoticeTypes DEF IInv, TypeOK, contextVars, netVars, history
  <2>3. /\ OneEnd(tasks') /\ NoEnd(tasks') /\ callbacks = <<>>
        /\ \A x : Has(tasks, x) <=> x = "Fetched" \/ Has(tasks', x)
        /\ UNCHANGED getting
    BY <1>2, <2>1, TakeStep DEF IInv, Take, Ends
  <2>4. fetcher = "deleted"
    BY <1>2, <2>1, <2>3, HasFew DEF IInv, Phases, NotStarted, TypeOK, Take
  <2>5. Nesting' /\ EndsOnce'
    BY <2>1, <2>3, HasFew DEF Nesting, EndsOnce
  <2>6. Reporting' <=> Reporting
    BY <2>1, <2>3 DEF Reporting
  <2>7. Phases'
    BY <2>1, <2>3, <2>4, <2>6 DEF IInv, Phases, Deleted, history
  <2> QED BY <2>2, <2>5, <2>7 DEF IInv
<1> QED BY <1>1, <1>2 DEF DropNotice

LEMMA UploadStep ==
  ASSUME IInv, NEW t \in {"Upload", "UploadAll"}, OnURLFetchUploadProgress(t)
  PROVE  IInv'
<1>1. /\ Take(t) /\ tasks' = Tail(tasks)
      /\ UNCHANGED <<fetcher, url_request, status, response, fetch, ioTasks, completions,
                     raced>>
  BY DEF OnURLFetchUploadProgress, Delegate, netVars
<1>2. callbacks' = <<>> \/ callbacks' = <<"Progress">>
  BY <1>1, CallAlone DEF OnURLFetchUploadProgress, Take
<1>3. told' \in [noticed : Nat, stoodIn : Nat, late : Nat] /\ got_upload_progress_complete' \in BOOLEAN
  <2>1. CASE request.reports
    BY <2>1 DEF OnURLFetchUploadProgress, IInv, TypeOK, UploadIsAll
  <2>2. CASE ~request.reports
    BY <2>2 DEF OnURLFetchUploadProgress, IInv, TypeOK
  <2> QED BY <2>1, <2>2
<1>4. TypeOK'
  BY <1>1, <1>2, <1>3, NoticeTypes DEF IInv, TypeOK, Callback
<1>5. t \notin Ends /\ t # "Continue"
  BY DEF Ends
<1>6. Nesting' /\ EndsOnce' /\ Phases'
  BY <1>1, <1>2, <1>5, NoticeStep
<1> QED BY <1>4, <1>6 DEF IInv

LEMMA DownloadStep ==
  ASSUME IInv, OnURLFetchDownloadProgress
  PROVE  IInv'
<1>1. /\ Take("Download") /\ tasks' = Tail(tasks) /\ response' = TRUE
      /\ UNCHANGED <<fetcher, url_request, status, got_upload_progress_complete, fetch, ioTasks,
                     completions, raced>>
  BY DEF OnURLFetchDownloadProgress, Delegate, netVars
<1>2. /\ callbacks' = <<"UploadInDownload">> \/ callbacks' = <<"Progress">>
      /\ told' \in [noticed : Nat, stoodIn : Nat, late : Nat]
  BY CallAlone DEF OnURLFetchDownloadProgress, IInv, TypeOK
<1>3. response' \in BOOLEAN
  BY <1>1
<1>4. TypeOK'
  BY <1>1, <1>2, <1>3, NoticeTypes DEF IInv, TypeOK, Callback
<1>5. "Download" \notin Ends /\ "Download" # "Continue"
  BY DEF Ends
<1>6. Nesting' /\ EndsOnce' /\ Phases'
  BY <1>1, <1>2, <1>5, NoticeStep
<1> QED BY <1>4, <1>6 DEF IInv

LEMMA WriteStep ==
  ASSUME IInv, WriteOnClientThread
  PROVE  IInv'
<1>1. /\ Take("Write") /\ tasks' = Tail(tasks) /\ callbacks' = <<"DownloadData">>
      /\ UNCHANGED <<fetcher, contextVars, netVars, completions, raced>>
      /\ told' \in [noticed : Nat, stoodIn : Nat, late : Nat]
  <2>1. callbacks = <<>> /\ Call("DownloadData", <<>>)
    BY DEF WriteOnClientThread, Take
  <2>2. callbacks' = <<"DownloadData">>
    BY <2>1, CallAlone
  <2>3. told \in [noticed : Nat, stoodIn : Nat, late : Nat]
    BY DEF IInv, TypeOK
  <2>4. PICK k \in Nat : told' = [told EXCEPT !.late = k]
    <3>1. told.late \in Nat /\ told.late + 1 \in Nat
      BY <2>3
    <3>2. \/ told' = [told EXCEPT !.late = told.late + 1]
          \/ told' = [told EXCEPT !.late = told.late]
      BY DEF WriteOnClientThread
    <3> QED BY <3>1, <3>2
  <2>5. told' \in [noticed : Nat, stoodIn : Nat, late : Nat]
    BY <2>3, <2>4
  <2> QED BY <2>2, <2>5 DEF WriteOnClientThread
<1>2. TypeOK'
  BY <1>1, NoticeTypes DEF IInv, TypeOK, Callback, contextVars, netVars
<1>3. "Write" \notin Ends /\ UNCHANGED <<fetcher, fetch, completions, raced>>
  BY <1>1 DEF Ends, netVars
<1>4. Nesting' /\ EndsOnce' /\ Phases'
  BY <1>1, <1>3, NoticeStep
<1> QED BY <1>2, <1>4 DEF IInv

(* ... and the returns from the client.                                    *)
LEMMA DownloadAfterUploadStep ==
  ASSUME IInv, DownloadAfterUpload
  PROVE  IInv'
<1>1. /\ callbacks # <<>> /\ Head(callbacks) = "UploadInDownload"
      /\ Call("Progress", Tail(callbacks)) /\ got_upload_progress_complete' = TRUE
      /\ UNCHANGED <<request, getting, tasks, fetcher, url_request, status, response, netVars,
                     history>>
  BY DEF DownloadAfterUpload
<1>2. Tail(callbacks) = <<>>
  BY <1>1, Innermost DEF IInv
<1>3. callbacks' = <<"Progress">>
  BY <1>1, <1>2, CallAlone
<1>4. got_upload_progress_complete' \in BOOLEAN
  BY <1>1
<1>5. TypeOK'
  BY <1>1, <1>3, <1>4 DEF IInv, TypeOK, Callback, netVars, history
<1> QED BY <1>1, <1>3, <1>5, ReturnStep DEF IInv, netVars, history

LEMMA ProgressReturnsStep ==
  ASSUME IInv, ProgressReturns
  PROVE  IInv'
<1>1. /\ callbacks # <<>> /\ Head(callbacks) = "Progress" /\ callbacks' = Tail(callbacks)
      /\ UNCHANGED <<request, getting, tasks, fetcher, contextVars, netVars, history>>
  BY DEF ProgressReturns
<1>2. callbacks' = <<>>
  BY <1>1, Innermost DEF IInv
<1>3. TypeOK'
  BY <1>1, <1>2 DEF IInv, TypeOK, contextVars, netVars, history
<1> QED BY <1>1, <1>2, <1>3, ReturnStep DEF IInv, netVars, history

LEMMA DownloadDataReturnsStep ==
  ASSUME IInv, DownloadDataReturns
  PROVE  IInv'
<1>1. /\ callbacks # <<>> /\ Head(callbacks) = "DownloadData" /\ callbacks' = Tail(callbacks)
      /\ ioTasks' = Append(ioTasks, "Continue")
      /\ UNCHANGED <<request, getting, tasks, fetcher, contextVars, fetch, history>>
  BY DEF DownloadDataReturns
<1>2. callbacks' = <<>>
  BY <1>1, Innermost DEF IInv
<1>3. TypeOK'
  BY <1>1, <1>2 DEF IInv, TypeOK, contextVars, history
<1> QED BY <1>1, <1>2, <1>3, ReturnStep DEF IInv, history

(* The fetch is known to have ended, and its completion posted.            *)
LEMMA FetchedStep ==
  ASSUME IInv, OnURLFetchComplete
  PROVE  IInv'
<1>1. /\ Take("Fetched") /\ fetcher = "live" /\ tasks' = Append(Tail(tasks), "OnComplete")
      /\ UNCHANGED <<request, getting, callbacks, fetcher, contextVars, netVars, history>>
  BY DEF OnURLFetchComplete, CompletionTask, Take
<1>2. /\ Tail(tasks) \in Seq(Task) /\ OneEnd(Tail(tasks)) /\ NoEnd(Tail(tasks)) /\ Ended
      /\ \A x : Has(tasks, x) <=> x = "Fetched" \/ Has(Tail(tasks), x)
      /\ callbacks = <<>>
  BY <1>1, TakeStep DEF IInv, Take, Ends
<1>3. "OnComplete" \in Task
  BY DEF Task
<1>4. /\ OneEnd(tasks') /\ tasks' \in Seq(Task)
      /\ \A x : Has(tasks', x) <=> Has(Tail(tasks), x) \/ "OnComplete" = x
  <2>1. OneEnd(tasks')
    <3>1. OneEnd(Append(Tail(tasks), "OnComplete"))
      BY <1>2, <1>3, OneEndAppend
    <3> QED BY <1>1, <3>1
  <2>2. \A x : Has(tasks', x) <=> Has(Tail(tasks), x) \/ "OnComplete" = x
    BY <1>1, <1>2, <1>3, HasAppend
  <2>3. tasks' \in Seq(Task)
    BY <1>1, <1>2, <1>3
  <2> QED BY <2>1, <2>2, <2>3
<1>5. TypeOK'
  BY <1>1, <1>4 DEF IInv, TypeOK, contextVars, netVars, history
<1>6. Nesting' /\ EndsOnce'
  BY <1>1, <1>2, <1>4, HasFew DEF Nesting, EndsOnce, Ended, netVars
<1>7. completions = <<>> /\ ~raced /\ ~Has(callbacks, "RequestComplete")
  BY <1>1, <1>2, HasFew DEF IInv, Phases, Fetching
<1>8. Phases'
  BY <1>1, <1>2, <1>4, <1>7 DEF IInv, Phases, Fetching, history
<1> QED BY <1>5, <1>6, <1>8 DEF IInv

-----------------------------------------------------------------------------
(* The steps of the fetch itself.                                          *)
LEMMA Posted ==
  ASSUME IInv, NEW x \in Task \ {"OnComplete", "Continue"}, tasks' = Append(tasks, x)
  PROVE  /\ tasks' \in Seq(Task)
         /\ x \notin Ends => OneEnd(tasks') /\ (NoEnd(tasks') <=> NoEnd(tasks))
         /\ NoEnd(tasks) => OneEnd(tasks')
         /\ Has(tasks', "OnComplete") <=> Has(tasks, "OnComplete")
         /\ Has(tasks', "Continue") <=> Has(tasks, "Continue")
<1>1. tasks \in Seq(Task) /\ OneEnd(tasks) /\ x \in Task
  BY DEF IInv, TypeOK, EndsOnce
<1>2. \A y : Has(tasks', y) <=> Has(tasks, y) \/ x = y
  BY <1>1, HasAppend
<1>3. ASSUME x \notin Ends \/ NoEnd(tasks)
      PROVE  OneEnd(tasks')
  <2>1. OneEnd(Append(tasks, x))
    BY <1>1, <1>3, OneEndAppend
  <2> QED BY <2>1
<1>4. x \notin Ends => (NoEnd(tasks') <=> NoEnd(tasks))
  BY <1>2 DEF NoEnd
<1>5. tasks' \in Seq(Task)
  BY <1>1
<1> QED BY <1>2, <1>3, <1>4, <1>5

(* A fetch that is under way belongs to a fetcher, and its end is not known*)
(* on the originating thread.                                              *)
LEMMA UnderWay ==
  ASSUME IInv, fetch.state \in {"reading", "writing"}
  PROVE  fetcher # "none" /\ ~Ended /\ NoEnd(tasks)
BY DEF IInv, Phases, NotStarted, EndsOnce, Ended

LEMMA FetchTypes ==
  ASSUME IInv, FetchStep, fetch' \in Fetch, tasks' \in Seq(Task),
         ioTasks' \in Seq({"Continue", "Stop"})
  PROVE  TypeOK'
BY DEF IInv, TypeOK, FetchStep, contextVars, history

LEMMA FetchUploadsStep ==
  ASSUME IInv, FetchUploads
  PROVE  IInv'
<1>1. PICK n \in {1, 2} :
         /\ fetch' = [fetch EXCEPT !.sent = n]
         /\ tasks' = Append(tasks, IF n = 2 THEN "UploadAll" ELSE "Upload")
  BY DEF FetchUploads
<1>2. PICK x \in {"UploadAll", "Upload"} : tasks' = Append(tasks, x)
  BY <1>1
<1>3. x \in Task \ {"OnComplete", "Continue"} /\ x \notin Ends
  BY DEF Task, Ends
<1>4. FetchStep /\ fetch.state \in {"reading", "writing"} /\ UNCHANGED ioTasks
  BY DEF FetchUploads
<1>5. fetch' \in Fetch /\ ~Ended'
  <2>1. n \in 0 .. 2 /\ fetch \in Fetch
    BY DEF IInv, TypeOK
  <2>2. fetch' \in Fetch /\ fetch'.state = fetch.state
    BY <1>1, <2>1 DEF Fetch
  <2> QED BY <1>4, <2>2 DEF Ended
<1>6. TypeOK'
  BY <1>2, <1>3, <1>4, <1>5, Posted, FetchTypes DEF IInv, TypeOK
<1>7. Nesting' /\ EndsOnce' /\ Phases'
  BY <1>2, <1>3, <1>4, Posted, UnderWay, NetStep
<1> QED BY <1>6, <1>7 DEF IInv

LEMMA FetchReadsStep ==
  ASSUME IInv, FetchReads
  PROVE  IInv'
<1>1. /\ FetchStep /\ fetch.state = "reading" /\ UNCHANGED ioTasks /\ fetch.read < MaxChunks
      /\ fetch' = [fetch EXCEPT !.read = @ + 1,
                                !.state = IF request.data THEN "writing" ELSE "reading"]
      /\ \/ tasks' = Append(Append(tasks, "Download"), "Write")
         \/ tasks' = Append(tasks, "Download")
  BY DEF FetchReads, WritePending
<1>2. fetch' \in Fetch /\ ~Ended'
  <2>1. fetch.read + 1 \in 0 .. MaxChunks
    BY <1>1, ChunksAssumption DEF IInv, TypeOK, Fetch
  <2>2. PICK st \in {"writing", "reading"} :
           fetch' = [fetch EXCEPT !.read = @ + 1, !.state = st]
    BY <1>1
  <2> QED BY <2>1, <2>2 DEF IInv, TypeOK, Fetch, Ended
<1> DEFINE first == Append(tasks, "Download")
<1>3. tasks \in Seq(Task) /\ OneEnd(tasks) /\ "Download" \in Task /\ "Write" \in Task
  BY DEF IInv, TypeOK, EndsOnce, Task
<1>4. /\ first \in Seq(Task) /\ \A y : Has(first, y) <=> Has(tasks, y) \/ "Download" = y
  <2>1. first \in Seq(Task)
    BY <1>3
  <2> QED BY <1>3, <2>1, HasAppend
<1>5. OneEnd(first)
  BY <1>3, OneEndAppend DEF Ends
<1> HIDE DEF first
<1>6. /\ tasks' \in Seq(Task) /\ OneEnd(tasks')
      /\ \A y : y \notin {"Download", "Write"} => (Has(tasks', y) <=> Has(tasks, y))
  <2>1. CASE tasks' = first
    BY <1>4, <1>5, <2>1
  <2>2. CASE tasks' = Append(first, "Write")
    <3>1. \A y : Has(tasks', y) <=> Has(first, y) \/ "Write" = y
      BY <1>3, <1>4, <2>2, HasAppend
    <3>2. OneEnd(Append(first, "Write"))
      BY <1>3, <1>4, <1>5, OneEndAppend DEF Ends
    <3>3. tasks' \in Seq(Task)
      BY <1>3, <1>4, <2>2
    <3> QED BY <1>4, <2>2, <3>1, <3>2, <3>3
  <2> QED BY <1>1, <2>1, <2>2 DEF first
<1>7. NoEnd(tasks) /\ NoEnd(tasks') /\ fetcher # "none" /\ ~Ended
  <2>1. NoEnd(tasks) /\ fetcher # "none" /\ ~Ended
    BY <1>1, UnderWay
  <2> QED BY <1>6, <2>1 DEF NoEnd, Ends
<1>8. TypeOK'
  BY <1>1, <1>2, <1>6, FetchTypes DEF IInv, TypeOK
<1>9. Nesting' /\ EndsOnce' /\ Phases'
  BY <1>1, <1>6, <1>7, NetStep
<1> QED BY <1>8, <1>9 DEF IInv

LEMMA FetchEndsStep ==
  ASSUME IInv, FetchEnds
  PROVE  IInv'
<1>1. /\ FetchStep /\ fetch.state = "reading" /\ UNCHANGED ioTasks
      /\ tasks' = Append(tasks, "Fetched")
  BY DEF FetchEnds
<1>2. PICK s \in {"success", "failed"} : fetch' = [fetch EXCEPT !.state = s]
  BY DEF FetchEnds
<1>3. fetch' \in Fetch /\ Ended'
  BY <1>2 DEF IInv, TypeOK, Fetch, Ended
<1>4. "Fetched" \in Task \ {"OnComplete", "Continue"}
  BY DEF Task
<1>5. TypeOK'
  BY <1>1, <1>3, <1>4, Posted, FetchTypes DEF IInv, TypeOK
<1>6. Nesting' /\ EndsOnce' /\ Phases'
  BY <1>1, <1>3, <1>4, Posted, UnderWay, NetStep
<1> QED BY <1>5, <1>6 DEF IInv

LEMMA RunIoTaskStep ==
  ASSUME IInv, RunIoTask
  PROVE  IInv'
<1>1. FetchStep /\ UNCHANGED tasks /\ ioTasks # <<>> /\ ioTasks' = Tail(ioTasks)
  BY DEF RunIoTask
<1>2. PICK s \in {"stopped", "reading", fetch.state} :
         /\ fetch' = [fetch EXCEPT !.state = s]
         /\ s = "reading" => ~Ended \/ fetch.state = "reading"
  <2>1. CASE Head(ioTasks) = "Stop"
    BY <2>1 DEF RunIoTask
  <2>2. CASE Head(ioTasks) # "Stop" /\ Head(ioTasks) = "Continue" /\ fetch.state = "writing"
    BY <2>2 DEF RunIoTask, Ended
  <2>3. CASE Head(ioTasks) # "Stop" /\ ~(Head(ioTasks) = "Continue" /\ fetch.state = "writing")
    BY <2>3 DEF RunIoTask, Ended
  <2> QED BY <2>1, <2>2, <2>3
<1>3. fetch' \in Fetch /\ fetch'.state = s
  BY <1>2 DEF IInv, TypeOK, Fetch
<1>4. Ended => Ended'
  BY <1>2, <1>3 DEF Ended
<1>5. ioTasks' \in Seq({"Continue", "Stop"}) /\ fetcher # "none"
  BY <1>1 DEF IInv, TypeOK, Phases, NotStarted
<1>6. TypeOK'
  BY <1>1, <1>3, <1>5, FetchTypes DEF IInv, TypeOK
<1>7. OneEnd(tasks) /\ (~NoEnd(tasks) => Ended)
  BY DEF IInv, EndsOnce
<1>8. Nesting' /\ EndsOnce' /\ Phases'
  BY <1>1, <1>4, <1>5, <1>7, NetStep
<1> QED BY <1>6, <1>8 DEF IInv

-----------------------------------------------------------------------------
LEMMA InitHolds ==
  Init => IInv
<1> SUFFICES ASSUME Init PROVE IInv
  OBVIOUS
<1>1. TypeOK
  <2>1. fetch \in Fetch
    BY ChunksAssumption DEF Init, Fetch
  <2>2. told \in [noticed : Nat, stoodIn : Nat, late : Nat]
    BY DEF Init
  <2>3. /\ getting \in BOOLEAN /\ url_request \in BOOLEAN /\ response \in BOOLEAN
        /\ got_upload_progress_complete \in BOOLEAN
        /\ raced \in BOOLEAN
    BY Zenon DEF Init
  <2>4. /\ request \in Request /\ tasks \in Seq(Task)
        /\ callbacks \in Seq(Callback) /\ Len(callbacks) <= 2
        /\ fetcher \in {"none", "live", "deleted"} /\ status \in Status
        /\ ioTasks \in Seq({"Continue", "Stop"})
        /\ completions \in Seq([status : Status, named : BOOLEAN])
    BY DEF Init, Status
  <2> QED BY <2>1, <2>2, <2>3, <2>4, Zenon DEF TypeOK
<1>2. Nesting /\ EndsOnce
  BY HasFew DEF Init, Nesting, EndsOnce, OneEnd, NoEnd
<1>3. Phases
  BY DEF Init, Phases, NotStarted
<1> QED BY <1>1, <1>2, <1>3 DEF IInv

LEMMA StutterStep ==
  ASSUME IInv, UNCHANGED vars
  PROVE  IInv'
<1>1. UNCHANGED <<request, getting, tasks, callbacks, fetcher, url_request, status, response,
                  got_upload_progress_complete, fetch, ioTasks, completions, told, raced>>
  BY DEF vars, contextVars, netVars, history
<1> QED
  BY <1>1
  DEF IInv, TypeOK, Nesting, EndsOnce, Phases, NotStarted, Fetching, Deleted, Reporting, Ended

LEMMA NextStep ==
  IInv /\ [Next]_vars => IInv'
<1> SUFFICES ASSUME IInv, [Next]_vars PROVE IInv'
  OBVIOUS
<1>1. CASE ThreadStep
  BY <1>1, ContinueStep, OnCompleteStep, CompleteAfterUploadStep, CompletedStep, DropStep,
     UploadStep, DownloadStep, DownloadAfterUploadStep, ProgressReturnsStep, FetchedStep,
     WriteStep, DownloadDataReturnsStep
  DEF ThreadStep
<1> QED
  BY <1>1, GetRequestContextStep, CancelStep, FetchUploadsStep, FetchReadsStep, FetchEndsStep,
     RunIoTaskStep, StutterStep
  DEF Next

LEMMA Inductive ==
  Spec => []IInv
BY InitHolds, NextStep, PTL DEF Spec

(* The state of a request has the shape TypeOK gives it; in particular no  *)
(* more than two calls of the client of CefURLRequest are ever nested.     *)
THEOREM RequestTypeCorrect == Spec => []TypeOK
<1>1. IInv => TypeOK
  BY DEF IInv
<1> QED BY <1>1, Inductive, PTL

(* OnRequestComplete is called once for a request, and a second time only  *)
(* when the client canceled a request whose completion had begun; so it is *)
(* for every number of parts in which the response is read.                *)
THEOREM CompletionsBounded == Spec => []CompletedTwiceAtMost
<1>1. ASSUME IInv PROVE CompletedTwiceAtMost
  <2>1. Len(completions) \in Nat /\ fetcher \in {"none", "live", "deleted"}
    BY <1>1 DEF IInv, TypeOK
  <2>2. CASE fetcher = "none"
    BY <1>1, <2>2 DEF IInv, Phases, NotStarted, CompletedTwiceAtMost
  <2>3. CASE fetcher = "live"
    <3>1. ~raced /\ (completions = <<>> \/ Len(completions) = 1)
      BY <1>1, <2>3 DEF IInv, Phases, Fetching
    <3>2. Len(completions) <= 1
      <4>1. CASE completions = <<>>
        BY <4>1
      <4>2. CASE Len(completions) = 1
        BY <4>2
      <4> QED BY <3>1, <4>1, <4>2
    <3> QED BY <3>1, <3>2 DEF CompletedTwiceAtMost
  <2>4. CASE fetcher = "deleted"
    BY <1>1, <2>1, <2>4 DEF IInv, Phases, Deleted, CompletedTwiceAtMost
  <2> QED BY <2>1, <2>2, <2>3, <2>4
<1> QED BY <1>1, Inductive, PTL

-----------------------------------------------------------------------------
(* How the data of the response gets to the client: the one part that is   *)
(* with a response writer is posted, being told, or acknowledged.          *)
Part1 == Has(tasks, "Write")
Part2 == Has(callbacks, "DownloadData")
Part3 == Has(ioTasks, "Continue")

OneWrite(s) == \A i, j \in DOMAIN s : s[i] = "Write" /\ s[j] = "Write" => i = j

Parts ==
  /\ OneWrite(tasks)
  /\ ~(Part1 /\ Part2) /\ ~(Part1 /\ Part3) /\ ~(Part2 /\ Part3)
  /\ fetch.state = "writing" => Part1 \/ Part2 \/ Part3
  /\ Part1 \/ Part2 \/ Part3 => fetch.state \in {"writing", "stopped"}

(* The fetcher is stopped once, and only when it was deleted.              *)
Stops ==
  /\ ioTasks \in {<<>>, <<"Continue">>, <<"Stop">>, <<"Continue", "Stop">>, <<"Stop", "Continue">>}
  /\ fetcher # "deleted" => ioTasks \in {<<>>, <<"Continue">>} /\ fetch.state # "stopped"
  /\ fetcher = "deleted" /\ ioTasks \in {<<>>, <<"Continue">>} => fetch.state = "stopped"

(* What may still follow a completion.                                     *)
Late ==
  /\ told.late <= 1
  /\ completions = <<>> => told.late = 0
  /\ Part1 \/ fetch.state = "reading" \/ ioTasks = <<"Continue", "Stop">> => told.late = 0
  /\ completions # <<>> /\ completions[1].status = "UR_SUCCESS" =>
       Ended /\ ~Part1 /\ told.late = 0

(* NotifyUploadProgressIfNecessary is telling the end of the upload.       *)
Telling == Has(callbacks, "UploadInComplete") \/ Has(callbacks, "UploadInDownload")

(* The fetcher's notice of the end of the upload is posted once.           *)
OneNotice(s) == \A i, j \in DOMAIN s : s[i] = "UploadAll" /\ s[j] = "UploadAll" => i = j

Upload ==
  /\ told.noticed \in {0, 1} /\ told.stoodIn \in {0, 1}
  /\ got_upload_progress_complete \/ Telling <=> told.noticed = 1 \/ told.stoodIn = 1
  /\ got_upload_progress_complete \/ Telling => request.uploads /\ request.reports
  /\ fetch.sent # 0 => request.uploads
  /\ fetch.sent # 2 => told.noticed = 0 /\ ~Has(tasks, "UploadAll")
  /\ Has(tasks, "UploadAll") => told.noticed = 0
  /\ OneNotice(tasks)

(* What the client was answered, and what it reads as the status.          *)
Answer ==
  /\ raced => completions # <<>>
  /\ ~raced => status = IF completions = <<>> THEN "UR_IO_PENDING" ELSE completions[1].status
  /\ completions # <<>> => completions[1].status \in Status \ {"UR_IO_PENDING"}
  /\ Has(callbacks, "RequestComplete") \/ ~url_request \/ fetcher = "deleted" =>
       completions # <<>>

JInv == Parts /\ Stops /\ Late /\ Upload /\ Answer

ContractStep == Contract!Next
-----------------------------------------------------------------------------
LEMMA OneWriteAppend ==
  ASSUME NEW s \in Seq(Task), NEW x \in Task, OneWrite(s), x # "Write" \/ ~Has(s, "Write")
  PROVE  OneWrite(Append(s, x))
BY DEF OneWrite, Has

LEMMA OneWriteTail ==
  ASSUME NEW s \in Seq(Task), s # <<>>, OneWrite(s)
  PROVE  OneWrite(Tail(s)) /\ (Head(s) = "Write" => ~Has(Tail(s), "Write"))
BY DEF OneWrite, Has

LEMMA OneNoticeAppend ==
  ASSUME NEW s \in Seq(Task), NEW x \in Task, OneNotice(s),
         x # "UploadAll" \/ ~Has(s, "UploadAll")
  PROVE  OneNotice(Append(s, x))
BY DEF OneNotice, Has

LEMMA OneNoticeTail ==
  ASSUME NEW s \in Seq(Task), s # <<>>, OneNotice(s)
  PROVE  OneNotice(Tail(s)) /\ (Head(s) = "UploadAll" => ~Has(Tail(s), "UploadAll"))
BY DEF OneNotice, Has

(* A task taken from the queue, once more.                                 *)
LEMMA TakeMore ==
  ASSUME IInv, JInv, NEW t, Take(t)
  PROVE  /\ Tail(tasks) \in Seq(Task) /\ callbacks = <<>> /\ UNCHANGED <<request, getting>>
         /\ \A x : Has(tasks, x) <=> x = t \/ Has(Tail(tasks), x)
         /\ OneWrite(Tail(tasks)) /\ (t = "Write" => ~Has(Tail(tasks), "Write"))
         /\ OneNotice(Tail(tasks)) /\ (t = "UploadAll" => ~Has(Tail(tasks), "UploadAll"))
         /\ t \in Ends => Ended
         /\ fetcher # "none" \/ t = "Continue"
<1>1. tasks \in Seq(Task) /\ tasks # <<>> /\ Head(tasks) = t
  BY DEF IInv, TypeOK, Take
<1>2. OneWrite(tasks) /\ OneNotice(tasks)
  BY DEF JInv, Parts, Upload
<1>3. fetcher # "none" \/ t = "Continue"
  BY <1>1 DEF IInv, Phases, NotStarted
<1> QED BY <1>1, <1>2, <1>3, OneWriteTail, OneNoticeTail, TakeStep DEF IInv, Take

(* The first completion is not replaced.                                   *)
LEMMA Reported ==
  ASSUME TypeOK, NEW st \in Status, NEW below, Report(st, below)
  PROVE  /\ completions' # <<>>
         /\ completions'[1].status = IF completions = <<>> THEN st ELSE completions[1].status
<1> DEFINE c == [status |-> st, named |-> url_request]
<1>1. completions' = Append(completions, c)
  BY DEF Report
<1>2. completions \in Seq([status : Status, named : BOOLEAN])
  BY DEF TypeOK
<1>3. c \in [status : Status, named : BOOLEAN] /\ c.status = st
  BY Zenon DEF TypeOK
<1> HIDE DEF c
<1>4. CASE completions = <<>>
  BY <1>1, <1>3, <1>4
<1>5. CASE completions # <<>>
  BY <1>1, <1>2, <1>3, <1>5
<1> QED BY <1>4, <1>5, <1>3

-----------------------------------------------------------------------------
(* What a step leaves alone.                                               *)
LEMMA QuietAnswer ==
  ASSUME Answer, UNCHANGED <<completions, status, raced, url_request>>,
         fetcher' = "deleted" => fetcher = "deleted",
         Has(callbacks', "RequestComplete") => Has(callbacks, "RequestComplete")
  PROVE  Answer'
BY DEF Answer

LEMMA QuietContract ==
  ASSUME UNCHANGED <<completions, status, raced, url_request, request>>,
         \/ told'.noticed = told.noticed /\ told'.stoodIn = told.stoodIn
         \/ /\ told.noticed = 0 /\ told'.noticed = 1 /\ told'.stoodIn = told.stoodIn
            /\ completions = <<>>
         \/ /\ told.noticed = 0 /\ told.stoodIn = 0 /\ told'.stoodIn = 1 /\ told'.noticed = 0
            /\ completions = <<>>
  PROVE  ContractStep
BY DEF ContractStep, Contract!Next, Contract!StatusMove, Contract!AnswerMove,
       Contract!UploadMove, Contract!HoldMove

LEMMA QuietParts ==
  ASSUME Parts, Stops, Late, OneWrite(tasks'), Part1' <=> Part1, Part2' <=> Part2,
         UNCHANGED <<ioTasks, fetcher, completions>>,
         fetch'.state = fetch.state, told'.late = told.late
  PROVE  Parts' /\ Stops' /\ Late'
BY DEF Parts, Stops, Late, Part3, Ended

LEMMA QuietUpload ==
  ASSUME Upload, UNCHANGED <<request, got_upload_progress_complete>>,
         told'.noticed = told.noticed, told'.stoodIn = told.stoodIn, Telling' <=> Telling,
         OneNotice(tasks'),
         Has(tasks', "UploadAll") => Has(tasks, "UploadAll"),
         fetch'.sent = fetch.sent
  PROVE  Upload'
BY DEF Upload

(* The rest of the queue has no more of a task than the queue.             *)
LEMMA RestIsLess ==
  ASSUME IInv, JInv, NEW t, Take(t), tasks' = Tail(tasks)
  PROVE  /\ OneWrite(tasks') /\ OneNotice(tasks')
         /\ \A x : Has(tasks', x) => Has(tasks, x)
         /\ t # "Write" => (Part1' <=> Part1)
BY TakeMore DEF Part1

LEMMA GetRequestContextMore ==
  ASSUME IInv, JInv, GetRequestContextOnUIThread
  PROVE  JInv' /\ ContractStep
<1>1. /\ getting = TRUE /\ tasks' = Append(tasks, "Continue")
      /\ UNCHANGED <<request, callbacks, fetcher, url_request, status, response, fetch, ioTasks,
                     got_upload_progress_complete, completions, told, raced>>
  BY DEF GetRequestContextOnUIThread, contextVars, netVars, history, IInv, TypeOK
<1>2. fetcher = "none" /\ tasks = <<>>
  BY <1>1 DEF IInv, Phases, NotStarted
<1>3. tasks' = <<"Continue">>
  BY <1>1, <1>2
<1>4. /\ \A x : ~Has(tasks, x) /\ (Has(tasks', x) <=> x = "Continue")
  BY <1>2, <1>3, HasFew
<1>5. OneWrite(tasks') /\ OneNotice(tasks')
  BY <1>3 DEF OneWrite, OneNotice
<1>6. (Part1' <=> Part1) /\ (Part2' <=> Part2) /\ (Telling' <=> Telling) /\ (Ended => Ended')
  BY <1>1, <1>4 DEF Part1, Part2, Telling, Ended
<1>7. Parts' /\ Stops' /\ Late'
  BY <1>1, <1>5, <1>6, QuietParts DEF JInv
<1>8. Upload'
  BY <1>1, <1>4, <1>5, <1>6, QuietUpload DEF JInv
<1>9. Answer' /\ ContractStep
  BY <1>1, QuietAnswer, QuietContract DEF JInv
<1> QED BY <1>7, <1>8, <1>9 DEF JInv

LEMMA ContinueMore ==
  ASSUME IInv, JInv, ContinueOnOriginatingThread
  PROVE  JInv' /\ ContractStep
<1>1. /\ tasks' = Tail(tasks) /\ fetcher' = "live" /\ Take("Continue")
      /\ fetch' = [fetch EXCEPT !.state = "reading"]
      /\ UNCHANGED <<request, callbacks, url_request, status, response, ioTasks,
                     got_upload_progress_complete, completions, told, raced>>
  BY DEF ContinueOnOriginatingThread, Take, contextVars, history
<1>2. Has(tasks, "Continue")
  BY <1>1, TakeStep DEF IInv
<1>3. fetcher = "none" /\ NotStarted
  BY <1>2 DEF IInv, Phases, TypeOK
<1>4. tasks = <<"Continue">>
  BY <1>2, <1>3, HasFew DEF NotStarted
<1>5. tasks' = <<>>
  BY <1>1, <1>4
<1>6. /\ fetch'.state = "reading" /\ fetch'.sent = fetch.sent /\ fetch'.read = fetch.read
  BY <1>1 DEF IInv, TypeOK, Fetch
<1>7. /\ ~Part1' /\ ~Part2' /\ ~Part3' /\ \A x : ~Has(tasks', x) /\ ~Has(callbacks', x)
  BY <1>1, <1>3, <1>5, HasFew DEF NotStarted, Part1, Part2, Part3
<1>8. OneWrite(tasks') /\ OneNotice(tasks')
  BY <1>5 DEF OneWrite, OneNotice
<1>9. Parts' /\ Stops'
  BY <1>1, <1>3, <1>6, <1>7, <1>8 DEF Parts, Stops, NotStarted
<1>10. told.late = 0 /\ completions = <<>>
  BY <1>3 DEF JInv, Late, NotStarted
<1>11. Late'
  BY <1>1, <1>10 DEF Late
<1>12. Upload'
  BY <1>1, <1>3, <1>6, <1>7, <1>8 DEF JInv, Upload, Telling
<1>13. Answer' /\ ContractStep
  BY <1>1, QuietAnswer, QuietContract DEF JInv
<1> QED BY <1>9, <1>11, <1>12, <1>13 DEF JInv

(* What a report of the completion changes.                                *)
LEMMA ReportParts ==
  ASSUME Parts, Stops, Late, NEW st, completions' # <<>>,
         completions'[1].status = (IF completions = <<>> THEN st ELSE completions[1].status),
         st = "UR_SUCCESS" /\ completions = <<>> => fetch.state = "success",
         OneWrite(tasks'), Part1' <=> Part1, Part2' <=> Part2,
         UNCHANGED <<ioTasks, fetcher, fetch>>, told'.late = told.late
  PROVE  Parts' /\ Stops' /\ Late'
BY DEF Parts, Stops, Late, Part3, Ended

(* The first completion is an answer; a later one changes nothing that     *)
(* counts.                                                                 *)
LEMMA ReportAnswer ==
  ASSUME Answer, NEW st \in Status, status' = st, completions' # <<>>,
         completions = <<>> => st # "UR_IO_PENDING",
         completions'[1].status = (IF completions = <<>> THEN st ELSE completions[1].status),
         raced' = raced, UNCHANGED <<url_request, request>>,
         told'.noticed = told.noticed, told'.stoodIn = told.stoodIn,
         told.noticed \in {0, 1}, told.stoodIn \in {0, 1},
         completions # <<>> => raced \/ st = status,
         request.uploads /\ request.reports /\ st = "UR_SUCCESS" /\ completions = <<>>
           => told.noticed = 1 \/ told.stoodIn = 1
  PROVE  Answer' /\ ContractStep
BY DEF Answer, ContractStep, Status, Contract!Next, Contract!StatusMove, Contract!AnswerMove,
       Contract!UploadMove, Contract!HoldMove, Contract!Final

LEMMA OnCompleteMore ==
  ASSUME IInv, JInv, OnComplete
  PROVE  JInv' /\ ContractStep
<1>1. /\ Take("OnComplete") /\ tasks' = Tail(tasks) /\ callbacks = <<>> /\ Ended
      /\ UNCHANGED <<request, getting, fetcher, url_request, got_upload_progress_complete,
                     fetch, ioTasks, raced>>
      /\ told' \in [noticed : Nat, stoodIn : Nat, late : Nat] => told'.late = told.late
  <2>1. Take("OnComplete") /\ tasks' = Tail(tasks)
    BY DEF OnComplete
  <2>2. told' = told \/ told' = [told EXCEPT !.stoodIn = @ + 1]
    BY DEF OnComplete
  <2> QED BY <2>1, <2>2, TakeMore DEF OnComplete, Ends, netVars, IInv, TypeOK
<1>2. /\ OneWrite(tasks') /\ OneNotice(tasks') /\ (Part1' <=> Part1)
      /\ \A x : Has(tasks', x) => Has(tasks, x)
  BY <1>1, RestIsLess
<1>3. fetcher # "none" /\ \A x : ~Has(callbacks, x)
  BY <1>1, TakeMore, HasFew
<1>4. told \in [noticed : Nat, stoodIn : Nat, late : Nat] /\ status \in Status
  BY DEF IInv, TypeOK
<1>5. fetcher = "live" => completions = <<>>
  BY <1>1 DEF IInv, Phases, Fetching
<1>6. CASE /\ fetcher = "live" /\ fetch.state = "success" /\ UploadUntold
           /\ Call("UploadInComplete", <<>>)
           /\ told' = [told EXCEPT !.stoodIn = @ + 1]
           /\ UNCHANGED <<status, response, completions>>
  <2>1. callbacks' = <<"UploadInComplete">>
    BY <1>6, CallAlone
  <2>2. \A x : Has(callbacks', x) <=> x = "UploadInComplete"
    BY <2>1, HasFew
  <2>3. /\ told.noticed = 0 /\ told.stoodIn = 0 /\ told'.late = told.late
        /\ told'.noticed = 0 /\ told'.stoodIn = 1
    BY <1>3, <1>4, <1>6 DEF JInv, Upload, Telling, UploadUntold
  <2>4. Parts' /\ Stops' /\ Late'
    BY <1>1, <1>2, <1>3, <1>6, <2>2, <2>3, QuietParts DEF JInv, Part2
  <2>5. Upload'
    BY <1>1, <1>2, <1>6, <2>2, <2>3 DEF JInv, Upload, Telling, UploadUntold, Ended
  <2>6. Answer' /\ ContractStep
    BY <1>1, <1>5, <1>6, <2>2, <2>3, QuietAnswer, QuietContract DEF JInv
  <2> QED BY <2>4, <2>5, <2>6 DEF JInv
<1>7. ASSUME NEW st \in Status, Report(st, <<>>), UNCHANGED told,
             completions # <<>> => raced \/ st = status,
             completions = <<>> => st = Fetched(fetch.state)
                                   /\ ~(fetch.state = "success" /\ UploadUntold)
      PROVE  JInv' /\ ContractStep
  <2>1. callbacks' = <<"RequestComplete">> /\ status' = st
    BY <1>7, CallAlone DEF Report
  <2>2. \A x : Has(callbacks', x) <=> x = "RequestComplete"
    BY <2>1, HasFew
  <2>3. /\ completions' # <<>>
        /\ completions'[1].status = IF completions = <<>> THEN st ELSE completions[1].status
    BY <1>7, Reported DEF IInv
  <2>4. /\ st = "UR_SUCCESS" /\ completions = <<>> =>
             fetch.state = "success" /\ ~UploadUntold
        /\ completions = <<>> => st # "UR_IO_PENDING"
    BY <1>7 DEF Fetched
  <2>5. Parts' /\ Stops' /\ Late'
    BY <1>1, <1>2, <1>3, <1>7, <2>2, <2>3, <2>4, ReportParts DEF JInv, Part2
  <2>6. (Telling' <=> Telling) /\ Ended'
    BY <1>1, <1>3, <2>2 DEF Telling, Ended
  <2>7. Upload'
    BY <1>1, <1>2, <1>7, <2>6, QuietUpload DEF JInv
  <2>8. request.uploads /\ request.reports /\ st = "UR_SUCCESS" /\ completions = <<>>
          => told.noticed = 1 \/ told.stoodIn = 1
    BY <2>4 DEF UploadUntold, JInv, Upload
  <2>9. told.noticed \in {0, 1} /\ told.stoodIn \in {0, 1}
    BY DEF JInv, Upload
  <2>10. Answer' /\ ContractStep
    BY <1>1, <1>7, <2>1, <2>3, <2>4, <2>8, <2>9, ReportAnswer DEF JInv
  <2> QED BY <2>5, <2>7, <2>10 DEF JInv
<1>8. CASE /\ fetcher = "live" /\ ~(fetch.state = "success" /\ UploadUntold)
           /\ Report(Fetched(fetch.state), <<>>) /\ UNCHANGED told
  <2>1. Fetched(fetch.state) \in Status
    BY DEF Fetched, Status
  <2> QED BY <1>5, <1>7, <1>8, <2>1
<1>9. CASE fetcher # "live" /\ Report(status, <<>>) /\ UNCHANGED told
  <2>1. completions # <<>>
    BY <1>3, <1>9 DEF IInv, TypeOK, JInv, Answer
  <2> QED BY <1>4, <1>7, <1>9, <2>1
<1> QED BY <1>6, <1>8, <1>9 DEF OnComplete

LEMMA CompleteAfterUploadMore ==
  ASSUME IInv, JInv, CompleteAfterUpload
  PROVE  JInv' /\ ContractStep
<1>1. callbacks = <<"UploadInComplete">> /\ Tail(callbacks) = <<>>
  <2>1. callbacks # <<>> /\ Head(callbacks) = "UploadInComplete" /\ Nesting
    BY DEF CompleteAfterUpload, IInv
  <2> QED BY <2>1, Innermost
<1>2. \A x : Has(callbacks, x) <=> x = "UploadInComplete"
  BY <1>1, HasFew
<1>3. /\ UNCHANGED <<request, getting, tasks, fetcher, url_request, fetch, ioTasks, told,
                     raced>>
      /\ got_upload_progress_complete' = TRUE
  BY DEF CompleteAfterUpload, netVars
<1>4. fetcher \in {"live", "deleted"}
  BY <1>1 DEF IInv, TypeOK, Phases, NotStarted
<1>5. PICK st \in Status :
         /\ Report(st, <<>>)
         /\ fetcher = "live" => st = Fetched(fetch.state)
  BY <1>1 DEF CompleteAfterUpload, Fetched, Status
<1>6. fetcher = "live" => completions = <<>>
  <2>1. callbacks # <<"RequestComplete">>
    BY <1>2, HasFew
  <2> QED BY <2>1 DEF IInv, Phases, Fetching
<1>7. fetcher = "deleted" => completions # <<>> /\ raced
  <2>1. SUFFICES ASSUME fetcher = "deleted" PROVE completions # <<>> /\ raced
    OBVIOUS
  <2>2. completions # <<>> /\ Len(completions) \in Nat /\ Len(completions) # 0
    BY <2>1 DEF JInv, Answer, IInv, TypeOK
  <2>3. Len(completions) + 1 <= IF raced THEN 2 ELSE 1
    BY <1>2, <2>1 DEF IInv, Phases, Deleted, Reporting
  <2> QED BY <2>2, <2>3
<1>8. callbacks' = <<"RequestComplete">> /\ status' = st
  BY <1>5, CallAlone DEF Report
<1>9. \A x : Has(callbacks', x) <=> x = "RequestComplete"
  BY <1>8, HasFew
<1>10. /\ completions' # <<>>
       /\ completions'[1].status = IF completions = <<>> THEN st ELSE completions[1].status
  BY <1>5, Reported DEF IInv
<1>11. /\ completions = <<>> => st # "UR_IO_PENDING"
       /\ st = "UR_SUCCESS" /\ completions = <<>> => fetch.state = "success"
  BY <1>4, <1>5, <1>7 DEF Fetched
<1>12. /\ told.noticed = 1 \/ told.stoodIn = 1
       /\ told.noticed \in {0, 1} /\ told.stoodIn \in {0, 1}
       /\ request.uploads /\ request.reports
  BY <1>2 DEF JInv, Upload, Telling
<1>13. Parts' /\ Stops' /\ Late'
  <2>1. OneWrite(tasks') /\ (Part1' <=> Part1)
    BY <1>3 DEF JInv, Parts, Part1
  <2> QED BY <1>2, <1>3, <1>9, <1>10, <1>11, <2>1, ReportParts DEF JInv, Part2
<1>14. Upload'
  BY <1>3, <1>4, <1>9, <1>12 DEF JInv, Upload, Telling, Ended
<1>15. Answer' /\ ContractStep
  BY <1>3, <1>4, <1>6, <1>7, <1>8, <1>10, <1>11, <1>12, ReportAnswer DEF JInv
<1> QED BY <1>13, <1>14, <1>15 DEF JInv

(* The fetcher is deleted.                                                 *)
LEMMA StopParts ==
  ASSUME IInv, JInv, fetcher = "live", DeleteFetcher, UNCHANGED <<tasks, fetch, told>>,
         Part2' <=> Part2, completions' # <<>>,
         \/ completions # <<>> /\ completions'[1].status = completions[1].status
         \/ completions = <<>> /\ completions'[1].status = "UR_CANCELED"
  PROVE  Parts' /\ Stops' /\ Late'
<1>1. ioTasks' = Append(ioTasks, "Stop") /\ fetcher' = "deleted"
  BY DEF DeleteFetcher
<1>2. \/ ioTasks = <<>> /\ ioTasks' = <<"Stop">>
      \/ ioTasks = <<"Continue">> /\ ioTasks' = <<"Continue", "Stop">>
  <2>1. ioTasks = <<>> \/ ioTasks = <<"Continue">>
    BY DEF JInv, Stops
  <2>2. CASE ioTasks = <<>>
    BY <1>1, <2>2
  <2>3. CASE ioTasks = <<"Continue">>
    <3> DEFINE s == Append(<<"Continue">>, "Stop")
               t == <<"Continue", "Stop">>
    <3>1. s \in Seq({"Continue", "Stop"}) /\ Len(s) = 2 /\ s[1] = "Continue" /\ s[2] = "Stop"
      OBVIOUS
    <3>2. t \in Seq({"Continue", "Stop"}) /\ Len(t) = 2 /\ t[1] = "Continue" /\ t[2] = "Stop"
      OBVIOUS
    <3>3. ioTasks' = s
      BY <1>1, <2>3
    <3> HIDE DEF s, t
    <3>4. \A i \in 1 .. 2 : s[i] = t[i]
      BY <3>1, <3>2
    <3>5. s = t
      BY <3>1, <3>2, <3>4
    <3> QED BY <2>3, <3>3, <3>5 DEF t
  <2> QED BY <2>1, <2>2, <2>3
<1>3. (Part3' <=> Part3) /\ (Part3 <=> ioTasks = <<"Continue">>)
  BY <1>2, HasFew DEF Part3
<1>4. ioTasks = <<"Continue">> => completions = <<>>
  BY <1>3 DEF JInv, Parts, Stops, IInv, Phases, Fetching, Ended
<1>5. Part1' <=> Part1
  BY DEF Part1
<1>6. Parts'
  BY <1>3, <1>5 DEF JInv, Parts
<1>7. Stops'
  BY <1>1, <1>2 DEF Stops
<1>8. Late'
  <2>1. Ended' <=> Ended
    BY DEF Ended
  <2> QED BY <1>2, <1>4, <1>5, <2>1 DEF JInv, Late
<1> QED BY <1>6, <1>7, <1>8

LEMMA CompletedMore ==
  ASSUME IInv, JInv, Completed
  PROVE  JInv' /\ ContractStep
<1>1. /\ UNCHANGED <<request, getting, tasks, status, response, fetch, completions, told,
                     got_upload_progress_complete, raced>>
      /\ url_request' = FALSE /\ DeleteFetcher /\ callbacks' = Tail(callbacks)
      /\ callbacks # <<>> /\ Head(callbacks) = "RequestComplete"
  BY DEF Completed, history
<1>2. fetcher \in {"live", "deleted"} /\ fetcher' = "deleted"
  BY <1>1 DEF DeleteFetcher, IInv, TypeOK, Phases, NotStarted
<1>3. \A x : x # "RequestComplete" => (Has(callbacks', x) <=> Has(callbacks, x))
  <2>1. \/ callbacks = <<"RequestComplete">> /\ callbacks' = <<>>
        \/ \E c \in Callback : callbacks = <<"RequestComplete", c>> /\ callbacks' = <<c>>
    <3>1. Nesting
      BY DEF IInv
    <3> QED BY <1>1, <3>1, Innermost, Zenon
  <2>2. CASE callbacks = <<"RequestComplete">> /\ callbacks' = <<>>
    BY <2>2, HasFew
  <2>3. ASSUME NEW c \in Callback, callbacks = <<"RequestComplete", c>>, callbacks' = <<c>>
        PROVE  \A x : x # "RequestComplete" => (Has(callbacks', x) <=> Has(callbacks, x))
    BY <2>3, HasFew
  <2> QED BY <2>1, <2>2, <2>3
<1>4. Has(callbacks, "RequestComplete")
  <2>1. callbacks \in Seq(Callback)
    BY DEF IInv, TypeOK
  <2> QED BY <1>1, <2>1, HasTail
<1>5. completions # <<>>
  BY <1>4 DEF JInv, Answer
<1>6. Parts' /\ Stops' /\ Late'
  <2>1. CASE fetcher = "live"
    BY <1>1, <1>3, <1>5, <2>1, StopParts DEF Part2
  <2>2. CASE fetcher = "deleted"
    <3>1. UNCHANGED <<fetcher, ioTasks>> /\ OneWrite(tasks') /\ (Part1' <=> Part1)
      BY <1>1, <2>2 DEF DeleteFetcher, JInv, Parts, Part1
    <3> QED BY <1>1, <1>3, <3>1, QuietParts DEF JInv, Part2
  <2> QED BY <1>2, <2>1, <2>2
<1>7. Upload'
  <2>1. (Telling' <=> Telling) /\ OneNotice(tasks') /\ (Ended' <=> Ended)
    BY <1>1, <1>3 DEF Telling, JInv, Upload, Ended
  <2> QED BY <1>1, <1>2, <2>1, QuietUpload DEF JInv
<1>8. Answer'
  BY <1>1, <1>5 DEF JInv, Answer
<1>9. ContractStep
  BY <1>1, <1>5 DEF JInv, Answer, Status, ContractStep, Contract!Next, Contract!StatusMove,
    Contract!AnswerMove, Contract!UploadMove, Contract!HoldMove
<1> QED BY <1>6, <1>7, <1>8, <1>9 DEF JInv

LEMMA CancelMore ==
  ASSUME IInv, JInv, Cancel
  PROVE  JInv' /\ ContractStep
<1>1. UNCHANGED <<request, getting, tasks, url_request, response, fetch,
                  got_upload_progress_complete, told>>
  BY DEF Cancel, contextVars, netVars, IInv, TypeOK
<1>2. CASE fetcher = "live"
  <2>1. /\ DeleteFetcher /\ fetcher' = "deleted"
        /\ Report("UR_CANCELED", callbacks) /\ raced' = (raced \/ Completing)
    BY <1>2 DEF Cancel, StopFetch, DeleteFetcher, ReportCanceled
  <2>2. callbacks' = <<"RequestComplete">> \o callbacks /\ status' = "UR_CANCELED"
    BY <2>1 DEF Report, Call
  <2>3. \A x : x # "RequestComplete" => (Has(callbacks', x) <=> Has(callbacks, x))
    <3>1. \/ callbacks = <<>> /\ callbacks' = <<"RequestComplete">>
          \/ \E c \in Callback : callbacks = <<c>> /\ callbacks' = <<"RequestComplete", c>>
      <4>1. <<"RequestComplete">> \o <<>> = <<"RequestComplete">>
        OBVIOUS
      <4>2. fetcher # "deleted"
        BY <1>2
      <4> QED BY <2>2, <4>1, <4>2, Pushed, Zenon DEF IInv, Nesting
    <3>2. CASE callbacks = <<>> /\ callbacks' = <<"RequestComplete">>
      BY <3>2, HasFew
    <3>3. ASSUME NEW c \in Callback, callbacks = <<c>>, callbacks' = <<"RequestComplete", c>>
          PROVE  \A x : x # "RequestComplete" => (Has(callbacks', x) <=> Has(callbacks, x))
      BY <3>3, HasFew
    <3> QED BY <3>1, <3>2, <3>3
  <2>4. /\ completions' # <<>>
        /\ completions'[1].status =
             IF completions = <<>> THEN "UR_CANCELED" ELSE completions[1].status
    BY <2>1, Reported DEF IInv, Status
  <2>5. Parts' /\ Stops' /\ Late'
    BY <1>1, <1>2, <2>1, <2>3, <2>4, StopParts DEF Part2
  <2>6. Upload'
    <3>1. (Telling' <=> Telling) /\ OneNotice(tasks') /\ (Ended' <=> Ended)
      BY <1>1, <2>3 DEF Telling, JInv, Upload, Ended
    <3> QED BY <1>1, <2>1, <3>1, QuietUpload DEF JInv
  <2>7. ~raced /\ (completions # <<>> => raced')
    <3>1. CASE completions = <<>>
      BY <1>2, <3>1 DEF IInv, Phases, Fetching
    <3>2. CASE completions # <<>>
      <4>1. callbacks = <<"RequestComplete">> /\ ~raced
        BY <1>2, <3>2 DEF IInv, Phases, Fetching
      <4>2. Has(callbacks, "RequestComplete")
        BY <4>1, HasFew
      <4> QED BY <2>1, <4>1, <4>2 DEF Completing
    <3> QED BY <3>1, <3>2
  <2>8. Answer'
    BY <2>1, <2>2, <2>4, <2>7 DEF JInv, Answer, Status
  <2>9. ContractStep
    BY <1>1, <2>2, <2>4, <2>7 DEF JInv, Answer, ContractStep, Contract!Next,
      Contract!StatusMove, Contract!AnswerMove, Contract!UploadMove, Contract!HoldMove,
      Contract!Final
  <2> QED BY <2>5, <2>6, <2>8, <2>9 DEF JInv
<1>3. CASE fetcher # "live"
  <2>1. UNCHANGED <<callbacks, fetcher, contextVars, netVars, completions, told, raced>>
    BY <1>3 DEF Cancel
  <2>2. JInv'
    BY <1>1, <2>1 DEF JInv, Parts, Stops, Late, Upload, Answer, Part1, Part2, Part3, Telling,
      Ended, contextVars, netVars
  <2>3. ContractStep
    BY <1>1, <2>1, QuietContract DEF contextVars
  <2> QED BY <2>2, <2>3
<1> QED BY <1>2, <1>3

-----------------------------------------------------------------------------
LEMMA DropMore ==
  ASSUME IInv, JInv, DropNotice
  PROVE  JInv' /\ ContractStep
<1>1. PICK t \in {"Upload", "UploadAll", "Download", "Fetched"} : Take(t)
  BY DEF DropNotice
<1>2. /\ tasks' = Tail(tasks)
      /\ UNCHANGED <<callbacks, fetcher, contextVars, netVars, history, request>>
  BY <1>1 DEF DropNotice, Take
<1>3. /\ OneWrite(tasks') /\ OneNotice(tasks') /\ (Part1' <=> Part1)
      /\ \A x : Has(tasks', x) => Has(tasks, x)
  BY <1>1, <1>2, RestIsLess
<1>4. (Part2' <=> Part2) /\ (Telling' <=> Telling) /\ (Ended' <=> Ended)
  BY <1>2 DEF Part2, Telling, Ended, netVars
<1>5. Parts' /\ Stops' /\ Late'
  BY <1>2, <1>3, <1>4, QuietParts DEF JInv, netVars, history
<1>6. Upload'
  BY <1>2, <1>3, <1>4, QuietUpload DEF JInv, netVars, history, contextVars
<1>7. Answer' /\ ContractStep
  BY <1>2, QuietAnswer, QuietContract DEF JInv, history, contextVars
<1> QED BY <1>5, <1>6, <1>7 DEF JInv

(* The client is told of progress from a task of the fetcher.              *)
LEMMA UploadMore ==
  ASSUME IInv, JInv, NEW t \in {"Upload", "UploadAll"}, OnURLFetchUploadProgress(t)
  PROVE  JInv' /\ ContractStep
<1>1. /\ Take(t) /\ tasks' = Tail(tasks) /\ fetcher = "live"
      /\ UNCHANGED <<request, fetcher, url_request, status, response, fetch, ioTasks,
                     completions, raced>>
  BY DEF OnURLFetchUploadProgress, Delegate, netVars, Take
<1>2. /\ OneWrite(tasks') /\ OneNotice(tasks') /\ (Part1' <=> Part1)
      /\ \A x : Has(tasks', x) => Has(tasks, x)
      /\ Has(tasks, t) /\ (t = "UploadAll" => ~Has(tasks', "UploadAll"))
      /\ callbacks = <<>>
  BY <1>1, RestIsLess, TakeMore
<1>3. \A x : ~Has(callbacks, x)
  BY <1>2, HasFew
<1>4. \A x : Has(callbacks', x) => x = "Progress"
  <2>1. callbacks' = <<>> \/ callbacks' = <<"Progress">>
    BY <1>2, CallAlone DEF OnURLFetchUploadProgress
  <2> QED BY <2>1, HasFew
<1>5. ~Telling /\ ~Telling' /\ (Part2' <=> Part2) /\ (Ended' <=> Ended)
  BY <1>1, <1>3, <1>4 DEF Telling, Part2, Ended
<1>6. completions = <<>>
  BY <1>1, <1>2, HasFew DEF IInv, Phases, Fetching
<1>7. told \in [noticed : Nat, stoodIn : Nat, late : Nat] /\ got_upload_progress_complete \in BOOLEAN
  BY DEF IInv, TypeOK
<1>8. CASE request.reports /\ t = "UploadAll"
  <2>1. told.noticed = 0 /\ request.uploads /\ fetch.sent = 2
    BY <1>1, <1>2, <1>8 DEF JInv, Upload
  <2>2. told' = [told EXCEPT !.noticed = @ + 1] /\ got_upload_progress_complete' = TRUE
    BY <1>8 DEF OnURLFetchUploadProgress, UploadIsAll
  <2>3. told'.noticed = 1 /\ told'.stoodIn = told.stoodIn /\ told'.late = told.late
    BY <1>7, <2>1, <2>2
  <2>4. Upload'
    BY <1>1, <1>2, <1>5, <1>8, <2>1, <2>2, <2>3 DEF JInv, Upload
  <2>5. Parts' /\ Stops' /\ Late'
    BY <1>1, <1>2, <1>5, <2>3, QuietParts DEF JInv
  <2>6. Answer' /\ ContractStep
    BY <1>1, <1>4, <1>6, <2>1, <2>3, QuietAnswer, QuietContract DEF JInv
  <2> QED BY <2>4, <2>5, <2>6 DEF JInv
<1>9. CASE ~(request.reports /\ t = "UploadAll")
  <2>1. told' = told /\ got_upload_progress_complete' = got_upload_progress_complete
    <3>1. CASE request.reports
      <4>1. t # "UploadAll"
        BY <1>9, <3>1
      <4>2. told' = [told EXCEPT !.noticed = @]
        BY <3>1, <4>1 DEF OnURLFetchUploadProgress
      <4>3. got_upload_progress_complete' = (got_upload_progress_complete \/ FALSE)
        BY <3>1, <4>1 DEF OnURLFetchUploadProgress, UploadIsAll
      <4> QED BY <1>7, <4>2, <4>3
    <3>2. CASE ~request.reports
      BY <3>2 DEF OnURLFetchUploadProgress
    <3> QED BY <3>1, <3>2
  <2>2. Parts' /\ Stops' /\ Late'
    BY <1>1, <1>2, <1>5, <2>1, QuietParts DEF JInv
  <2>3. Upload'
    BY <1>1, <1>2, <1>5, <2>1, QuietUpload DEF JInv
  <2>4. Answer' /\ ContractStep
    BY <1>1, <1>4, <2>1, QuietAnswer, QuietContract DEF JInv
  <2> QED BY <2>2, <2>3, <2>4 DEF JInv
<1> QED BY <1>8, <1>9

LEMMA DownloadMore ==
  ASSUME IInv, JInv, OnURLFetchDownloadProgress
  PROVE  JInv' /\ ContractStep
<1>1. /\ Take("Download") /\ tasks' = Tail(tasks) /\ fetcher = "live"
      /\ UNCHANGED <<request, fetcher, url_request, status, got_upload_progress_complete, fetch,
                     ioTasks, completions, raced>>
  BY DEF OnURLFetchDownloadProgress, Delegate, netVars, Take
<1>2. /\ OneWrite(tasks') /\ OneNotice(tasks') /\ (Part1' <=> Part1)
      /\ \A x : Has(tasks', x) => Has(tasks, x)
      /\ callbacks = <<>>
  BY <1>1, RestIsLess, TakeMore
<1>3. \A x : ~Has(callbacks, x)
  BY <1>2, HasFew
<1>4. completions = <<>>
  BY <1>1, <1>2, HasFew DEF IInv, Phases, Fetching
<1>5. told \in [noticed : Nat, stoodIn : Nat, late : Nat]
  BY DEF IInv, TypeOK
<1>6. CASE UploadUntold
  <2>1. callbacks' = <<"UploadInDownload">> /\ told' = [told EXCEPT !.stoodIn = @ + 1]
    BY <1>6, CallAlone DEF OnURLFetchDownloadProgress
  <2>2. \A x : Has(callbacks', x) <=> x = "UploadInDownload"
    BY <2>1, HasFew
  <2>3. /\ told.noticed = 0 /\ told.stoodIn = 0 /\ told'.late = told.late
        /\ told'.noticed = 0 /\ told'.stoodIn = 1
    BY <1>3, <1>5, <1>6, <2>1 DEF JInv, Upload, Telling, UploadUntold
  <2>4. Upload'
    BY <1>1, <1>2, <1>4, <1>6, <2>2, <2>3 DEF JInv, Upload, Telling, UploadUntold
  <2>5. Parts' /\ Stops' /\ Late'
    BY <1>1, <1>2, <1>3, <2>2, <2>3, QuietParts DEF JInv, Part2
  <2>6. Answer' /\ ContractStep
    BY <1>1, <1>4, <2>2, <2>3, QuietAnswer, QuietContract DEF JInv
  <2> QED BY <2>4, <2>5, <2>6 DEF JInv
<1>7. CASE ~UploadUntold
  <2>1. callbacks' = <<"Progress">> /\ told' = told
    BY <1>7, CallAlone DEF OnURLFetchDownloadProgress
  <2>2. \A x : Has(callbacks', x) <=> x = "Progress"
    BY <2>1, HasFew
  <2>3. (Telling' <=> Telling) /\ (Part2' <=> Part2) /\ (Ended' <=> Ended)
    BY <1>1, <1>3, <2>2 DEF Telling, Part2, Ended
  <2>4. Parts' /\ Stops' /\ Late'
    BY <1>1, <1>2, <2>1, <2>3, QuietParts DEF JInv
  <2>5. Upload'
    BY <1>1, <1>2, <2>1, <2>3, QuietUpload DEF JInv
  <2>6. Answer' /\ ContractStep
    BY <1>1, <2>1, <2>2, QuietAnswer, QuietContract DEF JInv
  <2> QED BY <2>4, <2>5, <2>6 DEF JInv
<1> QED BY <1>6, <1>7

LEMMA DownloadAfterUploadMore ==
  ASSUME IInv, JInv, DownloadAfterUpload
  PROVE  JInv' /\ ContractStep
<1>1. /\ callbacks # <<>> /\ Head(callbacks) = "UploadInDownload"
      /\ Call("Progress", Tail(callbacks)) /\ got_upload_progress_complete' = TRUE
      /\ UNCHANGED <<request, getting, tasks, fetcher, url_request, status, response, netVars,
                     history>>
  BY DEF DownloadAfterUpload
<1>2. callbacks = <<"UploadInDownload">> /\ Tail(callbacks) = <<>>
  BY <1>1, Innermost DEF IInv
<1>3. /\ \A x : Has(callbacks, x) <=> x = "UploadInDownload"
      /\ \A x : Has(callbacks', x) <=> x = "Progress"
  BY <1>1, <1>2, CallAlone, HasFew
<1>4. (Part1' <=> Part1) /\ (Part2' <=> Part2) /\ OneWrite(tasks') /\ (Ended' <=> Ended)
  BY <1>1, <1>3 DEF Part1, Part2, JInv, Parts, Ended, netVars
<1>5. Parts' /\ Stops' /\ Late'
  BY <1>1, <1>4, QuietParts DEF JInv, netVars, history
<1>6. Upload'
  BY <1>1, <1>3, <1>4 DEF JInv, Upload, Telling, netVars, history
<1>7. Answer' /\ ContractStep
  BY <1>1, <1>3, QuietAnswer, QuietContract DEF JInv, history
<1> QED BY <1>5, <1>6, <1>7 DEF JInv

LEMMA ProgressReturnsMore ==
  ASSUME IInv, JInv, ProgressReturns
  PROVE  JInv' /\ ContractStep
<1>1. /\ callbacks # <<>> /\ Head(callbacks) = "Progress" /\ callbacks' = Tail(callbacks)
      /\ UNCHANGED <<request, getting, tasks, fetcher, contextVars, netVars, history>>
  BY DEF ProgressReturns
<1>2. callbacks = <<"Progress">> /\ Tail(callbacks) = <<>>
  BY <1>1, Innermost DEF IInv
<1>3. /\ \A x : Has(callbacks, x) <=> x = "Progress"
      /\ \A x : ~Has(callbacks', x)
  BY <1>1, <1>2, HasFew
<1>4. /\ (Part1' <=> Part1) /\ (Part2' <=> Part2) /\ (Telling' <=> Telling)
      /\ OneWrite(tasks') /\ OneNotice(tasks') /\ (Ended' <=> Ended)
  BY <1>1, <1>3 DEF Part1, Part2, Telling, JInv, Parts, Upload, Ended, netVars
<1>5. Parts' /\ Stops' /\ Late'
  BY <1>1, <1>4, QuietParts DEF JInv, netVars, history
<1>6. Upload'
  BY <1>1, <1>4, QuietUpload DEF JInv, netVars, history, contextVars
<1>7. Answer' /\ ContractStep
  BY <1>1, <1>3, QuietAnswer, QuietContract DEF JInv, history, contextVars
<1> QED BY <1>5, <1>6, <1>7 DEF JInv

(* The fetch is known to have ended.                                       *)
LEMMA FetchedMore ==
  ASSUME IInv, JInv, OnURLFetchComplete
  PROVE  JInv' /\ ContractStep
<1>1. /\ Take("Fetched") /\ tasks' = Append(Tail(tasks), "OnComplete")
      /\ UNCHANGED <<request, getting, callbacks, fetcher, contextVars, netVars, history>>
  BY DEF OnURLFetchComplete, CompletionTask, Take
<1>2. /\ Tail(tasks) \in Seq(Task) /\ OneWrite(Tail(tasks)) /\ OneNotice(Tail(tasks))
      /\ \A x : Has(tasks, x) <=> x = "Fetched" \/ Has(Tail(tasks), x)
  BY <1>1, TakeMore
<1>3. "OnComplete" \in Task
  BY DEF Task
<1>4. OneWrite(tasks') /\ OneNotice(tasks')
  <2>1. OneWrite(Append(Tail(tasks), "OnComplete")) /\ OneNotice(Append(Tail(tasks), "OnComplete"))
    BY <1>2, <1>3, OneWriteAppend, OneNoticeAppend
  <2> QED BY <1>1, <2>1
<1>5. \A x : Has(tasks', x) <=> Has(Tail(tasks), x) \/ "OnComplete" = x
  BY <1>1, <1>2, <1>3, HasAppend
<1>6. (Part1' <=> Part1) /\ (Part2' <=> Part2) /\ (Telling' <=> Telling) /\ (Ended' <=> Ended)
  BY <1>1, <1>2, <1>5 DEF Part1, Part2, Telling, Ended, netVars
<1>7. Parts' /\ Stops' /\ Late'
  BY <1>1, <1>4, <1>6, QuietParts DEF JInv, netVars, history
<1>8. Upload'
  BY <1>1, <1>2, <1>4, <1>5, <1>6, QuietUpload DEF JInv, netVars, history, contextVars
<1>9. Answer' /\ ContractStep
  BY <1>1, QuietAnswer, QuietContract DEF JInv, history, contextVars
<1> QED BY <1>7, <1>8, <1>9 DEF JInv

-----------------------------------------------------------------------------
(* A part of the response reaches the client ...                           *)
LEMMA WriteMore ==
  ASSUME IInv, JInv, WriteOnClientThread
  PROVE  JInv' /\ ContractStep
<1>1. /\ Take("Write") /\ tasks' = Tail(tasks) /\ callbacks' = <<"DownloadData">>
      /\ UNCHANGED <<request, fetcher, contextVars, netVars, completions, raced>>
      /\ told' = [told EXCEPT !.late = IF completions # <<>> THEN @ + 1 ELSE @]
  BY CallAlone DEF WriteOnClientThread, Take
<1>2. /\ OneWrite(tasks') /\ OneNotice(tasks') /\ callbacks = <<>>
      /\ Part1 /\ ~Part1'
      /\ \A x : Has(tasks', x) => Has(tasks, x)
  BY <1>1, RestIsLess, TakeMore DEF Part1
<1>3. /\ \A x : ~Has(callbacks, x)
      /\ \A x : Has(callbacks', x) <=> x = "DownloadData"
  BY <1>1, <1>2, HasFew
<1>4. ~Part2 /\ ~Part3 /\ fetch.state \in {"writing", "stopped"} /\ told.late = 0
  BY <1>2 DEF JInv, Parts, Late
<1>5. /\ told'.noticed = told.noticed /\ told'.stoodIn = told.stoodIn
      /\ told'.late = IF completions # <<>> THEN 1 ELSE 0
  BY <1>1, <1>4 DEF IInv, TypeOK
<1>6. Part2' /\ ~Part3' /\ (Telling' <=> Telling) /\ (Ended' <=> Ended)
  BY <1>1, <1>3, <1>4 DEF Part2, Part3, Telling, Ended, netVars
<1>7. Parts' /\ Stops'
  BY <1>1, <1>2, <1>4, <1>6 DEF JInv, Parts, Stops, netVars
<1>8. ioTasks # <<"Continue", "Stop">>
  BY <1>4, HasFew DEF Part3
<1>9. Late'
  BY <1>1, <1>2, <1>4, <1>5, <1>8 DEF JInv, Late, netVars
<1>10. Upload'
  BY <1>1, <1>2, <1>5, <1>6, QuietUpload DEF JInv, netVars, contextVars
<1>11. Answer' /\ ContractStep
  BY <1>1, <1>3, <1>5, QuietAnswer, QuietContract DEF JInv, contextVars
<1> QED BY <1>7, <1>9, <1>10, <1>11 DEF JInv

(* ... and is acknowledged.                                                *)
LEMMA DownloadDataReturnsMore ==
  ASSUME IInv, JInv, DownloadDataReturns
  PROVE  JInv' /\ ContractStep
<1>1. /\ callbacks # <<>> /\ Head(callbacks) = "DownloadData" /\ callbacks' = Tail(callbacks)
      /\ ioTasks' = Append(ioTasks, "Continue")
      /\ UNCHANGED <<request, getting, tasks, fetcher, contextVars, fetch, history>>
  BY DEF DownloadDataReturns
<1>2. callbacks = <<"DownloadData">> /\ Tail(callbacks) = <<>>
  BY <1>1, Innermost DEF IInv
<1>3. /\ \A x : Has(callbacks, x) <=> x = "DownloadData"
      /\ \A x : ~Has(callbacks', x)
  BY <1>1, <1>2, HasFew
<1>4. Part2 /\ ~Part2' /\ ~Part1 /\ ~Part3 /\ (Part1' <=> Part1)
      /\ fetch.state \in {"writing", "stopped"}
  BY <1>1, <1>3 DEF Part1, Part2, JInv, Parts
<1>5. \/ ioTasks = <<>> /\ ioTasks' = <<"Continue">>
      \/ ioTasks = <<"Stop">> /\ ioTasks' = <<"Stop", "Continue">>
  <2>1. ioTasks = <<>> \/ ioTasks = <<"Stop">>
    BY <1>4, HasFew DEF JInv, Stops, Part3
  <2>2. CASE ioTasks = <<>>
    BY <1>1, <2>2
  <2>3. CASE ioTasks = <<"Stop">>
    <3> DEFINE s == Append(<<"Stop">>, "Continue")
               t == <<"Stop", "Continue">>
    <3>1. s \in Seq({"Continue", "Stop"}) /\ Len(s) = 2 /\ s[1] = "Stop" /\ s[2] = "Continue"
      OBVIOUS
    <3>2. t \in Seq({"Continue", "Stop"}) /\ Len(t) = 2 /\ t[1] = "Stop" /\ t[2] = "Continue"
      OBVIOUS
    <3>3. ioTasks' = s
      BY <1>1, <2>3
    <3> HIDE DEF s, t
    <3>4. \A i \in 1 .. 2 : s[i] = t[i]
      BY <3>1, <3>2
    <3>5. s = t
      BY <3>1, <3>2, <3>4
    <3> QED BY <2>3, <3>3, <3>5 DEF t
  <2> QED BY <2>1, <2>2, <2>3
<1>6. Part3' /\ ioTasks' # <<"Continue", "Stop">>
  <2>1. <<"Stop", "Continue">> # <<"Continue", "Stop">>
    OBVIOUS
  <2> QED BY <1>5, <2>1, HasFew DEF Part3
<1>7. Parts'
  BY <1>1, <1>4, <1>6 DEF JInv, Parts
<1>8. Stops'
  BY <1>1, <1>5 DEF JInv, Stops
<1>9. Ended' <=> Ended
  BY <1>1 DEF Ended
<1>10. Late'
  BY <1>1, <1>4, <1>6, <1>9 DEF JInv, Late, history
<1>11. (Telling' <=> Telling) /\ OneNotice(tasks')
  BY <1>1, <1>3 DEF Telling, JInv, Upload
<1>12. Upload'
  BY <1>1, <1>9, <1>11, QuietUpload DEF JInv, history, contextVars
<1>13. Answer' /\ ContractStep
  BY <1>1, <1>3, QuietAnswer, QuietContract DEF JInv, history, contextVars
<1> QED BY <1>7, <1>8, <1>10, <1>12, <1>13 DEF JInv

-----------------------------------------------------------------------------
(* The steps of the fetch itself, which the client does not see.           *)
LEMMA Unseen ==
  ASSUME JInv, FetchStep
  PROVE  /\ Answer' /\ ContractStep /\ (Part2' <=> Part2) /\ (Telling' <=> Telling)
         /\ UNCHANGED <<request, callbacks, fetcher, got_upload_progress_complete, completions,
                        told>>
<1>1. UNCHANGED <<request, callbacks, fetcher, url_request, status, completions, told, raced,
                  got_upload_progress_complete>>
  BY DEF FetchStep, contextVars, history
<1> QED BY <1>1, QuietAnswer, QuietContract DEF JInv, Part2, Telling

LEMMA FetchUploadsMore ==
  ASSUME IInv, JInv, FetchUploads
  PROVE  JInv' /\ ContractStep
<1>1. PICK n \in {1, 2} :
         /\ n > fetch.sent
         /\ fetch' = [fetch EXCEPT !.sent = n]
         /\ tasks' = Append(tasks, IF n = 2 THEN "UploadAll" ELSE "Upload")
  BY DEF FetchUploads
<1>2. PICK x \in {"UploadAll", "Upload"} :
         tasks' = Append(tasks, x) /\ (x = "UploadAll" <=> n = 2)
  BY <1>1
<1>3. /\ FetchStep /\ fetch.state \in {"reading", "writing"} /\ request.uploads
      /\ UNCHANGED ioTasks
  BY DEF FetchUploads
<1>4. fetch'.state = fetch.state /\ fetch'.sent = n /\ fetch.sent # 2 /\ n # 0
  BY <1>1, <1>3 DEF IInv, TypeOK, Fetch
<1>5. told.noticed = 0 /\ ~Has(tasks, "UploadAll")
  BY <1>4 DEF JInv, Upload
<1>6. tasks \in Seq(Task) /\ x \in Task
  BY DEF IInv, TypeOK, Task
<1>7. \A y : Has(tasks', y) <=> Has(tasks, y) \/ x = y
  BY <1>2, <1>6, HasAppend
<1>8. OneWrite(tasks') /\ OneNotice(tasks')
  <2>1. OneWrite(Append(tasks, x)) /\ OneNotice(Append(tasks, x))
    BY <1>5, <1>6, OneWriteAppend, OneNoticeAppend DEF JInv, Parts, Upload
  <2> QED BY <1>2, <2>1
<1>9. Part1' <=> Part1
  BY <1>7 DEF Part1
<1>10. Parts' /\ Stops' /\ Late'
  BY <1>3, <1>4, <1>8, <1>9, Unseen, QuietParts DEF JInv
<1>11. Upload'
  BY <1>2, <1>3, <1>4, <1>5, <1>7, <1>8, Unseen DEF JInv, Upload
<1> QED BY <1>3, <1>10, <1>11, Unseen DEF JInv

LEMMA FetchReadsMore ==
  ASSUME IInv, JInv, FetchReads
  PROVE  JInv' /\ ContractStep
<1> DEFINE first == Append(tasks, "Download")
<1>1. /\ FetchStep /\ fetch.state = "reading" /\ UNCHANGED ioTasks
      /\ fetch' = [fetch EXCEPT !.read = @ + 1,
                                !.state = IF request.data THEN "writing" ELSE "reading"]
      /\ tasks' = IF request.data THEN Append(first, "Write") ELSE first
  BY DEF FetchReads, WritePending
<1>2. /\ fetch'.state = IF request.data THEN "writing" ELSE "reading"
      /\ fetch'.read # 0 /\ fetch'.sent = fetch.sent
  BY <1>1 DEF IInv, TypeOK, Fetch
<1>3. ~Ended /\ ~Ended' /\ fetcher # "none"
  BY <1>1, <1>2, UnderWay DEF Ended
<1>4. ~Part1 /\ ~Part2 /\ ~Part3 /\ told.late = 0
  BY <1>1 DEF JInv, Parts, Late
<1>5. /\ tasks \in Seq(Task) /\ "Download" \in Task /\ "Write" \in Task
      /\ OneWrite(tasks) /\ OneNotice(tasks)
  BY DEF IInv, TypeOK, Task, JInv, Parts, Upload
<1>6. /\ first \in Seq(Task) /\ OneWrite(first) /\ OneNotice(first)
      /\ \A y : Has(first, y) <=> Has(tasks, y) \/ "Download" = y
  <2>1. first \in Seq(Task)
    BY <1>5
  <2> QED BY <1>5, <2>1, HasAppend, OneWriteAppend, OneNoticeAppend
<1> HIDE DEF first
<1>7. /\ OneWrite(tasks') /\ OneNotice(tasks') /\ (Part1' <=> request.data)
      /\ Has(tasks', "UploadAll") => Has(tasks, "UploadAll")
  <2>1. CASE request.data
    <3>1. ~Has(first, "Write")
      BY <1>4, <1>6 DEF Part1
    <3>2. OneWrite(Append(first, "Write")) /\ OneNotice(Append(first, "Write"))
      BY <1>5, <1>6, <3>1, OneWriteAppend, OneNoticeAppend
    <3>3. tasks' = Append(first, "Write")
      BY <1>1, <2>1
    <3>4. \A y : Has(tasks', y) <=> Has(first, y) \/ "Write" = y
      BY <1>5, <1>6, <3>3, HasAppend
    <3> QED BY <1>6, <2>1, <3>2, <3>3, <3>4 DEF Part1
  <2>2. CASE ~request.data
    BY <1>1, <1>4, <1>6, <2>2 DEF Part1
  <2> QED BY <2>1, <2>2
<1>8. ~Part2' /\ ~Part3'
  BY <1>1, <1>4, Unseen DEF Part3
<1>9. Parts' /\ Stops'
  BY <1>1, <1>2, <1>7, <1>8, Unseen DEF JInv, Parts, Stops
<1>10. Late'
  BY <1>1, <1>3, <1>4, Unseen DEF JInv, Late
<1>11. Upload'
  BY <1>1, <1>2, <1>3, <1>7, Unseen DEF JInv, Upload
<1> QED BY <1>1, <1>9, <1>10, <1>11, Unseen DEF JInv

LEMMA FetchEndsMore ==
  ASSUME IInv, JInv, FetchEnds
  PROVE  JInv' /\ ContractStep
<1>1. /\ FetchStep /\ fetch.state = "reading" /\ UNCHANGED ioTasks
      /\ tasks' = Append(tasks, "Fetched")
  BY DEF FetchEnds
<1>2. PICK s \in {"success", "failed"} : fetch' = [fetch EXCEPT !.state = s]
  BY DEF FetchEnds
<1>3. fetch'.state = s /\ fetch'.read = fetch.read /\ fetch'.sent = fetch.sent
  BY <1>2 DEF IInv, TypeOK, Fetch
<1>4. ~Ended /\ Ended' /\ fetcher # "none"
  BY <1>1, <1>3, UnderWay DEF Ended
<1>5. ~Part1 /\ ~Part2 /\ ~Part3 /\ told.late = 0
  BY <1>1 DEF JInv, Parts, Late
<1>6. tasks \in Seq(Task) /\ "Fetched" \in Task
  BY DEF IInv, TypeOK, Task
<1>7. \A y : Has(tasks', y) <=> Has(tasks, y) \/ "Fetched" = y
  BY <1>1, <1>6, HasAppend
<1>8. OneWrite(tasks') /\ OneNotice(tasks')
  <2>1. OneWrite(Append(tasks, "Fetched")) /\ OneNotice(Append(tasks, "Fetched"))
    BY <1>6, OneWriteAppend, OneNoticeAppend DEF JInv, Parts, Upload
  <2> QED BY <1>1, <2>1
<1>9. ~Part1' /\ ~Part2' /\ ~Part3'
  BY <1>1, <1>5, <1>7, Unseen DEF Part1, Part3
<1>10. Parts' /\ Stops'
  BY <1>1, <1>3, <1>8, <1>9, Unseen DEF JInv, Parts, Stops
<1>11. Late'
  BY <1>1, <1>4, <1>5, Unseen DEF JInv, Late
<1>12. Upload'
  BY <1>1, <1>3, <1>4, <1>7, <1>8, Unseen, QuietUpload DEF JInv
<1> QED BY <1>1, <1>10, <1>11, <1>12, Unseen DEF JInv

LEMMA RunIoTaskMore ==
  ASSUME IInv, JInv, RunIoTask
  PROVE  JInv' /\ ContractStep
<1>1. FetchStep /\ UNCHANGED tasks /\ ioTasks # <<>> /\ ioTasks' = Tail(ioTasks)
  BY DEF RunIoTask
<1>2. /\ fetch'.state = IF Head(ioTasks) = "Stop" THEN "stopped"
                        ELSE IF Head(ioTasks) = "Continue" /\ fetch.state = "writing"
                        THEN "reading" ELSE fetch.state
      /\ fetch'.read = fetch.read /\ fetch'.sent = fetch.sent
  <2>1. PICK s : /\ fetch' = [fetch EXCEPT !.state = s]
                 /\ s = IF Head(ioTasks) = "Stop" THEN "stopped"
                        ELSE IF Head(ioTasks) = "Continue" /\ fetch.state = "writing"
                        THEN "reading" ELSE fetch.state
    <3>1. CASE Head(ioTasks) = "Stop"
      BY <3>1 DEF RunIoTask
    <3>2. CASE Head(ioTasks) # "Stop" /\ Head(ioTasks) = "Continue" /\ fetch.state = "writing"
      BY <3>2 DEF RunIoTask
    <3>3. CASE Head(ioTasks) # "Stop" /\ ~(Head(ioTasks) = "Continue" /\ fetch.state = "writing")
      BY <3>3 DEF RunIoTask
    <3> QED BY <3>1, <3>2, <3>3
  <2> QED BY <2>1 DEF IInv, TypeOK, Fetch
<1>3. /\ OneWrite(tasks') /\ OneNotice(tasks') /\ (Part1' <=> Part1)
      /\ fetcher \in {"live", "deleted"}
  BY <1>1 DEF JInv, Parts, Upload, Part1, IInv, TypeOK, Phases, NotStarted
<1>4. Parts' /\ Stops' /\ Late' /\ (Ended => Ended')
  <2>1. CASE ioTasks = <<"Continue">>
    <3>1. ioTasks' = <<>> /\ Head(ioTasks) = "Continue"
      BY <1>1, <2>1
    <3>2. Part3 /\ ~Part3'
      BY <2>1, <3>1, HasFew DEF Part3
    <3>3. ~Part1 /\ ~Part2
      BY <3>2 DEF JInv, Parts
    <3>4. \/ fetcher = "deleted" /\ fetch.state = "stopped" /\ fetch'.state = "stopped"
          \/ fetcher = "live" /\ fetch.state = "writing" /\ fetch'.state = "reading"
      BY <1>2, <1>3, <2>1, <3>1, <3>2 DEF JInv, Parts, Stops
    <3>5. fetch.state = "writing" => completions = <<>> /\ told.late = 0
      BY <3>4 DEF IInv, Phases, Fetching, Ended, JInv, Late
    <3>6. Parts' /\ Stops'
      BY <1>3, <3>1, <3>2, <3>3, <3>4, <1>1, Unseen DEF JInv, Parts, Stops
    <3>7. (Ended => Ended') /\ Late'
      BY <1>1, <1>3, <3>1, <3>3, <3>4, <3>5, Unseen DEF JInv, Late, Ended
    <3> QED BY <3>6, <3>7
  <2>2. CASE ioTasks = <<"Stop">>
    <3>1. ioTasks' = <<>> /\ fetch'.state = "stopped" /\ ~Part3 /\ ~Part3'
      BY <1>1, <1>2, <2>2, HasFew DEF Part3
    <3> QED BY <1>1, <1>3, <2>2, <3>1, Unseen DEF JInv, Parts, Stops, Late, Ended
  <2>3. CASE ioTasks = <<"Continue", "Stop">>
    <3>1. ioTasks' = <<"Stop">> /\ Head(ioTasks) = "Continue"
      BY <1>1, <2>3
    <3>2. Part3 /\ ~Part3' /\ told.late = 0
      BY <2>3, <3>1, HasFew DEF Part3, JInv, Late
    <3>3. ~Part1 /\ ~Part2 /\ fetch.state \in {"writing", "stopped"}
      BY <3>2 DEF JInv, Parts
    <3>4. /\ fetch.state = "stopped" => fetch'.state = "stopped"
          /\ fetch'.state \in {"reading", "stopped"}
      BY <1>2, <3>1, <3>3
    <3>5. fetcher = "deleted"
      BY <1>3, <2>3 DEF JInv, Stops
    <3>6. Parts'
      BY <1>1, <1>3, <3>2, <3>3, <3>4, Unseen DEF JInv, Parts
    <3>7. ioTasks' \notin {<<>>, <<"Continue">>, <<"Continue", "Stop">>}
      BY <3>1
    <3>8. Stops'
      BY <1>1, <3>1, <3>5, <3>7, Unseen DEF Stops
    <3>9. (Ended => Ended') /\ Late'
      BY <1>1, <1>3, <3>2, <3>3, <3>4, <3>7, Unseen DEF JInv, Late, Ended
    <3> QED BY <3>6, <3>8, <3>9
  <2>4. CASE ioTasks = <<"Stop", "Continue">>
    <3>1. ioTasks' = <<"Continue">> /\ fetch'.state = "stopped"
      BY <1>1, <1>2, <2>4
    <3>2. Part3 /\ Part3'
      BY <2>4, <3>1, HasFew DEF Part3
    <3>3. fetcher = "deleted"
      BY <1>3, <2>4 DEF JInv, Stops
    <3>4. ~Part1 /\ ~Part2
      BY <3>2 DEF JInv, Parts
    <3>5. Parts' /\ Stops'
      BY <1>1, <1>3, <3>1, <3>2, <3>3, <3>4, Unseen DEF JInv, Parts, Stops
    <3>6. ioTasks' # <<"Continue", "Stop">> /\ fetch'.state # "reading"
      BY <3>1
    <3>7. (Ended => Ended') /\ Late'
      BY <1>1, <1>3, <3>1, <3>4, <3>6, Unseen DEF JInv, Late, Ended
    <3> QED BY <3>5, <3>7
  <2> QED BY <1>1, <2>1, <2>2, <2>3, <2>4 DEF JInv, Stops
<1>5. Upload'
  BY <1>1, <1>2, <1>3, <1>4, Unseen, QuietUpload DEF JInv
<1> QED BY <1>1, <1>4, <1>5, Unseen DEF JInv

-----------------------------------------------------------------------------
LEMMA InitMore ==
  Init => JInv /\ Contract!Init
<1> SUFFICES ASSUME Init PROVE JInv /\ Contract!Init
  OBVIOUS
<1>1. \A x : ~Has(tasks, x) /\ ~Has(callbacks, x) /\ ~Has(ioTasks, x)
  BY HasFew DEF Init
<1>2. Parts /\ Stops /\ Late
  BY <1>1 DEF Init, Parts, Stops, Late, OneWrite, Part1, Part2, Part3
<1>3. Upload /\ Answer
  BY <1>1 DEF Init, Upload, Answer, OneNotice, Telling
<1>4. Contract!Init
  <2>1. request.uploads \in BOOLEAN /\ request.reports \in BOOLEAN
    BY DEF Init, Request
  <2> QED BY <2>1 DEF Init, Contract!Init
<1> QED BY <1>2, <1>3, <1>4 DEF JInv

LEMMA StutterMore ==
  ASSUME IInv, JInv, UNCHANGED vars
  PROVE  JInv' /\ ContractStep
<1>1. UNCHANGED <<request, getting, tasks, callbacks, fetcher, url_request, status, response,
                  got_upload_progress_complete, fetch, ioTasks, completions, told, raced>>
  BY DEF vars, contextVars, netVars, history
<1>2. JInv'
  BY <1>1 DEF JInv, Parts, Stops, Late, Upload, Answer, Part1, Part2, Part3, Telling, Ended
<1> QED BY <1>1, <1>2, QuietContract

(* Every step keeps the invariant, and is one of the contract.             *)
LEMMA NextMore ==
  ASSUME IInv, JInv, [Next]_vars
  PROVE  JInv' /\ ContractStep
<1>1. CASE ThreadStep
  BY <1>1, ContinueMore, OnCompleteMore, CompleteAfterUploadMore, CompletedMore, DropMore,
     UploadMore, DownloadMore, DownloadAfterUploadMore, ProgressReturnsMore, FetchedMore,
     WriteMore, DownloadDataReturnsMore
  DEF ThreadStep
<1> QED
  BY <1>1, GetRequestContextMore, CancelMore, FetchUploadsMore, FetchReadsMore, FetchEndsMore,
     RunIoTaskMore, StutterMore
  DEF Next

LEMMA InductiveMore ==
  Spec => [](IInv /\ JInv)
<1>1. Init => IInv /\ JInv
  BY InitHolds, InitMore
<1>2. IInv /\ JInv /\ [Next]_vars => (IInv /\ JInv)'
  BY NextStep, NextMore
<1> QED BY <1>1, <1>2, PTL DEF Spec

(* At most one part of the response reaches the client after a completion, *)
(* and none after a success, for every number of parts: the writer waits   *)
(* for the client's return before the fetcher reads on.                    *)
THEOREM LateDataIsBounded == Spec => []LateDataBounded
<1>1. JInv => LateDataBounded
  BY DEF JInv, Late, LateDataBounded
<1> QED BY <1>1, InductiveMore, PTL

(* The client of a request of the browser process sees what the contract   *)
(* promises, the first completion standing for the answer where a Cancel   *)
(* caused another one.                                                     *)
THEOREM RequestKeepsContract == Spec => KeepsContract
<1>1. Init => Contract!Init
  BY InitMore
<1>2. IInv /\ JInv /\ [Next]_vars =>
        [Contract!Next]_<<IF raced THEN completions[1].status ELSE status,
                          IF completions = <<>> THEN "none" ELSE completions[1].status,
                          request.uploads /\ request.reports, told.noticed, told.stoodIn, url_request>>
  BY NextMore DEF ContractStep
<1> QED BY <1>1, <1>2, InductiveMore, PTL DEF Spec, KeepsContract, Contract!Spec
=============================================================================
