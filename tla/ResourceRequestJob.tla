-------------------------- MODULE ResourceRequestJob --------------------------
(***************************************************************************)
(* A request that the application answers with a CefResourceHandler        *)
(* (libcef/browser/resource_request_job.cc).  The job lives on the IO      *)
(* thread.  The handler continues or cancels it through the callbacks it   *)
(* was given, from any thread and at any time, which posts a task to the   *)
(* IO thread.  The owner of the net::URLRequest starts the job, reads from *)
(* it, and may cancel or destroy the request whenever it likes; redirects  *)
(* destroy the job too.                                                    *)
(*                                                                         *)
(* There are two callbacks: the one ProcessRequest was called with         *)
(* ("headers") and the one every ReadResponse is called with ("bytes").    *)
(***************************************************************************)
EXTENDS Integers, Sequences

CONSTANTS
  MaxBytes,     \* bound: the bytes of a response
  BufSize,      \* the bytes the owner of the request reads at once
  MaxCookies,   \* bound: cookies in a response
  MaxTasks      \* bound: tasks waiting when the handler posts another one

ASSUME SizeAssumption == MaxBytes \in Nat /\ BufSize \in Nat \ {0}
ASSUME CookieAssumption == MaxCookies \in Nat
ASSUME TaskAssumption == MaxTasks \in Nat

VARIABLES
  request,      \* the net::URLRequest and, with it, the job
  status,       \* request_->status()
  is_done,      \* URLRequestJob::is_done()
  response_started,   \* has_response_started()
  stage,        \* what the job waits for
  cookies,      \* cookies of the response that are not saved yet
  callback,     \* callback_
  done,         \* done_
  remaining,    \* remaining_bytes_
  linked,       \* the callbacks whose job_ is set
  given,        \* the callbacks the handler has
  dest,         \* is dest_ of the callback for bytes set?
  tasks,        \* tasks posted to the IO thread
  reading,      \* does the owner of the request wait for a Read?
  told,         \* history: what the owner was told last
  canceled,     \* history: was the handler told that it is canceled?
  askedLate,    \* history: was it asked for anything after that?
  announced,    \* history: the response length, -1 if not known
  delivered     \* history: the bytes read

netVars == <<status, is_done, response_started>>
jobVars == <<stage, cookies, callback, done, remaining>>
callbackVars == <<linked, given, dest>>
ownerVars == <<request, reading, told>>
history == <<canceled, askedLate, announced, delivered>>
vars == <<netVars, jobVars, callbackVars, tasks, ownerVars, history>>

CallbackType == {"headers", "bytes"}

(* Continue and Cancel of a callback, and the end of NotifyDone, which     *)
(* URLRequestJob tells the request in a task of its own.                   *)
Task == [call : {"Continue", "Cancel"}, cb : CallbackType] \cup
        [call : {"CompleteNotifyDone"}, cb : {"none"}]

TypeOK ==
  /\ request \in {"live", "gone"}
  /\ status \in {"SUCCESS", "IO_PENDING", "CANCELED"}
  /\ is_done \in BOOLEAN
  /\ response_started \in BOOLEAN
  /\ stage \in {"new", "cookies", "loading", "processing", "saving", "responded"}
  /\ cookies \in 0 .. MaxCookies
  /\ callback \in CallbackType \cup {"none"}
  /\ done \in BOOLEAN
  /\ remaining \in -1 .. MaxBytes
  /\ linked \in SUBSET CallbackType
  /\ given \in SUBSET CallbackType
  /\ dest \in BOOLEAN
  /\ tasks \in Seq(Task)
  /\ reading \in BOOLEAN
  /\ told \in {"nothing", "started", "failed", "eof"}
  /\ canceled \in BOOLEAN /\ askedLate \in BOOLEAN
  /\ announced \in -1 .. MaxBytes
  /\ delivered \in Nat

Init ==
  /\ request = "live"
  /\ status = "SUCCESS" /\ is_done = FALSE /\ response_started = FALSE
  /\ stage = "new" /\ cookies = 0 /\ callback = "none"
  /\ done = FALSE /\ remaining = 0
  /\ linked = {} /\ given = {} /\ dest = FALSE
  /\ tasks = <<>>
  /\ reading = FALSE /\ told = "nothing"
  /\ canceled = FALSE /\ askedLate = FALSE
  /\ announced = 0 /\ delivered = 0

-----------------------------------------------------------------------------
(* URLRequestStatus::is_success().                                         *)
IsSuccess == status \in {"SUCCESS", "IO_PENDING"}

(* The handler is asked for something.                                     *)
Ask == askedLate' = (askedLate \/ canceled)

CompleteNotifyDone == [call |-> "CompleteNotifyDone", cb |-> "none"]

(* URLRequestJob::NotifyCanceled, while the tasks |waiting| wait: nothing  *)
(* if the job is done already.                                             *)
NotifyCanceled(waiting) ==
  /\ is_done' = TRUE
  /\ status' = IF ~is_done /\ IsSuccess THEN "CANCELED" ELSE status
  /\ tasks' = IF is_done THEN waiting ELSE Append(waiting, CompleteNotifyDone)

(* Mutant: Kill drops its callback without detaching it.                   *)
NoDetach == linked
Detach == linked \ {callback}

(* Kill, but for what the request is told.                                 *)
KillJob ==
  /\ canceled' = (canceled \/ ~done)
  /\ callback' = "none"
  /\ linked' = Detach

-----------------------------------------------------------------------------
(* StartTransaction: the handler takes the request, which is pending; or   *)
(* it refuses the request and uses its callback no more.                   *)
StartTransaction ==
  /\ callback' = "headers"
  /\ linked' = linked \cup {"headers"}
  /\ Ask
  /\ stage' = "processing"
  /\ \/ /\ given' = given \cup {"headers"}
        /\ status' = "IO_PENDING"
        /\ UNCHANGED <<is_done, tasks>>
     \/ /\ UNCHANGED given
        /\ NotifyCanceled(tasks)

(* Mutant: nobody looks whether the request was canceled meanwhile.        *)
StartAnyway == StartTransaction

(* DoStartTransaction: "We may have been canceled while retrieving         *)
(* cookies."                                                               *)
DoStartTransaction ==
  IF IsSuccess
  THEN StartTransaction
  ELSE /\ NotifyCanceled(tasks)
       /\ stage' = "responded"
       /\ UNCHANGED <<callback, linked, given, askedLate>>

StartStep == UNCHANGED <<response_started, cookies, done, remaining, dest, ownerVars,
                         canceled, announced, delivered>>

(* Start and AddCookieHeaderAndStart: ask the cookie monster for a list of *)
(* cookies, another cookie store for a line of them, or do not send any.   *)
Start ==
  /\ stage = "new"
  /\ StartStep
  /\ \/ /\ stage' \in {"cookies", "loading"}
        /\ status' = "IO_PENDING"
        /\ UNCHANGED <<is_done, callback, linked, given, tasks, askedLate>>
     \/ DoStartTransaction

(* CheckCookiePolicyAndLoad: the cookies are sent if the policy and the    *)
(* handler allow all of them.                                              *)
CheckCookiePolicyAndLoad ==
  /\ request = "live" /\ stage = "cookies"
  /\ StartStep
  /\ \/ /\ stage' = "loading"
        /\ UNCHANGED <<status, is_done, callback, linked, given, tasks, askedLate>>
     \/ DoStartTransaction

OnCookiesLoaded ==
  /\ request = "live" /\ stage = "loading"
  /\ StartStep
  /\ DoStartTransaction

-----------------------------------------------------------------------------
(* NotifyHeadersComplete, once the status says that nothing is pending.    *)
HeadersComplete ==
  /\ status' = "SUCCESS"
  /\ stage' = "responded"
  /\ cookies' = 0
  /\ response_started' = TRUE
  /\ told' = IF response_started THEN told ELSE "started"

(* SaveNextCookie: of the |n| cookies left, those the policy and the       *)
(* handler refuse are skipped.                                             *)
SaveNextCookie(n) ==
  \/ HeadersComplete
  \/ \E left \in 1 .. n :
       /\ stage' = "saving" /\ cookies' = left
       /\ status' = "IO_PENDING"
       /\ UNCHANGED <<response_started, told>>

(* SendHeaders and SaveCookiesAndNotifyHeadersComplete.  The callback is   *)
(* dropped here and detached by its task.                                  *)
SendHeaders ==
  /\ callback' = "none"
  /\ Ask
  /\ \E length \in -1 .. MaxBytes : remaining' = length /\ announced' = length
  /\ SaveNextCookie(MaxCookies)

NextCookieFollows == IsSuccess

(* OnCookieSaved and CookieHandled: "We may have been canceled within      *)
(* OnSetCookie."                                                           *)
OnCookieSaved ==
  /\ request = "live" /\ stage = "saving"
  /\ IF NextCookieFollows
     THEN SaveNextCookie(cookies - 1) /\ UNCHANGED <<is_done, tasks>>
     ELSE /\ NotifyCanceled(tasks)
          /\ stage' = "responded" /\ cookies' = 0
          /\ UNCHANGED <<response_started, told>>
  /\ UNCHANGED <<request, callback, done, remaining, callbackVars, reading, history>>

-----------------------------------------------------------------------------
(* ReadRawData asks the handler for bytes, with the callback for them.     *)
ReadResponse ==
  /\ remaining # 0
  /\ callback' = IF callback = "none" THEN "bytes" ELSE callback
  /\ linked' = linked \cup {callback'}
  /\ given' = given \cup {callback'}
  /\ Ask

(* ... nothing is left, or the handler has no more;                        *)
ReadEnds ==
  /\ done' = TRUE
  /\ \/ remaining = 0 /\ UNCHANGED <<callback, linked, given, askedLate>>
     \/ ReadResponse
  /\ UNCHANGED <<remaining, delivered>>

(* Mutant: more bytes than were asked for are counted.                     *)
AllBytes(n) == n

(* A handler that knows the size is asked for no more than what is left;   *)
(* one that returns more is corrected.                                     *)
Asked == IF remaining > 0 /\ remaining < BufSize THEN remaining ELSE BufSize
Normalized(n) == IF n > Asked THEN Asked ELSE n

(* ... it has some;                                                        *)
ReadGives ==
  /\ ReadResponse
  /\ \E n \in 1 .. MaxBytes + 1 :
       /\ delivered' = delivered + Normalized(n)
       /\ remaining' = IF remaining > 0 THEN remaining - Normalized(n) ELSE remaining
       /\ remaining = -1 => delivered' <= MaxBytes
  /\ UNCHANGED done

(* ... it will have some later.                                            *)
ReadWaits ==
  /\ ReadResponse
  /\ UNCHANGED <<done, remaining, delivered>>

(* The owner reads: URLRequest::Read of a request that is neither done nor *)
(* failed.                                                                 *)
Read ==
  /\ request = "live" /\ told = "started"
  /\ ~reading /\ ~is_done /\ status = "SUCCESS"
  /\ \/ /\ ReadEnds
        /\ told' = "eof" /\ is_done' = TRUE /\ tasks' = Append(tasks, CompleteNotifyDone)
        /\ UNCHANGED <<status, reading, dest>>
     \/ /\ ReadGives
        /\ UNCHANGED <<told, is_done, tasks, status, reading, dest>>
     \/ /\ ReadWaits
        /\ status' = "IO_PENDING" /\ reading' = TRUE /\ dest' = TRUE
        /\ UNCHANGED <<told, is_done, tasks>>
  /\ UNCHANGED <<request, response_started, stage, cookies, canceled, announced>>

-----------------------------------------------------------------------------
(* The handler calls Continue or Cancel of a callback it has.              *)
HandlerCalls(call, cb) ==
  /\ cb \in given /\ Len(tasks) < MaxTasks
  /\ tasks' = Append(tasks, [call |-> call, cb |-> cb])
  /\ UNCHANGED <<netVars, jobVars, callbackVars, ownerVars, history>>

(* The IO thread runs its next task.                                       *)
Take(call, cb) ==
  /\ tasks # <<>> /\ Head(tasks) = [call |-> call, cb |-> cb]
  /\ UNCHANGED request

(* "Return early if the callback has already been detached."               *)
RunDetached ==
  /\ \E call \in {"Continue", "Cancel"}, cb \in CallbackType \ linked : Take(call, cb)
  /\ tasks' = Tail(tasks)
  /\ UNCHANGED <<netVars, jobVars, callbackVars, reading, told, history>>

(* ContinueOnIOThread of the callback for headers, which is used once.     *)
ContinueHeaders ==
  /\ Take("Continue", "headers") /\ "headers" \in linked
  /\ tasks' = Tail(tasks)
  /\ linked' = linked \ {"headers"}
  /\ IF response_started
     THEN UNCHANGED <<status, response_started, stage, cookies, callback, remaining, told,
                      askedLate, announced>>
     ELSE SendHeaders
  /\ UNCHANGED <<is_done, done, given, dest, reading, canceled, delivered>>

(* Mutant: the destination is not cleared.                                 *)
KeepDestination == dest
ClearDestination == FALSE

ReadIsWaiting == response_started /\ status = "IO_PENDING"

(* ContinueOnIOThread of the callback for bytes: the read that waits is    *)
(* made again; otherwise nobody needs the bytes yet.                       *)
ContinueBytes ==
  /\ Take("Continue", "bytes") /\ "bytes" \in linked
  /\ tasks' = Tail(tasks)
  /\ IF ReadIsWaiting
     THEN \/ /\ ReadEnds \/ ReadGives
             /\ dest' = ClearDestination /\ status' = "SUCCESS" /\ reading' = FALSE
             /\ told' = IF done' THEN "eof" ELSE told
          \/ /\ ReadWaits
             /\ UNCHANGED <<dest, status, reading, told>>
     ELSE UNCHANGED <<status, callback, done, remaining, callbackVars, reading, told,
                      askedLate, delivered>>
  /\ UNCHANGED <<is_done, response_started, stage, cookies, canceled, announced>>

(* Mutant: Kill does not go on to URLRequestJob::Kill.                     *)
KillHandlerOnly(waiting) == tasks' = waiting /\ UNCHANGED <<is_done, status>>
KillRequest(waiting) == NotifyCanceled(waiting)

(* CancelOnIOThread.                                                       *)
CancelOnIOThread(cb) ==
  /\ Take("Cancel", cb) /\ cb \in linked
  /\ KillJob
  /\ KillRequest(Tail(tasks))
  /\ UNCHANGED <<response_started, stage, cookies, done, remaining, given, dest, reading, told,
                 askedLate, announced, delivered>>

(* The request that is still there is told that it failed.                 *)
RunCompleteNotifyDone ==
  /\ Take("CompleteNotifyDone", "none")
  /\ tasks' = Tail(tasks)
  /\ IF request = "live" /\ ~IsSuccess
     THEN response_started' = TRUE /\ told' = "failed" /\ reading' = FALSE
     ELSE UNCHANGED <<response_started, told, reading>>
  /\ UNCHANGED <<status, is_done, jobVars, callbackVars, history>>

RunTask ==
  \/ RunDetached
  \/ ContinueHeaders \/ ContinueBytes
  \/ \E cb \in CallbackType : CancelOnIOThread(cb)
  \/ RunCompleteNotifyDone

-----------------------------------------------------------------------------
(* The owner cancels a request of whose end it was not told.               *)
Cancel ==
  /\ request = "live" /\ stage # "new" /\ ~is_done /\ told \in {"nothing", "started"}
  /\ KillJob
  /\ KillRequest(tasks)
  /\ UNCHANGED <<request, response_started, stage, cookies, done, remaining, given, dest,
                 reading, told, askedLate, announced, delivered>>

(* ... or destroys it: the job is killed and deleted.                      *)
Destroy ==
  /\ request = "live" /\ stage # "new"
  /\ request' = "gone"
  /\ KillJob
  /\ status' = IF IsSuccess THEN "CANCELED" ELSE status
  /\ is_done' = TRUE
  /\ UNCHANGED <<response_started, stage, cookies, done, remaining, given, dest, tasks,
                 reading, told, askedLate, announced, delivered>>

-----------------------------------------------------------------------------
Next ==
  \/ Start \/ CheckCookiePolicyAndLoad \/ OnCookiesLoaded \/ OnCookieSaved
  \/ Read \/ Cancel \/ Destroy
  \/ \E call \in {"Continue", "Cancel"}, cb \in CallbackType : HandlerCalls(call, cb)
  \/ RunTask

Spec == Init /\ [][Next]_vars

(* The IO thread runs its tasks and the cookie store answers.  The handler *)
(* may never do anything.                                                  *)
FairSpec ==
  /\ Spec
  /\ WF_vars(Start) /\ WF_vars(RunTask)
  /\ WF_vars(CheckCookiePolicyAndLoad) /\ WF_vars(OnCookiesLoaded) /\ WF_vars(OnCookieSaved)

-----------------------------------------------------------------------------
(* A callback that can still reach the job is the one the job would detach *)
(* when it is killed, so none refers to a job that was deleted.            *)
NoDanglingCallback ==
  /\ linked \subseteq {callback}
  /\ request = "gone" => linked = {}

(* Continue finds the buffer of the read that waits, and the callback of a *)
(* waiting read reaches the job: no read can be forgotten, nor be answered *)
(* into the buffer of another one.                                         *)
WaitingReadIsKnown ==
  request = "live" /\ ~is_done =>
    /\ reading <=> response_started /\ status = "IO_PENDING"
    /\ reading <=> dest
    /\ reading => callback = "bytes" /\ linked = {"bytes"}

(* A handler that was told it is canceled is not asked for headers or      *)
(* bytes, nor offered the request (the job may still ask it about cookies).*)
LeftAloneOnceCanceled == ~askedLate

(* The owner gets no more bytes than the handler announced, whatever the   *)
(* handler returns.                                                        *)
LengthKept ==
  IF announced = -1 THEN remaining = -1
  ELSE remaining >= 0 /\ delivered + remaining = announced

(* A request that was canceled does not go on: "IO pending" or success     *)
(* never replace the status.                                               *)
CanceledStays == [][status = "CANCELED" => status' = "CANCELED"]_vars

(* A request that is canceled, by anybody, is told so: unless its owner    *)
(* destroys it, it hears of its end.                                       *)
CancelIsReported == canceled \/ status = "CANCELED" ~> told = "failed" \/ request = "gone"

(* A handler that continues its request has its response started, unless   *)
(* the request is canceled or destroyed first.                             *)
ContinueIsHeard ==
  (\E i \in DOMAIN tasks : tasks[i] = [call |-> "Continue", cb |-> "headers"])
    ~> told # "nothing" \/ request = "gone"

(* The owner hears of the end that a cancel is, and of the response of a   *)
(* handler that goes on.                                                   *)
OwnerIsTold == CancelIsReported /\ ContinueIsHeard
=============================================================================
