--------------------------- MODULE BrowserURLRequest ---------------------------
(***************************************************************************)
(* One CefURLRequest of the browser process                                *)
(* (libcef/browser/browser_urlrequest_impl.cc): its Context on the thread  *)
(* that created it, the net::URLFetcher that works on the IO thread, and   *)
(* the client, which may call Cancel at any time, also from inside the     *)
(* callbacks it is called with.                                            *)
(*                                                                         *)
(* An action is what a thread does between two points at which somebody    *)
(* else can act: a task up to the client callback it makes, and a callback *)
(* returning up to the next one.  callbacks is therefore a stack.          *)
(***************************************************************************)
EXTENDS Integers, Sequences

CONSTANT MaxChunks      \* bound: parts in which the response is read

ASSUME ChunksAssumption == MaxChunks \in Nat

VARIABLES
  request,       \* what the client asked for; it never changes
  getting,       \* GetRequestContextOnUIThread is posted to the UI thread
  tasks,         \* tasks of the originating thread
  callbacks,     \* the client callbacks running, the innermost first
  fetcher,       \* fetcher_: not created yet, in use, or deleted
  url_request,   \* is url_request_ set?
  status,        \* status_
  response,      \* is response_ set?
  got_upload_progress_complete,
  fetch,         \* the fetcher's work on the IO thread
  ioTasks,       \* tasks the originating thread posted to the IO thread
  completions,   \* history: the calls of OnRequestComplete
  told,          \* history: data told too late, and how often the end of the
                 \* upload was told: on the fetcher's notice, and in its place
  raced          \* history: did Cancel hit a request already completing?

contextVars == <<url_request, status, response, got_upload_progress_complete>>
netVars == <<fetch, ioTasks>>
history == <<completions, told, raced>>
vars == <<request, getting, tasks, callbacks, fetcher, contextVars, netVars, history>>

(* Does it have upload data, was UR_FLAG_REPORT_UPLOAD_PROGRESS set, and   *)
(* UR_FLAG_NO_DOWNLOAD_DATA not?                                           *)
Request == [uploads : BOOLEAN, reports : BOOLEAN, data : BOOLEAN]

Status == {"UR_IO_PENDING", "UR_SUCCESS", "UR_CANCELED", "UR_FAILED"}

Task == {"Continue", "Upload", "UploadAll", "Download", "Write", "Fetched", "OnComplete"}

(* The calls of OnUploadProgress in NotifyUploadProgressIfNecessary, which *)
(* OnComplete and OnDownloadProgress go on after; the notices of progress  *)
(* after which nothing is left to do; and the others.                      *)
Callback == {"UploadInComplete", "UploadInDownload", "Progress", "DownloadData",
             "RequestComplete"}

(* What the URLFetcher does: its state, the parts of the response it read, *)
(* and how much of its upload notices it sent: none, some, the last one.   *)
Fetch == [state : {"idle", "reading", "writing", "success", "failed", "stopped"},
          read : 0 .. MaxChunks, sent : 0 .. 2]

TypeOK ==
  /\ request \in Request
  /\ getting \in BOOLEAN
  /\ tasks \in Seq(Task)
  /\ callbacks \in Seq(Callback) /\ Len(callbacks) <= 2
  /\ fetcher \in {"none", "live", "deleted"}
  /\ url_request \in BOOLEAN
  /\ status \in Status
  /\ response \in BOOLEAN
  /\ got_upload_progress_complete \in BOOLEAN
  /\ fetch \in Fetch
  /\ ioTasks \in Seq({"Continue", "Stop"})
  /\ completions \in Seq([status : Status, named : BOOLEAN])
  /\ told \in [noticed : Nat, stoodIn : Nat, late : Nat]
  /\ raced \in BOOLEAN

(* CefURLRequest::Create returned the request: Start has posted the first  *)
(* task.                                                                   *)
Init ==
  /\ request \in Request
  /\ getting = TRUE
  /\ tasks = <<>> /\ callbacks = <<>>
  /\ fetcher = "none"
  /\ url_request = TRUE
  /\ status = "UR_IO_PENDING"
  /\ response = FALSE
  /\ got_upload_progress_complete = FALSE
  /\ fetch = [state |-> "idle", read |-> 0, sent |-> 0]
  /\ ioTasks = <<>>
  /\ completions = <<>>
  /\ told = [noticed |-> 0, stoodIn |-> 0, late |-> 0]
  /\ raced = FALSE

-----------------------------------------------------------------------------
(* GetRequestContextOnUIThread, whose reply continues on the originating   *)
(* thread.                                                                 *)
GetRequestContextOnUIThread ==
  /\ getting
  /\ getting' = FALSE
  /\ tasks' = Append(tasks, "Continue")
  /\ UNCHANGED <<request, callbacks, fetcher, contextVars, netVars, history>>

(* The originating thread takes its next task.                             *)
Take(t) ==
  /\ callbacks = <<>> /\ tasks # <<>> /\ Head(tasks) = t
  /\ UNCHANGED <<request, getting>>

(* ContinueOnOriginatingThread: the fetcher is created and started.        *)
ContinueOnOriginatingThread ==
  /\ Take("Continue")
  /\ tasks' = Tail(tasks)
  /\ fetcher' = "live"
  /\ fetch' = [fetch EXCEPT !.state = "reading"]
  /\ UNCHANGED <<callbacks, contextVars, ioTasks, history>>

(* The fetcher is deleted: it calls its delegate no more, and its work on  *)
(* the IO thread is stopped.                                               *)
DeleteFetcher ==
  /\ fetcher' = IF fetcher = "live" THEN "deleted" ELSE fetcher
  /\ ioTasks' = IF fetcher = "live" THEN Append(ioTasks, "Stop") ELSE ioTasks

(* The client is called, by nobody or from inside the callbacks |below|.   *)
Call(c, below) == callbacks' = <<c>> \o below

(* The call of OnRequestComplete in OnComplete, with the status |s|.       *)
Report(s, below) ==
  /\ Call("RequestComplete", below)
  /\ status' = s
  /\ completions' = Append(completions, [status |-> s, named |-> url_request])

(* NotifyUploadProgressIfNecessary has something to tell.                  *)
UploadUntold ==
  request.uploads /\ request.reports /\ ~got_upload_progress_complete

Fetched(state) == IF state = "success" THEN "UR_SUCCESS" ELSE "UR_FAILED"

(* Mutant: Cancel forgets to delete the fetcher.                           *)
CancelFetch == UNCHANGED <<fetcher, ioTasks>>

StopFetch == DeleteFetcher
ReportCanceled(below) == Report("UR_CANCELED", below)

Has(s, x) == \E i \in DOMAIN s : s[i] = x

(* OnComplete is posted or in one of its callbacks.                        *)
Completing ==
  Has(tasks, "OnComplete") \/ Has(callbacks, "UploadInComplete")
                           \/ Has(callbacks, "RequestComplete")

(* Cancel, called by the client on the originating thread: in a task of    *)
(* its own, or inside a callback.                                          *)
Cancel ==
  /\ IF fetcher = "live"
     THEN /\ StopFetch
          /\ ReportCanceled(callbacks)
          /\ raced' = (raced \/ Completing)
          /\ UNCHANGED <<url_request, response, got_upload_progress_complete, fetch, told>>
     ELSE UNCHANGED <<callbacks, fetcher, contextVars, netVars, completions, told, raced>>
  /\ UNCHANGED <<request, getting, tasks>>

-----------------------------------------------------------------------------
(* OnComplete, a task: without a fetcher only the client is called.        *)
OnComplete ==
  /\ Take("OnComplete")
  /\ tasks' = Tail(tasks)
  /\ \/ /\ fetcher = "live" /\ fetch.state = "success" /\ UploadUntold
        /\ Call("UploadInComplete", <<>>)
        /\ told' = [told EXCEPT !.stoodIn = @ + 1]
        /\ UNCHANGED <<status, response, completions>>
     \/ /\ fetcher = "live" /\ ~(fetch.state = "success" /\ UploadUntold)
        /\ response' = TRUE
        /\ Report(Fetched(fetch.state), <<>>)
        /\ UNCHANGED told
     \/ /\ fetcher # "live"
        /\ Report(status, <<>>)
        /\ UNCHANGED <<response, told>>
  /\ UNCHANGED <<fetcher, url_request, got_upload_progress_complete, netVars, raced>>

(* ... it goes on when the client returns from OnUploadProgress.  If the   *)
(* client canceled meanwhile, |status| refers into the deleted fetcher and *)
(* anything can be read from it.                                           *)
CompleteAfterUpload ==
  /\ callbacks # <<>> /\ Head(callbacks) = "UploadInComplete"
  /\ got_upload_progress_complete' = TRUE
  /\ IF fetcher = "live"
     THEN response' = TRUE /\ Report(Fetched(fetch.state), Tail(callbacks))
     ELSE UNCHANGED response /\ \E s \in Status : Report(s, Tail(callbacks))
  /\ UNCHANGED <<request, getting, tasks, fetcher, url_request, netVars,
                 told, raced>>

(* ... and ends when it returns from OnRequestComplete.                    *)
Completed ==
  /\ callbacks # <<>> /\ Head(callbacks) = "RequestComplete"
  /\ DeleteFetcher
  /\ url_request' = FALSE
  /\ callbacks' = Tail(callbacks)
  /\ UNCHANGED <<request, getting, tasks, status, response, got_upload_progress_complete,
                 fetch, history>>

-----------------------------------------------------------------------------
(* The fetcher calls its delegate, as long as it exists.                   *)
Delegate(t) == Take(t) /\ fetcher = "live" /\ tasks' = Tail(tasks)

(* A notice that comes too late is dropped by the fetcher.                 *)
DropNotice ==
  /\ \E t \in {"Upload", "UploadAll", "Download", "Fetched"} : Take(t)
  /\ fetcher # "live"
  /\ tasks' = Tail(tasks)
  /\ UNCHANGED <<callbacks, fetcher, contextVars, netVars, history>>

(* Mutant: a completed upload is not remembered.                           *)
NeverAll(t) == FALSE
UploadIsAll(t) == t = "UploadAll"

OnURLFetchUploadProgress(t) ==
  /\ Delegate(t)
  /\ IF request.reports
     THEN /\ Call("Progress", <<>>)
          /\ got_upload_progress_complete' = (got_upload_progress_complete \/ UploadIsAll(t))
          /\ told' = [told EXCEPT !.noticed = IF t = "UploadAll" THEN @ + 1 ELSE @]
     ELSE UNCHANGED <<callbacks, got_upload_progress_complete, told>>
  /\ UNCHANGED <<fetcher, url_request, status, response, netVars, completions, raced>>

OnURLFetchDownloadProgress ==
  /\ Delegate("Download")
  /\ response' = TRUE
  /\ IF UploadUntold
     THEN Call("UploadInDownload", <<>>) /\ told' = [told EXCEPT !.stoodIn = @ + 1]
     ELSE Call("Progress", <<>>) /\ UNCHANGED told
  /\ UNCHANGED <<fetcher, url_request, status, got_upload_progress_complete, netVars,
                 completions, raced>>

DownloadAfterUpload ==
  /\ callbacks # <<>> /\ Head(callbacks) = "UploadInDownload"
  /\ got_upload_progress_complete' = TRUE
  /\ Call("Progress", Tail(callbacks))
  /\ UNCHANGED <<request, getting, tasks, fetcher, url_request, status, response, netVars,
                 history>>

ProgressReturns ==
  /\ callbacks # <<>> /\ Head(callbacks) = "Progress"
  /\ callbacks' = Tail(callbacks)
  /\ UNCHANGED <<request, getting, tasks, fetcher, contextVars, netVars, history>>

(* Mutant: the completion is not posted.                                   *)
NoTask(rest) == rest
CompletionTask(rest) == Append(rest, "OnComplete")

OnURLFetchComplete ==
  /\ Take("Fetched") /\ fetcher = "live"
  /\ tasks' = CompletionTask(Tail(tasks))
  /\ UNCHANGED <<callbacks, fetcher, contextVars, netVars, history>>

(* WriteOnClientThread, posted by the response writer, does not go through *)
(* the fetcher: the data reaches the client whatever became of it ...      *)
WriteOnClientThread ==
  /\ Take("Write")
  /\ tasks' = Tail(tasks)
  /\ Call("DownloadData", <<>>)
  /\ told' = [told EXCEPT !.late = IF completions # <<>> THEN @ + 1 ELSE @]
  /\ UNCHANGED <<fetcher, contextVars, netVars, completions, raced>>

(* ... and the writer's callback is run on the IO thread.                  *)
DownloadDataReturns ==
  /\ callbacks # <<>> /\ Head(callbacks) = "DownloadData"
  /\ callbacks' = Tail(callbacks)
  /\ ioTasks' = Append(ioTasks, "Continue")
  /\ UNCHANGED <<request, getting, tasks, fetcher, contextVars, fetch, history>>

-----------------------------------------------------------------------------
FetchStep == UNCHANGED <<request, getting, callbacks, fetcher, contextVars, history>>

(* A timer of the fetcher tells how much of the upload was sent, at any    *)
(* time until the fetch ends, also when the response is being read.        *)
FetchUploads ==
  /\ fetch.state \in {"reading", "writing"} /\ request.uploads
  /\ \E n \in {1, 2} :
        /\ n > fetch.sent
        /\ fetch' = [fetch EXCEPT !.sent = n]
        /\ tasks' = Append(tasks, IF n = 2 THEN "UploadAll" ELSE "Upload")
  /\ UNCHANGED ioTasks
  /\ FetchStep

(* Mutant: Write does not make the fetcher wait.                           *)
WriteAtOnce == "reading"

(* Write returns ERR_IO_PENDING.                                           *)
WritePending == "writing"

(* It reads a part of the response, tells how far it got, and hands the    *)
(* part to the response writer.                                            *)
FetchReads ==
  /\ fetch.state = "reading" /\ fetch.read < MaxChunks
  /\ fetch' = [fetch EXCEPT !.read = @ + 1,
                            !.state = IF request.data THEN WritePending ELSE "reading"]
  /\ tasks' = IF request.data THEN Append(Append(tasks, "Download"), "Write")
               ELSE Append(tasks, "Download")
  /\ UNCHANGED ioTasks
  /\ FetchStep

(* The request succeeds or fails.                                          *)
FetchEnds ==
  /\ fetch.state = "reading"
  /\ \E s \in {"success", "failed"} : fetch' = [fetch EXCEPT !.state = s]
  /\ tasks' = Append(tasks, "Fetched")
  /\ UNCHANGED ioTasks
  /\ FetchStep

(* ContinueOnSourceThread, or the end of a fetcher that was deleted.       *)
RunIoTask ==
  /\ ioTasks # <<>>
  /\ ioTasks' = Tail(ioTasks)
  /\ fetch' = [fetch EXCEPT !.state =
                 CASE Head(ioTasks) = "Stop" -> "stopped"
                   [] Head(ioTasks) = "Continue" /\ @ = "writing" -> "reading"
                   [] OTHER -> @]
  /\ UNCHANGED tasks
  /\ FetchStep

-----------------------------------------------------------------------------
(* The originating thread, apart from what the client does.                *)
ThreadStep ==
  \/ ContinueOnOriginatingThread
  \/ OnComplete \/ CompleteAfterUpload \/ Completed
  \/ DropNotice
  \/ \E t \in {"Upload", "UploadAll"} : OnURLFetchUploadProgress(t)
  \/ OnURLFetchDownloadProgress \/ DownloadAfterUpload \/ ProgressReturns
  \/ OnURLFetchComplete
  \/ WriteOnClientThread \/ DownloadDataReturns

Next ==
  \/ GetRequestContextOnUIThread
  \/ ThreadStep
  \/ Cancel
  \/ FetchUploads \/ FetchReads \/ FetchEnds
  \/ RunIoTask

Spec == Init /\ [][Next]_vars

(* Tasks are run and the client's callbacks return; the network may hang.  *)
FairSpec ==
  Spec /\ WF_vars(GetRequestContextOnUIThread) /\ WF_vars(ThreadStep) /\ WF_vars(RunIoTask)

-----------------------------------------------------------------------------
(* "DCHECK(url_request_.get())" in OnComplete: the client is told of a     *)
(* request that exists.                                                    *)
RequestIsNamed == \A i \in DOMAIN completions : completions[i].named

(* A request completes once.  Only a Cancel that hits a request whose      *)
(* completion has begun makes it complete a second time, never a third.    *)
CompletedTwiceAtMost == Len(completions) <= IF raced THEN 2 ELSE 1

(* A response writer has one part of the data on its way at a time: after  *)
(* a completion one part more may reach the client, and none if that was a *)
(* success.                                                                *)
LateDataBounded ==
  /\ told.late <= 1
  /\ told.late > 0 => completions[1].status # "UR_SUCCESS"

(* What the client sees keeps the contract of a CefURLRequest, as long as  *)
(* no Cancel hits a request already completing; from then on, what it sees *)
(* of the first completion does.                                           *)
Contract ==
  INSTANCE URLRequestContract WITH
    status <- IF raced THEN completions[1].status ELSE status,
    answer <- IF completions = <<>> THEN "none" ELSE completions[1].status,
    owed <- request.uploads /\ request.reports,
    noticed <- told.noticed,
    stoodIn <- told.stoodIn,
    held <- url_request

KeepsContract == Contract!Spec

(* A fetch that ended is reported, and the reference of the Context to its *)
(* request, which keeps both alive, given up.                              *)
EndIsReported == fetch.state \in {"success", "failed"} ~> completions # <<>> /\ ~url_request
=============================================================================
