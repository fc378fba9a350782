--------------------------- MODULE RenderURLRequest ---------------------------
(***************************************************************************)
(* One CefURLRequest of a renderer process                                 *)
(* (libcef/renderer/render_urlrequest_impl.cc): its Context, the           *)
(* WebURLLoader of Blink, and the client, which may call Cancel at any     *)
(* time, also from inside the callbacks it is called with.  All of them    *)
(* are on the main thread of the renderer process.                         *)
(*                                                                         *)
(* An action is what the thread does between two points at which the       *)
(* client can act: up to a callback of the client, or from the return of   *)
(* one up to the next.  The only one that can be called from inside        *)
(* another is OnRequestComplete, by a Cancel.                              *)
(***************************************************************************)
EXTENDS Integers

CONSTANT MaxChunks      \* bound: parts in which the response arrives

ASSUME ChunksAssumption == MaxChunks \in Nat

VARIABLES
  request,       \* what the client asked for; it never changes
  load,          \* the work of the WebURLLoader
  loader,        \* is loader_ set?
  status,        \* status_
  response,      \* is response_ set?
  url_request,   \* is url_request_ set?
  got_upload_progress_complete,
  callback,      \* the callback of the client the loader's notice led to
  completing,    \* is OnRequestComplete running, alone or inside callback?
  answer,        \* history: the status the request completed with, or "none"
  told,          \* history: how often the client was told certain things
  canceled       \* history: did a Cancel find the request pending?

contextVars == <<loader, status, response, url_request, got_upload_progress_complete>>
history == <<answer, told, canceled>>
clientVars == <<callback, completing>>
vars == <<request, load, contextVars, clientVars, history>>

(* Does it have upload data, of a size Start could determine; was          *)
(* UR_FLAG_REPORT_UPLOAD_PROGRESS set, and UR_FLAG_NO_DOWNLOAD_DATA not?   *)
Request == {r \in [uploads : BOOLEAN, sized : BOOLEAN, reports : BOOLEAN, data : BOOLEAN] :
              r.sized => r.uploads}

Status == {"UR_IO_PENDING", "UR_SUCCESS", "UR_CANCELED", "UR_FAILED"}

(* The calls of OnUploadProgress in NotifyUploadProgressIfNecessary, which *)
(* OnComplete and OnDownloadProgress go on after; that of                  *)
(* OnDownloadProgress, after which the data follows; and the notices after *)
(* which nothing is left to do.                                            *)
Callback == {"none", "UploadInComplete", "UploadInDownload", "DownloadProgress", "Notice"}

Load == [state : {"sending", "receiving", "canceled", "ended"},
         read : 0 .. MaxChunks, sent : 0 .. 2]

TypeOK ==
  /\ request \in Request
  /\ load \in Load
  /\ loader \in BOOLEAN
  /\ status \in Status
  /\ response \in BOOLEAN
  /\ url_request \in BOOLEAN
  /\ got_upload_progress_complete \in BOOLEAN
  /\ callback \in Callback
  /\ completing \in BOOLEAN
  /\ answer \in (Status \ {"UR_IO_PENDING"}) \cup {"none"}
  /\ told \in [completed : Nat, uploaded : Nat, late : Nat]
  /\ canceled \in BOOLEAN

(* Start returned TRUE: the loader is at work.                             *)
Init ==
  /\ request \in Request
  /\ load = [state |-> "sending", read |-> 0, sent |-> 0]
  /\ loader = TRUE
  /\ status = "UR_IO_PENDING"
  /\ response = FALSE
  /\ url_request = TRUE
  /\ got_upload_progress_complete = FALSE
  /\ callback = "none" /\ completing = FALSE
  /\ answer = "none"
  /\ told = [completed |-> 0, uploaded |-> 0, late |-> 0]
  /\ canceled = FALSE

-----------------------------------------------------------------------------
(* A notice of progress or data; does it come after the completion?        *)
Notify(c) ==
  /\ callback' = c
  /\ told' = [told EXCEPT !.late = IF answer # "none" THEN @ + 1 ELSE @]

(* The notice that the upload is complete.                                 *)
NotifyUploaded(c) ==
  /\ callback' = c
  /\ told' = [told EXCEPT !.uploaded = @ + 1]

(* The end of OnComplete, up to the call of OnRequestComplete.             *)
Report(s) ==
  /\ loader' = FALSE
  /\ completing' = TRUE
  /\ answer' = s
  /\ told' = [told EXCEPT !.completed = @ + 1]

(* NotifyUploadProgressIfNecessary has something to tell.                  *)
UploadUntold ==
  request.sized /\ request.reports /\ ~got_upload_progress_complete

(* The loader, idle in the event loop, calls its client.                   *)
LoaderCalls(state) ==
  callback = "none" /\ ~completing /\ load.state = state /\ UNCHANGED request

(* The client returns from the callback |c|.                               *)
Return(c) == callback = c /\ ~completing /\ UNCHANGED <<request, load>>

-----------------------------------------------------------------------------
(* didSendData and OnUploadProgress: a part of the upload, or all of it.   *)
didSendData(n) ==
  /\ LoaderCalls("sending")
  /\ request.uploads /\ load.sent < n
  /\ load' = [load EXCEPT !.sent = n]
  /\ IF request.reports
     THEN /\ got_upload_progress_complete' = (got_upload_progress_complete \/ n = 2)
          /\ IF n = 2 THEN NotifyUploaded("Notice") ELSE Notify("Notice")
     ELSE UNCHANGED <<got_upload_progress_complete, told, callback>>
  /\ UNCHANGED <<loader, status, response, url_request, completing, answer, canceled>>

(* didReceiveResponse and OnResponse.                                      *)
didReceiveResponse ==
  /\ LoaderCalls("sending")
  /\ load' = [load EXCEPT !.state = "receiving"]
  /\ response' = TRUE
  /\ UNCHANGED <<loader, status, url_request, got_upload_progress_complete, clientVars, history>>

(* didReceiveData, as far as OnDownloadProgress' first callback.           *)
didReceiveData ==
  /\ LoaderCalls("receiving")
  /\ load.read < MaxChunks
  /\ load' = [load EXCEPT !.read = @ + 1]
  /\ IF UploadUntold THEN NotifyUploaded("UploadInDownload") ELSE Notify("DownloadProgress")
  /\ UNCHANGED <<contextVars, completing, answer, canceled>>

(* Mutant: what was told of the upload is not remembered.                  *)
ForgetUpload == UNCHANGED got_upload_progress_complete

RememberUpload == got_upload_progress_complete' = TRUE

(* ... when the client returns from OnUploadProgress ...                   *)
DownloadAfterUpload ==
  /\ Return("UploadInDownload")
  /\ RememberUpload
  /\ Notify("DownloadProgress")
  /\ UNCHANGED <<loader, status, response, url_request, completing, answer, canceled>>

(* ... and when it returns from OnDownloadProgress: the data follows, even *)
(* if the client canceled the request meanwhile.                           *)
DownloadProgressReturns ==
  /\ Return("DownloadProgress")
  /\ IF request.data THEN Notify("Notice") ELSE callback' = "none" /\ UNCHANGED told
  /\ UNCHANGED <<contextVars, completing, answer, canceled>>

NoticeReturns ==
  /\ Return("Notice")
  /\ callback' = "none"
  /\ UNCHANGED <<contextVars, completing, history>>

-----------------------------------------------------------------------------
(* didFinishLoading and OnComplete, which finds the request pending.       *)
didFinishLoading ==
  /\ LoaderCalls("receiving")
  /\ load' = [load EXCEPT !.state = "ended"]
  /\ status' = "UR_SUCCESS"
  /\ IF UploadUntold
     THEN NotifyUploaded("UploadInComplete") /\ UNCHANGED <<loader, completing, answer>>
     ELSE Report("UR_SUCCESS") /\ UNCHANGED callback
  /\ UNCHANGED <<response, url_request, got_upload_progress_complete, canceled>>

(* ... it goes on when the client returns from OnUploadProgress ...        *)
CompleteAfterUpload ==
  /\ Return("UploadInComplete")
  /\ callback' = "none"
  /\ RememberUpload
  /\ Report(status)
  /\ UNCHANGED <<status, response, url_request, canceled>>

(* ... and ends when it returns from OnRequestComplete.                    *)
Completed ==
  /\ completing
  /\ completing' = FALSE
  /\ url_request' = FALSE
  /\ UNCHANGED <<request, load, loader, status, response, got_upload_progress_complete,
                 callback, history>>

(* Mutant: OnError takes every error for a failure.                        *)
AnyError == "UR_FAILED"

(* OnError leaves a status that is no longer pending.                      *)
ErrorStatus == IF status = "UR_IO_PENDING" THEN "UR_FAILED" ELSE status

(* didFail: the load failed, or was canceled and says so.                  *)
didFail ==
  /\ \E state \in {"sending", "receiving", "canceled"} : LoaderCalls(state)
  /\ load' = [load EXCEPT !.state = "ended"]
  /\ status' = ErrorStatus
  /\ Report(ErrorStatus)
  /\ UNCHANGED <<response, url_request, got_upload_progress_complete, callback, canceled>>

-----------------------------------------------------------------------------
(* Mutants: the load that Cancel cancels goes on; it goes on although the  *)
(* completion was told.                                                    *)
LoadGoesOn == UNCHANGED <<load, loader, completing, answer, told>>
ReportOnly == Report("UR_CANCELED") /\ UNCHANGED load

(* "The request may already be complete."                                  *)
MayCancel == loader /\ status = "UR_IO_PENDING"

(* loader_->cancel(), which "will result in a call to OnError()": when the *)
(* loader is next run, or before it returns.                               *)
LoaderCancel ==
  \/ /\ load' = [load EXCEPT !.state = "canceled"]
     /\ UNCHANGED <<loader, completing, answer, told>>
  \/ /\ load' = [load EXCEPT !.state = "ended"]
     /\ Report("UR_CANCELED")

(* Cancel, in a task of its own or inside a callback.                      *)
Cancel ==
  /\ MayCancel
  /\ status' = "UR_CANCELED"
  /\ LoaderCancel
  /\ canceled' = TRUE
  /\ UNCHANGED <<request, response, url_request, got_upload_progress_complete, callback>>

-----------------------------------------------------------------------------
(* The client's callbacks return.                                          *)
Returns ==
  \/ DownloadAfterUpload \/ DownloadProgressReturns \/ NoticeReturns
  \/ CompleteAfterUpload \/ Completed

Next ==
  \/ \E n \in {1, 2} : didSendData(n)
  \/ didReceiveResponse \/ didReceiveData
  \/ didFinishLoading \/ didFail
  \/ Returns
  \/ Cancel

Spec == Init /\ [][Next]_vars

(* Callbacks return, and a load that was canceled says so; the network may *)
(* hang.                                                                   *)
FairSpec ==
  Spec /\ WF_vars(Returns) /\ WF_vars(load.state = "canceled" /\ didFail)

-----------------------------------------------------------------------------
(* However and whenever the client cancels, the request completes once.    *)
CompletedOnce == told.completed = IF answer = "none" THEN 0 ELSE 1

(* A request whose Cancel came in time ends as canceled, whatever the      *)
(* loader says then; no other one does.                                    *)
CancelHeeded == answer # "none" => ((answer = "UR_CANCELED") <=> canceled)

(* The request completes once, as the Cancel decided.                      *)
CompletedAsDecided == CompletedOnce /\ CancelHeeded

(* Nothing is told after the completion but the rest of the part of the    *)
(* data the client was being told of when it canceled.                     *)
LateNoticesBounded ==
  /\ told.late <= 2
  /\ told.late > 0 => canceled /\ load.read > 0

(* What the client sees keeps the contract of a CefURLRequest.             *)
Contract ==
  INSTANCE URLRequestContract WITH
    status <- status,
    answer <- answer,
    owed <- request.sized /\ request.reports,
    noticed <- told.uploaded,
    stoodIn <- 0,
    held <- url_request

KeepsContract == Contract!Spec

(* A request that was canceled, or whose load ended, is reported, and the  *)
(* reference of the Context to its request, which keeps both alive, given  *)
(* up.                                                                     *)
EndIsReported ==
  canceled \/ load.state = "ended" ~> answer # "none" /\ ~url_request
=============================================================================
