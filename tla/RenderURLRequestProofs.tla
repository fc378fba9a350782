------------------------ MODULE RenderURLRequestProofs ------------------------
(***************************************************************************)
(* A URL request of a renderer process keeps the contract of a             *)
(* CefURLRequest, for responses in any number of parts.                    *)
(***************************************************************************)
EXTENDS RenderURLRequest, TLAPS

(* The request is pending as long as the loader has neither ended nor been *)
(* canceled, and reported as soon as it ended, but for the notice of the   *)
(* upload a success may have to wait for.                                  *)
Life ==
  /\ loader <=> answer = "none"
  /\ told.completed = IF loader THEN 0 ELSE 1
  /\ ~loader => answer = status
  /\ status = "UR_IO_PENDING" <=> load.state \in {"sending", "receiving"}
  /\ load.state = "canceled" => status = "UR_CANCELED"
  /\ loader <=> load.state # "ended" \/ callback = "UploadInComplete"
  /\ callback = "UploadInComplete" => load.state = "ended" /\ status = "UR_SUCCESS"
  /\ canceled <=> status = "UR_CANCELED"
  /\ loader => url_request /\ ~completing

(* NotifyUploadProgressIfNecessary is called from the callback.            *)
Telling == callback \in {"UploadInComplete", "UploadInDownload"}

Upload ==
  /\ told.uploaded = IF got_upload_progress_complete \/ Telling THEN 1 ELSE 0
  /\ Telling => UploadUntold
  /\ load.state = "sending" =>
       /\ callback \in {"none", "Notice"}
       /\ load.sent < 2 => ~got_upload_progress_complete
  /\ answer = "UR_SUCCESS" /\ request.sized /\ request.reports => told.uploaded = 1

(* What can still be told after the completion.                            *)
Late ==
  /\ told.late <= 2
  /\ loader \/ callback = "UploadInDownload" => told.late = 0
  /\ callback = "DownloadProgress" => told.late <= 1
  /\ callback \in {"UploadInDownload", "DownloadProgress"} =>
       load.read > 0 /\ (~loader => canceled)
  /\ told.late > 0 => canceled /\ load.read > 0

(* TypeOK, the flags apart.                                                *)
Flags ==
  /\ loader \in BOOLEAN /\ response \in BOOLEAN /\ url_request \in BOOLEAN
  /\ got_upload_progress_complete \in BOOLEAN
  /\ completing \in BOOLEAN /\ canceled \in BOOLEAN
Data ==
  /\ request \in Request
  /\ load \in Load
  /\ status \in Status
  /\ callback \in Callback
  /\ answer \in (Status \ {"UR_IO_PENDING"}) \cup {"none"}
  /\ told \in [completed : Nat, uploaded : Nat, late : Nat]

IInv == TypeOK /\ Life /\ Upload /\ Late

(* A step of the contract, or one the client sees nothing of.              *)
ContractStep == Contract!Next

-----------------------------------------------------------------------------
LEMMA didSendDataStep ==
  ASSUME IInv, NEW n \in {1, 2}, didSendData(n)
  PROVE  IInv' /\ ContractStep
<1>1. TypeOK'
  <2>1. Flags'
    BY Zenon DEF IInv, TypeOK, Flags, didSendData, LoaderCalls, Notify, NotifyUploaded
  <2>2. Data'
    BY DEF IInv, TypeOK, Data, Callback, Status, Load, didSendData, LoaderCalls, Notify, NotifyUploaded
  <2> QED BY <2>1, <2>2 DEF TypeOK, Flags, Data
<1>2. Life'
  BY DEF IInv, TypeOK, Load, Life, didSendData, LoaderCalls, Notify, NotifyUploaded
<1>3. Upload'
  <2>1. /\ ~got_upload_progress_complete /\ ~Telling /\ told.uploaded = 0 /\ callback = "none"
        /\ told \in [completed : Nat, uploaded : Nat, late : Nat] /\ load \in Load
        /\ load' = [load EXCEPT !.sent = n] /\ load.state = "sending" /\ answer # "UR_SUCCESS"
        /\ UNCHANGED <<request, answer>>
    BY DEF IInv, TypeOK, Load, Life, Upload, Telling, didSendData, LoaderCalls
  <2>2. CASE request.reports /\ n = 2
    <3>1. got_upload_progress_complete' = TRUE /\ NotifyUploaded("Notice")
      BY <2>2 DEF didSendData
    <3> QED BY <2>1, <2>2, <3>1 DEF Upload, Telling, NotifyUploaded, Load
  <2>3. CASE request.reports /\ n = 1
    <3>1. n # 2
      BY <2>3
    <3>2. Notify("Notice")
      BY <2>3, <3>1 DEF didSendData
    <3>3. got_upload_progress_complete' = (got_upload_progress_complete \/ n = 2)
      BY <2>3 DEF didSendData
    <3>4. ~got_upload_progress_complete'
      BY <2>1, <3>1, <3>3, Zenon
    <3> QED BY <2>1, <2>3, <3>2, <3>4 DEF Upload, Telling, Notify, Load
  <2>4. CASE ~request.reports
    <3>1. UNCHANGED <<got_upload_progress_complete, told, callback>>
      BY <2>4 DEF didSendData
    <3> QED BY <2>1, <2>4, <3>1 DEF Upload, Telling, Load
  <2> QED BY <2>2, <2>3, <2>4
<1>4. Late'
  BY DEF IInv, TypeOK, Load, Life, Late, didSendData, LoaderCalls, Notify, NotifyUploaded
<1>5. ContractStep
  BY DEF IInv, TypeOK, Load, Life, Upload, Telling, UploadUntold, didSendData, LoaderCalls, Notify, NotifyUploaded,
         ContractStep, Contract!Next, Contract!StatusMove, Contract!AnswerMove,
         Contract!UploadMove, Contract!HoldMove, Contract!Final
<1> QED BY <1>1, <1>2, <1>3, <1>4, <1>5 DEF IInv

LEMMA didReceiveResponseStep ==
  ASSUME IInv, didReceiveResponse
  PROVE  IInv' /\ ContractStep
<1>1. TypeOK'
  <2>1. Flags'
    BY Zenon DEF IInv, TypeOK, Flags, didReceiveResponse, LoaderCalls, clientVars, history
  <2>2. Data'
    BY DEF IInv, TypeOK, Data, Callback, Status, Load, didReceiveResponse, LoaderCalls, clientVars, history
  <2> QED BY <2>1, <2>2 DEF TypeOK, Flags, Data
<1>2. Life'
  BY DEF IInv, TypeOK, Load, Life, didReceiveResponse, LoaderCalls, clientVars, history
<1>3. Upload'
  BY DEF IInv, TypeOK, Load, Life, Upload, Telling, UploadUntold, didReceiveResponse, LoaderCalls, clientVars, history
<1>4. Late'
  BY DEF IInv, TypeOK, Load, Life, Late, didReceiveResponse, LoaderCalls, clientVars, history
<1>5. ContractStep
  BY DEF IInv, TypeOK, Load, Life, Upload, Telling, UploadUntold, didReceiveResponse, LoaderCalls, clientVars, history,
         ContractStep, Contract!Next, Contract!StatusMove, Contract!AnswerMove,
         Contract!UploadMove, Contract!HoldMove, Contract!Final
<1> QED BY <1>1, <1>2, <1>3, <1>4, <1>5 DEF IInv

LEMMA didReceiveDataStep ==
  ASSUME IInv, didReceiveData
  PROVE  IInv' /\ ContractStep
<1>1. TypeOK'
  <2>1. Flags'
    BY Zenon DEF IInv, TypeOK, Flags, didReceiveData, LoaderCalls, Notify, NotifyUploaded, contextVars
  <2>2. Data'
    <3>1. load' \in Load
      BY ChunksAssumption DEF IInv, TypeOK, Load, didReceiveData
    <3>2. CASE NotifyUploaded("UploadInDownload")
      BY <3>1, <3>2 DEF IInv, TypeOK, Data, Callback, didReceiveData, LoaderCalls, NotifyUploaded,
                        contextVars
    <3>3. CASE Notify("DownloadProgress")
      BY <3>1, <3>3 DEF IInv, TypeOK, Data, Callback, didReceiveData, LoaderCalls, Notify,
                        contextVars
    <3> QED BY <3>2, <3>3 DEF didReceiveData
  <2> QED BY <2>1, <2>2 DEF TypeOK, Flags, Data
<1>2. Life'
  BY DEF IInv, TypeOK, Load, Life, didReceiveData, LoaderCalls, Notify, NotifyUploaded, contextVars
<1>3. Upload'
  BY DEF IInv, TypeOK, Load, Life, Upload, Telling, UploadUntold, didReceiveData, LoaderCalls, Notify, NotifyUploaded, contextVars
<1>4. Late'
  BY DEF IInv, TypeOK, Load, Life, Late, didReceiveData, LoaderCalls, Notify, NotifyUploaded, contextVars
<1>5. ContractStep
  BY DEF IInv, TypeOK, Load, Life, Upload, Telling, UploadUntold, didReceiveData, LoaderCalls, Notify, NotifyUploaded, contextVars,
         ContractStep, Contract!Next, Contract!StatusMove, Contract!AnswerMove,
         Contract!UploadMove, Contract!HoldMove, Contract!Final
<1> QED BY <1>1, <1>2, <1>3, <1>4, <1>5 DEF IInv

LEMMA DownloadAfterUploadStep ==
  ASSUME IInv, DownloadAfterUpload
  PROVE  IInv' /\ ContractStep
<1>1. TypeOK'
  <2>1. Flags'
    BY Zenon DEF IInv, TypeOK, Flags, DownloadAfterUpload, Return, RememberUpload, Notify
  <2>2. Data'
    BY DEF IInv, TypeOK, Data, Callback, Status, Load, DownloadAfterUpload, Return, RememberUpload, Notify
  <2> QED BY <2>1, <2>2 DEF TypeOK, Flags, Data
<1>2. Life'
  BY DEF IInv, TypeOK, Load, Life, DownloadAfterUpload, Return, RememberUpload, Notify
<1>3. Upload'
  BY DEF IInv, TypeOK, Load, Life, Upload, Telling, UploadUntold, DownloadAfterUpload, Return, RememberUpload, Notify
<1>4. Late'
  BY DEF IInv, TypeOK, Load, Life, Late, DownloadAfterUpload, Return, RememberUpload, Notify
<1>5. ContractStep
  BY DEF IInv, TypeOK, Load, Life, Upload, Telling, UploadUntold, DownloadAfterUpload, Return, RememberUpload, Notify,
         ContractStep, Contract!Next, Contract!StatusMove, Contract!AnswerMove,
         Contract!UploadMove, Contract!HoldMove, Contract!Final
<1> QED BY <1>1, <1>2, <1>3, <1>4, <1>5 DEF IInv

LEMMA DownloadProgressReturnsStep ==
  ASSUME IInv, DownloadProgressReturns
  PROVE  IInv' /\ ContractStep
<1>1. TypeOK'
  <2>1. Flags'
    BY Zenon DEF IInv, TypeOK, Flags, DownloadProgressReturns, Return, Notify, contextVars
  <2>2. Data'
    BY DEF IInv, TypeOK, Data, Callback, Status, Load, DownloadProgressReturns, Return, Notify, contextVars
  <2> QED BY <2>1, <2>2 DEF TypeOK, Flags, Data
<1>2. Life'
  BY DEF IInv, TypeOK, Load, Life, DownloadProgressReturns, Return, Notify, contextVars
<1>3. Upload'
  BY DEF IInv, TypeOK, Load, Life, Upload, Telling, UploadUntold, DownloadProgressReturns, Return, Notify, contextVars
<1>4. Late'
  BY DEF IInv, TypeOK, Load, Life, Late, DownloadProgressReturns, Return, Notify, contextVars
<1>5. ContractStep
  BY DEF IInv, TypeOK, Load, Life, Upload, Telling, UploadUntold, DownloadProgressReturns, Return, Notify, contextVars,
         ContractStep, Contract!Next, Contract!StatusMove, Contract!AnswerMove,
         Contract!UploadMove, Contract!HoldMove, Contract!Final
<1> QED BY <1>1, <1>2, <1>3, <1>4, <1>5 DEF IInv

LEMMA NoticeReturnsStep ==
  ASSUME IInv, NoticeReturns
  PROVE  IInv' /\ ContractStep
<1>1. TypeOK'
  <2>1. Flags'
    BY Zenon DEF IInv, TypeOK, Flags, NoticeReturns, Return, contextVars, history
  <2>2. Data'
    BY DEF IInv, TypeOK, Data, Callback, Status, Load, NoticeReturns, Return, contextVars, history
  <2> QED BY <2>1, <2>2 DEF TypeOK, Flags, Data
<1>2. Life'
  BY DEF IInv, TypeOK, Load, Life, NoticeReturns, Return, contextVars, history
<1>3. Upload'
  BY DEF IInv, TypeOK, Load, Life, Upload, Telling, UploadUntold, NoticeReturns, Return, contextVars, history
<1>4. Late'
  BY DEF IInv, TypeOK, Load, Life, Late, NoticeReturns, Return, contextVars, history
<1>5. ContractStep
  BY DEF IInv, TypeOK, Load, Life, Upload, Telling, UploadUntold, NoticeReturns, Return, contextVars, history,
         ContractStep, Contract!Next, Contract!StatusMove, Contract!AnswerMove,
         Contract!UploadMove, Contract!HoldMove, Contract!Final
<1> QED BY <1>1, <1>2, <1>3, <1>4, <1>5 DEF IInv

LEMMA didFinishLoadingStep ==
  ASSUME IInv, didFinishLoading
  PROVE  IInv' /\ ContractStep
<1>1. /\ callback = "none" /\ ~completing /\ load.state = "receiving" /\ loader = TRUE
      /\ answer = "none" /\ told.completed = 0 /\ status = "UR_IO_PENDING" /\ ~Telling
      /\ canceled = FALSE /\ url_request = TRUE /\ told.late = 0
  BY DEF IInv, TypeOK, Life, Late, didFinishLoading, LoaderCalls, Telling
<1>2. /\ load' = [load EXCEPT !.state = "ended"] /\ status' = "UR_SUCCESS"
      /\ UNCHANGED <<request, response, url_request, got_upload_progress_complete, canceled>>
      /\ load \in Load /\ told \in [completed : Nat, uploaded : Nat, late : Nat]
  BY DEF didFinishLoading, LoaderCalls, IInv, TypeOK
<1>3. load' \in Load /\ load'.state = "ended"
  BY <1>2 DEF Load
<1>4. CASE UploadUntold
  <2>1. /\ callback' = "UploadInComplete" /\ told' = [told EXCEPT !.uploaded = @ + 1]
        /\ UNCHANGED <<loader, completing, answer>>
    BY <1>4 DEF didFinishLoading, NotifyUploaded
  <2>2. TypeOK'
    <3>1. Flags'
      BY <1>2, <2>1, Zenon DEF IInv, TypeOK, Flags
    <3>2. Data'
      BY <1>2, <1>3, <2>1 DEF IInv, TypeOK, Data, Callback, Status
    <3> QED BY <3>1, <3>2 DEF TypeOK, Flags, Data
  <2>3. Life'
    BY <1>1, <1>2, <1>3, <2>1 DEF Life
  <2>4. Upload' /\ told.uploaded = 0
    BY <1>1, <1>2, <1>3, <1>4, <2>1 DEF IInv, Upload, Telling, UploadUntold
  <2>5. Late'
    BY <1>1, <1>2, <1>3, <2>1 DEF IInv, Late
  <2>6. ContractStep
    BY <1>1, <1>2, <2>1, <2>4
       DEF ContractStep, Contract!Next, Contract!StatusMove, Contract!AnswerMove,
           Contract!UploadMove, Contract!HoldMove, Contract!Final
  <2> QED BY <2>2, <2>3, <2>4, <2>5, <2>6 DEF IInv
<1>5. CASE ~UploadUntold
  <2>1. /\ loader' = FALSE /\ completing' = TRUE /\ answer' = "UR_SUCCESS"
        /\ told' = [told EXCEPT !.completed = @ + 1] /\ UNCHANGED callback
    BY <1>5 DEF didFinishLoading, Report
  <2>2. TypeOK'
    <3>1. Flags'
      BY <1>2, <2>1, Zenon DEF IInv, TypeOK, Flags
    <3>2. Data'
      BY <1>2, <1>3, <2>1 DEF IInv, TypeOK, Data, Status
    <3> QED BY <3>1, <3>2 DEF TypeOK, Flags, Data
  <2>3. Life'
    BY <1>1, <1>2, <1>3, <2>1 DEF Life
  <2>4. Upload' /\ (request.sized /\ request.reports => told.uploaded = 1)
    BY <1>1, <1>2, <1>3, <1>5, <2>1 DEF IInv, Upload, Telling, UploadUntold
  <2>5. Late'
    BY <1>1, <1>2, <1>3, <2>1 DEF IInv, Late
  <2>6. ContractStep
    BY <1>1, <1>2, <2>1, <2>4
       DEF ContractStep, Contract!Next, Contract!StatusMove, Contract!AnswerMove,
           Contract!UploadMove, Contract!HoldMove, Contract!Final
  <2> QED BY <2>2, <2>3, <2>4, <2>5, <2>6 DEF IInv
<1> QED BY <1>4, <1>5

LEMMA CompleteAfterUploadStep ==
  ASSUME IInv, CompleteAfterUpload
  PROVE  IInv' /\ ContractStep
<1>1. TypeOK'
  <2>1. Flags'
    BY Zenon DEF IInv, TypeOK, Flags, CompleteAfterUpload, Return, RememberUpload, Report
  <2>2. Data'
    BY DEF IInv, TypeOK, Life, Data, Callback, Status, Load, CompleteAfterUpload, Return, RememberUpload, Report
  <2> QED BY <2>1, <2>2 DEF TypeOK, Flags, Data
<1>2. Life'
  BY DEF IInv, TypeOK, Load, Life, CompleteAfterUpload, Return, RememberUpload, Report
<1>3. Upload'
  BY DEF IInv, TypeOK, Load, Life, Upload, Telling, UploadUntold, CompleteAfterUpload, Return, RememberUpload, Report
<1>4. Late'
  BY DEF IInv, TypeOK, Load, Life, Late, CompleteAfterUpload, Return, RememberUpload, Report
<1>5. ContractStep
  BY DEF IInv, TypeOK, Load, Life, Upload, Telling, UploadUntold, CompleteAfterUpload, Return, RememberUpload, Report,
         ContractStep, Contract!Next, Contract!StatusMove, Contract!AnswerMove,
         Contract!UploadMove, Contract!HoldMove, Contract!Final
<1> QED BY <1>1, <1>2, <1>3, <1>4, <1>5 DEF IInv

LEMMA CompletedStep ==
  ASSUME IInv, Completed
  PROVE  IInv' /\ ContractStep
<1>1. TypeOK'
  <2>1. Flags'
    BY Zenon DEF IInv, TypeOK, Flags, Completed, history
  <2>2. Data'
    BY DEF IInv, TypeOK, Data, Callback, Status, Load, Completed, history
  <2> QED BY <2>1, <2>2 DEF TypeOK, Flags, Data
<1>2. Life'
  BY DEF IInv, TypeOK, Load, Life, Completed, history
<1>3. Upload'
  BY DEF IInv, TypeOK, Load, Life, Upload, Telling, UploadUntold, Completed, history
<1>4. Late'
  BY DEF IInv, TypeOK, Load, Life, Late, Completed, history
<1>5. ContractStep
  BY DEF IInv, TypeOK, Load, Life, Upload, Telling, UploadUntold, Completed, history,
         ContractStep, Contract!Next, Contract!StatusMove, Contract!AnswerMove,
         Contract!UploadMove, Contract!HoldMove, Contract!Final
<1> QED BY <1>1, <1>2, <1>3, <1>4, <1>5 DEF IInv

LEMMA didFailStep ==
  ASSUME IInv, didFail
  PROVE  IInv' /\ ContractStep
<1>1. TypeOK'
  <2>1. Flags'
    BY Zenon DEF IInv, TypeOK, Flags, didFail, LoaderCalls, Report, ErrorStatus
  <2>2. Data'
    BY DEF IInv, TypeOK, Data, Callback, Status, Load, didFail, LoaderCalls, Report, ErrorStatus
  <2> QED BY <2>1, <2>2 DEF TypeOK, Flags, Data
<1>2. Life'
  BY DEF IInv, TypeOK, Load, Life, didFail, LoaderCalls, Report, ErrorStatus
<1>3. Upload'
  BY DEF IInv, TypeOK, Load, Life, Upload, Telling, UploadUntold, didFail, LoaderCalls, Report, ErrorStatus
<1>4. Late'
  BY DEF IInv, TypeOK, Load, Life, Late, didFail, LoaderCalls, Report, ErrorStatus
<1>5. ContractStep
  BY DEF IInv, TypeOK, Load, Life, Upload, Telling, UploadUntold, didFail, LoaderCalls, Report, ErrorStatus,
         ContractStep, Contract!Next, Contract!StatusMove, Contract!AnswerMove,
         Contract!UploadMove, Contract!HoldMove, Contract!Final
<1> QED BY <1>1, <1>2, <1>3, <1>4, <1>5 DEF IInv

LEMMA CancelStep ==
  ASSUME IInv, Cancel
  PROVE  IInv' /\ ContractStep
<1>1. /\ loader = TRUE /\ status = "UR_IO_PENDING" /\ answer = "none" /\ completing = FALSE
      /\ told.completed = 0 /\ told.late = 0 /\ url_request = TRUE /\ canceled = FALSE
      /\ callback # "UploadInComplete"
  BY DEF IInv, TypeOK, Life, Late, Cancel, MayCancel
<1>2. /\ status' = "UR_CANCELED" /\ canceled' = TRUE
      /\ UNCHANGED <<request, response, url_request, got_upload_progress_complete, callback>>
      /\ load \in Load /\ told \in [completed : Nat, uploaded : Nat, late : Nat]
  BY DEF Cancel, IInv, TypeOK
<1>3. CASE /\ load' = [load EXCEPT !.state = "canceled"]
           /\ UNCHANGED <<loader, completing, answer, told>>
  <2>1. load' \in Load /\ load'.state = "canceled" /\ load'.read = load.read
    BY <1>2, <1>3 DEF Load
  <2>2. TypeOK'
    <3>1. Flags'
      BY <1>2, <1>3, Zenon DEF IInv, TypeOK, Flags
    <3>2. Data'
      BY <1>2, <1>3, <2>1 DEF IInv, TypeOK, Data, Status
    <3> QED BY <3>1, <3>2 DEF TypeOK, Flags, Data
  <2>3. Life'
    BY <1>1, <1>2, <1>3, <2>1 DEF Life
  <2>4. Upload'
    BY <1>1, <1>2, <1>3, <2>1 DEF IInv, Upload, Telling, UploadUntold
  <2>5. Late'
    BY <1>1, <1>2, <1>3, <2>1 DEF IInv, Late
  <2>6. ContractStep
    BY <1>1, <1>2, <1>3
       DEF ContractStep, Contract!Next, Contract!StatusMove, Contract!AnswerMove,
           Contract!UploadMove, Contract!HoldMove, Contract!Final
  <2> QED BY <2>2, <2>3, <2>4, <2>5, <2>6 DEF IInv
<1>4. CASE load' = [load EXCEPT !.state = "ended"] /\ Report("UR_CANCELED")
  <2>1. load' \in Load /\ load'.state = "ended" /\ load'.read = load.read
    BY <1>2, <1>4 DEF Load
  <2>2. /\ loader' = FALSE /\ completing' = TRUE /\ answer' = "UR_CANCELED"
        /\ told' = [told EXCEPT !.completed = @ + 1]
    BY <1>4 DEF Report
  <2>3. TypeOK'
    <3>1. Flags'
      BY <1>2, <2>2, Zenon DEF IInv, TypeOK, Flags
    <3>2. Data'
      BY <1>2, <2>1, <2>2 DEF IInv, TypeOK, Data, Status
    <3> QED BY <3>1, <3>2 DEF TypeOK, Flags, Data
  <2>4. Life'
    BY <1>1, <1>2, <2>1, <2>2 DEF Life
  <2>5. Upload'
    BY <1>1, <1>2, <2>1, <2>2 DEF IInv, Upload, Telling, UploadUntold
  <2>6. Late'
    BY <1>1, <1>2, <2>1, <2>2 DEF IInv, Late
  <2>7. ContractStep
    BY <1>1, <1>2, <2>2
       DEF ContractStep, Contract!Next, Contract!StatusMove, Contract!AnswerMove,
           Contract!UploadMove, Contract!HoldMove, Contract!Final
  <2> QED BY <2>3, <2>4, <2>5, <2>6, <2>7 DEF IInv
<1> QED BY <1>3, <1>4 DEF Cancel, LoaderCancel

-----------------------------------------------------------------------------
LEMMA InitStep ==
  ASSUME Init
  PROVE  IInv /\ Contract!Init
<1>1. load \in Load
  BY ChunksAssumption DEF Init, Load
<1>2. TypeOK
  <2>1. Flags
    BY Zenon DEF Init, Flags
  <2>2. Data
    BY <1>1 DEF Init, Data, Status, Callback
  <2> QED BY <2>1, <2>2 DEF TypeOK, Flags, Data
<1>3. Life /\ Upload /\ Late
  BY DEF Init, Life, Upload, Late, Telling
<1>4. Contract!Init
  BY <1>2 DEF Init, Contract!Init, TypeOK, Request
<1> QED BY <1>2, <1>3, <1>4 DEF IInv

(* Every step keeps the invariant, and is one of the contract.             *)
LEMMA NextStep ==
  ASSUME IInv, [Next]_vars
  PROVE  IInv' /\ [ContractStep]_<<status, answer, request.sized /\ request.reports,
                                   told.uploaded, 0, url_request>>
<1>1. CASE Next
  BY <1>1, didSendDataStep, didReceiveResponseStep, didReceiveDataStep, DownloadAfterUploadStep,
     DownloadProgressReturnsStep, NoticeReturnsStep, didFinishLoadingStep, CompleteAfterUploadStep,
     CompletedStep, didFailStep, CancelStep
     DEF Next, Returns
<1>2. CASE UNCHANGED vars
  BY <1>2 DEF vars, contextVars, clientVars, history, IInv, TypeOK, Life, Upload, Late, Telling,
              UploadUntold
<1> QED BY <1>1, <1>2

LEMMA Invariant == Spec => []IInv
<1>1. Init => IInv
  BY InitStep
<1>2. IInv /\ [Next]_vars => IInv'
  BY NextStep
<1> QED BY <1>1, <1>2, PTL DEF Spec

-----------------------------------------------------------------------------
(* Every variable keeps its type: a request has one of the documented      *)
(* statuses whatever its client and its loader do.                         *)
THEOREM RenderTypeCorrect == Spec => []TypeOK
<1>1. IInv => TypeOK
  BY DEF IInv
<1> QED BY <1>1, Invariant, PTL

(* OnRequestComplete is called once, however often and from wherever the   *)
(* client calls Cancel.  A Cancel that came in time decides the status;    *)
(* nothing else says canceled.                                             *)
THEOREM RenderCompletesOnce == Spec => []CompletedAsDecided
<1>1. IInv => CompletedOnce
  BY DEF IInv, Life, CompletedOnce
<1>2. IInv => CancelHeeded
  BY DEF IInv, Life, CancelHeeded
<1>3. IInv => CompletedAsDecided
  BY <1>1, <1>2 DEF CompletedAsDecided
<1> QED BY <1>3, Invariant, PTL

(* At most the rest of one didReceiveData follows a completion, whatever   *)
(* the number of parts of the response.                                    *)
THEOREM LateNotices == Spec => []LateNoticesBounded
<1>1. IInv => LateNoticesBounded
  BY DEF IInv, Late, LateNoticesBounded
<1> QED BY <1>1, Invariant, PTL

(* The client of a renderer's request sees what the contract promises.     *)
THEOREM RenderKeepsContract == Spec => KeepsContract
<1>1. Init => Contract!Init
  BY InitStep
<1>2. IInv /\ [Next]_vars =>
        [ContractStep]_<<status, answer, request.sized /\ request.reports,
                         told.uploaded, 0, url_request>>
  BY NextStep
<1>3. IInv /\ [Next]_vars =>
        [Contract!Next]_<<status, answer, request.sized /\ request.reports,
                         told.uploaded, 0, url_request>>
  BY <1>2 DEF ContractStep
<1> QED BY <1>1, <1>3, Invariant, PTL DEF Spec, KeepsContract, Contract!Spec
=============================================================================
