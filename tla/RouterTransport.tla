--------------------------- MODULE RouterTransport ---------------------------
(***************************************************************************)
(* What the message router stands on: the renderer process that shows a    *)
(* browser's page, the two FIFO streams of process messages between it and *)
(* the browser process, and the queue in which CefBrowserHostImpl keeps    *)
(* messages while there is no render view to send them to                  *)
(* (browser_host_impl.cc).  A browser has another renderer process after   *)
(* its own is gone, or when a navigation commits in another one: the       *)
(* process left behind is alive, and what it sent may still arrive.        *)
(*                                                                         *)
(* A process message is abstracted to the fields the router reads: the     *)
(* ids under which the renderer knows the request, whether the query is    *)
(* persistent, whether an answer is a success.  Payloads are left out.     *)
(***************************************************************************)
EXTENDS Integers, Sequences, FiniteSets

CONSTANTS
  Browser,        \* the browsers of the process
  MaxRequests,    \* bound: cefQuery() calls of one renderer process
  MaxEpochs,      \* bound: renderer processes one browser has in its life
  MaxAnswers      \* bound: answers waiting when another one is volunteered

ASSUME BoundsAssumption ==
  /\ MaxRequests \in Nat \ {0}
  /\ MaxEpochs \in Nat \ {0}
  /\ MaxAnswers \in Nat \ {0}

VARIABLES
  proc,         \* proc[b]: the life of b's renderer process
  epoch,        \* epoch[b]: how many renderer processes b has had
  toBrowser,    \* toBrowser[b]: messages sent by the renderer, undelivered
  late,         \* late[b][e]: those of process e, which b has left
  toRenderer,   \* toRenderer[b]: messages sent by the browser, undelivered
  queueing,     \* CefBrowserHostImpl::queue_messages_
  queued        \* CefBrowserHostImpl::queued_messages_

transportVars == <<proc, epoch, toBrowser, late, toRenderer, queueing, queued>>

kReservedId == 0

Id == 1 .. MaxRequests            \* ids the generators hand out
Id0 == Id \cup {kReservedId}
Epoch == 1 .. MaxEpochs

(* "absent": not started, or gone and the browser told; "dead": gone, the  *)
(* browser not told yet; "closed": the browser itself is destroyed.        *)
ProcState == {"absent", "live", "dead", "closed"}

(* The query message and the cancel message of the renderer side.          *)
Request == [kind : {"query"}, ctx : Id, req : Id, persistent : BOOLEAN]
             \cup [kind : {"cancel"}, ctx : Id, req : Id0, persistent : BOOLEAN]
QueryMsg(c, r, p) == [kind |-> "query", ctx |-> c, req |-> r, persistent |-> p]
CancelMsg(c, r) == [kind |-> "cancel", ctx |-> c, req |-> r, persistent |-> FALSE]

(* The message SendQuerySuccess and SendQueryFailure send.  |epoch| is not *)
(* in it: it tells which process the answer is for.                        *)
Answer == [epoch : Epoch, ctx : Id, req : Id, success : BOOLEAN]
AnswerMsg(e, c, r, s) == [epoch |-> e, ctx |-> c, req |-> r, success |-> s]

TransportTypeOK ==
  /\ proc \in [Browser -> ProcState]
  /\ epoch \in [Browser -> 0 .. MaxEpochs]
  /\ toBrowser \in [Browser -> Seq(Request)]
  /\ late \in [Browser -> [Epoch -> Seq(Request)]]
  /\ toRenderer \in [Browser -> Seq(Answer)]
  /\ queueing \in [Browser -> BOOLEAN]
  /\ queued \in [Browser -> Seq(Answer)]

(* The constructor starts with queue_messages_ set.                        *)
TransportInit ==
  /\ proc = [b \in Browser |-> "absent"]
  /\ epoch = [b \in Browser |-> 0]
  /\ toBrowser = [b \in Browser |-> <<>>]
  /\ late = [b \in Browser |-> [e \in Epoch |-> <<>>]]
  /\ toRenderer = [b \in Browser |-> <<>>]
  /\ queueing = [b \in Browser |-> TRUE]
  /\ queued = [b \in Browser |-> <<>>]

(* CefBrowserHostImpl::Send for the messages out[b] of every browser b:    *)
(* queued while there is no render view, lost when the process died and    *)
(* the browser does not know yet.                                          *)
SendAll(out) ==
  /\ queued' = [b \in Browser |->
                  IF queueing[b] THEN queued[b] \o out[b] ELSE queued[b]]
  /\ toRenderer' = [b \in Browser |->
                      IF ~queueing[b] /\ proc[b] = "live"
                      THEN toRenderer[b] \o out[b] ELSE toRenderer[b]]

(* The message at the head of the stream to the browser.  The renderer     *)
(* announces its view before it runs any script, so RenderViewReady is     *)
(* handled before the first of them.  So it is when a process left behind  *)
(* sent them.                                                              *)
Arrived(b, kind) ==
  toBrowser[b] # <<>> /\ Head(toBrowser[b]).kind = kind /\ ~queueing[b]

LateArrived(b, e, kind) == late[b][e] # <<>> /\ Head(late[b][e]).kind = kind

To(b, s) == [c \in Browser |-> IF c = b THEN s ELSE <<>>]

(* The renderer's SendProcessMessage(PID_BROWSER, m).                      *)
SendToBrowser(b, s) == toBrowser' = [toBrowser EXCEPT ![b] = @ \o s]

(* CefBrowserHostImpl::RenderViewReady: the queue is flushed in order.     *)
FlushQueue(b) ==
  /\ proc[b] \in {"live", "dead"} /\ queueing[b]
  /\ queueing' = [queueing EXCEPT ![b] = FALSE]
  /\ queued' = [queued EXCEPT ![b] = <<>>]
  /\ toRenderer' = [toRenderer EXCEPT ![b] =
                      IF proc[b] = "live" THEN @ \o queued[b] ELSE @]
  /\ UNCHANGED <<proc, epoch, toBrowser, late>>

(* A renderer process is started for a browser that has none.              *)
LaunchProcess(b) ==
  /\ proc[b] = "absent" /\ epoch[b] < MaxEpochs
  /\ proc' = [proc EXCEPT ![b] = "live"]
  /\ epoch' = [epoch EXCEPT ![b] = @ + 1]
  /\ UNCHANGED <<toBrowser, late, toRenderer, queueing, queued>>

(* A navigation commits in another renderer process: its view is now the   *)
(* one Send writes to.  What the process left behind still has to read has *)
(* no effect here any more; of what it has sent by its end, |last| being   *)
(* the last of it, the browser takes any prefix: messages of a view that   *)
(* is swapped out are dropped at some point.  That process goes unreported.*)
SwapProcess(b, last) ==
  /\ proc[b] = "live" /\ ~queueing[b] /\ epoch[b] < MaxEpochs
  /\ epoch' = [epoch EXCEPT ![b] = @ + 1]
  /\ \E n \in 0 .. Len(toBrowser[b] \o last) :
        late' = [late EXCEPT ![b][epoch[b]] = SubSeq(toBrowser[b] \o last, 1, n)]
  /\ toBrowser' = [toBrowser EXCEPT ![b] = <<>>]
  /\ toRenderer' = [toRenderer EXCEPT ![b] = <<>>]
  /\ UNCHANGED <<proc, queueing, queued>>

(* The renderer process goes away.  Of the messages it sent, those already *)
(* written to the pipe still arrive; those on their way to it are lost.    *)
ProcessDies(b) ==
  /\ proc[b] = "live"
  /\ proc' = [proc EXCEPT ![b] = "dead"]
  /\ \E n \in 0 .. Len(toBrowser[b]) :
        toBrowser' = [toBrowser EXCEPT ![b] = SubSeq(@, 1, n)]
  /\ toRenderer' = [toRenderer EXCEPT ![b] = <<>>]
  /\ UNCHANGED <<epoch, late, queueing, queued>>

(* The channel error follows the last message: RenderProcessGone sets      *)
(* queue_messages_ again.                                                  *)
ChannelError(b) ==
  /\ proc[b] = "dead" /\ toBrowser[b] = <<>>
  /\ proc' = [proc EXCEPT ![b] = "absent"]
  /\ queueing' = [queueing EXCEPT ![b] = TRUE]
  /\ UNCHANGED <<epoch, toBrowser, late>>

(* DestroyBrowser: the queued messages are deleted and the WebContents,    *)
(* through which messages travel, is destroyed.                            *)
DestroyChannel(b) ==
  /\ proc[b] # "closed"
  /\ proc' = [proc EXCEPT ![b] = "closed"]
  /\ toBrowser' = [toBrowser EXCEPT ![b] = <<>>]
  /\ late' = [late EXCEPT ![b] = [e \in Epoch |-> <<>>]]
  /\ toRenderer' = [toRenderer EXCEPT ![b] = <<>>]
  /\ queued' = [queued EXCEPT ![b] = <<>>]
  /\ UNCHANGED <<epoch, queueing>>
=============================================================================
