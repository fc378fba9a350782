------------------------ MODULE ResourceRequestJobProofs ------------------------
(***************************************************************************)
(* The job of a resource handler never leaves a callback behind that       *)
(* refers to it, never loses the read that waits, leaves a canceled        *)
(* handler alone and never returns more than was announced: for responses  *)
(* of any size, any number of cookies and of tasks.                        *)
(***************************************************************************)
EXTENDS ResourceRequestJob, TLAPS

(* As long as the request is not done, what the job waits for decides      *)
(* which callback it has, and that callback reaches it.                    *)
Working ==
  ~is_done =>
    /\ request = "live" /\ status # "CANCELED" /\ ~canceled
    /\ stage \in {"new", "cookies", "loading", "saving"} => callback = "none" /\ linked = {}
    /\ stage = "processing" => callback = "headers" /\ linked = {"headers"}
    /\ stage = "responded" => callback \in {"none", "bytes"} /\ linked = {callback} \ {"none"}
    /\ response_started <=> stage = "responded"
    /\ reading <=> stage = "responded" /\ status = "IO_PENDING"
    /\ reading <=> dest
    /\ reading => callback = "bytes"

(* Once it is done, a callback that still reaches the job belongs to a     *)
(* response that was read to its end, or to a handler that never got it.   *)
Ended ==
  is_done =>
    /\ status # "IO_PENDING" /\ stage # "new"
    /\ status = "SUCCESS" => request = "live" /\ stage = "responded" /\ done
    /\ \/ linked = {}
       \/ linked = {"bytes"} /\ callback = "bytes" /\ status = "SUCCESS"
       \/ linked = {"headers"} /\ callback = "headers" /\ given = {} /\ request = "live"

Told ==
  /\ canceled => is_done /\ status = "CANCELED" /\ linked = {}
  /\ told = "started" =>
       response_started /\ ~(stage \in {"new", "cookies", "loading", "processing"})
  /\ ~askedLate

Length ==
  /\ LengthKept
  /\ stage # "responded" => delivered = 0

(* Tasks are posted by callbacks the handler was given, the first of them  *)
(* when the transaction starts.                                            *)
Posted == \A i \in DOMAIN tasks : tasks[i].cb \in given \cup {"none"}
Given == stage \in {"new", "cookies", "loading"} => given = {}

(* TypeOK in two parts: the flags and the rest.                            *)
Flags ==
  /\ is_done \in BOOLEAN /\ response_started \in BOOLEAN
  /\ done \in BOOLEAN /\ dest \in BOOLEAN /\ reading \in BOOLEAN
  /\ canceled \in BOOLEAN /\ askedLate \in BOOLEAN
Data ==
  /\ request \in {"live", "gone"}
  /\ status \in {"SUCCESS", "IO_PENDING", "CANCELED"}
  /\ stage \in {"new", "cookies", "loading", "processing", "saving", "responded"}
  /\ cookies \in 0 .. MaxCookies
  /\ callback \in CallbackType \cup {"none"}
  /\ remaining \in -1 .. MaxBytes
  /\ linked \in SUBSET CallbackType
  /\ given \in SUBSET CallbackType
  /\ tasks \in Seq(Task)
  /\ told \in {"nothing", "started", "failed", "eof"}
  /\ announced \in -1 .. MaxBytes
  /\ delivered \in Nat

IInv == TypeOK /\ Working /\ Ended /\ Told /\ Length /\ Posted /\ Given

Stays == status = "CANCELED" => status' = "CANCELED"

-----------------------------------------------------------------------------
LEMMA TypeParts == (TypeOK <=> Flags /\ Data) /\ (Flags' /\ Data' => TypeOK')
BY DEF TypeOK, Flags, Data

(* What NotifyCanceled does to the queue of tasks.                         *)
LEMMA CanceledTasks ==
  ASSUME NEW waiting \in Seq(Task), NotifyCanceled(waiting), given \subseteq given',
         \A i \in DOMAIN waiting : waiting[i].cb \in given \cup {"none"}
  PROVE  tasks' \in Seq(Task) /\ Posted'
<1>1. CompleteNotifyDone \in Task /\ CompleteNotifyDone.cb = "none"
  BY DEF CompleteNotifyDone, Task
<1>2. CASE is_done
  BY <1>2 DEF NotifyCanceled, Posted
<1>3. CASE ~is_done
  <2>1. tasks' = Append(waiting, CompleteNotifyDone)
    BY <1>3 DEF NotifyCanceled
  <2> QED BY <1>1, <2>1 DEF Posted
<1> QED BY <1>2, <1>3

(* ... and running a task.                                                 *)
LEMMA TakenTask ==
  ASSUME tasks \in Seq(Task), Posted, NEW call, NEW cb, Take(call, cb)
  PROVE  /\ Tail(tasks) \in Seq(Task)
         /\ \A i \in DOMAIN Tail(tasks) : Tail(tasks)[i].cb \in given \cup {"none"}
         /\ cb \in given \cup {"none"}
<1>1. 1 \in DOMAIN tasks /\ tasks[1] = [call |-> call, cb |-> cb]
  BY DEF Take
<1>2. tasks[1].cb = cb
  BY <1>1
<1> QED BY <1>1, <1>2 DEF Posted, Take

-----------------------------------------------------------------------------
LEMMA StartTransactionStep ==
  ASSUME IInv, stage \in {"new", "cookies", "loading"}, IsSuccess, StartTransaction, StartStep
  PROVE  IInv' /\ Stays
<1> USE DEF IInv
<1>1. ~is_done /\ ~canceled /\ request = "live" /\ linked = {} /\ delivered = 0
    /\ given = {}
  BY TypeParts DEF Working, Ended, Flags, IsSuccess, Length, Given
<1>2. Flags'
  BY Zenon, TypeParts DEF Flags, StartTransaction, StartStep, ownerVars, Ask, NotifyCanceled
<1>3. tasks' \in Seq(Task) /\ Posted'
  <2>1. CASE NotifyCanceled(tasks) /\ UNCHANGED given
    BY <2>1, TypeParts, CanceledTasks DEF Data, Posted
  <2>2. CASE given' = given \cup {"headers"} /\ UNCHANGED tasks
    BY <2>2, TypeParts DEF Data, Posted
  <2> QED BY <2>1, <2>2 DEF StartTransaction
<1>4. Data'
  BY <1>1, <1>3, TypeParts DEF Data, CallbackType, StartTransaction, StartStep, ownerVars, NotifyCanceled
<1>5. Working' /\ Ended'
  BY <1>1, TypeParts DEF Working, Ended, Data, StartTransaction, StartStep, ownerVars, IsSuccess, NotifyCanceled
<1>6. Told' /\ Length' /\ Given'
  BY <1>1, TypeParts DEF Told, Length, Given, LengthKept, Data, StartTransaction, StartStep, ownerVars, Ask, NotifyCanceled
<1>7. Stays
  BY DEF Stays, IsSuccess
<1> QED BY <1>2, <1>3, <1>4, <1>5, <1>6, <1>7, TypeParts

LEMMA DoStartTransactionStep ==
  ASSUME IInv, stage \in {"new", "cookies", "loading"}, DoStartTransaction, StartStep
  PROVE  IInv' /\ Stays
<1> USE DEF IInv
<1>1. CASE IsSuccess
  BY <1>1, StartTransactionStep DEF DoStartTransaction
<1>2. CASE ~IsSuccess
  <2>1. is_done /\ status = "CANCELED" /\ stage # "new" /\ NotifyCanceled(tasks)
        /\ stage' = "responded" /\ UNCHANGED <<callback, linked, given, askedLate>>
    BY <1>2, TypeParts DEF Working, Data, Flags, IsSuccess, DoStartTransaction, Ended
  <2>2. Flags'
    BY <2>1, Zenon, TypeParts DEF Flags, StartStep, ownerVars, NotifyCanceled
  <2>3. tasks' \in Seq(Task) /\ Posted'
    BY <2>1, TypeParts, CanceledTasks DEF Data, Posted
  <2>4. Data'
    BY <2>1, <2>3, TypeParts DEF Data, StartStep, ownerVars, NotifyCanceled
  <2>5. Working' /\ Ended'
    BY <2>1, TypeParts DEF Working, Ended, Data, StartStep, ownerVars, IsSuccess, NotifyCanceled
  <2>6. Told' /\ Length' /\ Given'
    BY <2>1, TypeParts DEF Told, Length, Given, LengthKept, Data, StartStep, ownerVars, NotifyCanceled
  <2>7. Stays
    BY <2>1 DEF Stays, NotifyCanceled, IsSuccess
  <2> QED BY <2>2, <2>3, <2>4, <2>5, <2>6, <2>7, TypeParts
<1> QED BY <1>1, <1>2

(* Waiting for the cookies of the request.                                 *)
LEMMA CookiesWait ==
  ASSUME IInv, stage \in {"new", "cookies"}, stage' \in {"cookies", "loading"},
         status' = status \/ (stage = "new" /\ status' = "IO_PENDING"),
         UNCHANGED <<is_done, callback, linked, given, tasks, askedLate>>, StartStep
  PROVE  IInv' /\ Stays
<1> USE DEF IInv
<1>1. Flags'
  BY Zenon, TypeParts DEF Flags, StartStep, ownerVars
<1>2. Data'
  BY TypeParts DEF Data, StartStep, ownerVars
<1>3. Working' /\ Ended'
  BY TypeParts DEF Working, Ended, Data, Flags, StartStep, ownerVars
<1>4. Told' /\ Length' /\ Posted' /\ Given'
  <2>1. stage = "new" => ~is_done
    BY TypeParts DEF Ended, Flags
  <2> QED BY <2>1, TypeParts DEF Told, Length, LengthKept, Posted, Given, StartStep, ownerVars
<1>5. Stays
  BY TypeParts DEF Stays, Ended, Working, Flags
<1> QED BY <1>1, <1>2, <1>3, <1>4, <1>5, TypeParts

LEMMA StartSteps ==
  ASSUME IInv, Start \/ CheckCookiePolicyAndLoad \/ OnCookiesLoaded
  PROVE  IInv' /\ Stays
<1>1. CASE Start
  <2>1. CASE DoStartTransaction
    BY <1>1, <2>1, DoStartTransactionStep DEF Start
  <2>2. CASE ~DoStartTransaction
    <3>1. /\ stage \in {"new", "cookies"} /\ stage' \in {"cookies", "loading"}
          /\ stage = "new" /\ status' = "IO_PENDING"
          /\ UNCHANGED <<is_done, callback, linked, given, tasks, askedLate>> /\ StartStep
      BY <1>1, <2>2 DEF Start
    <3> QED BY <3>1, CookiesWait
  <2> QED BY <2>1, <2>2
<1>2. CASE CheckCookiePolicyAndLoad
  <2>1. CASE DoStartTransaction
    BY <1>2, <2>1, DoStartTransactionStep DEF CheckCookiePolicyAndLoad
  <2>2. CASE ~DoStartTransaction
    <3>1. /\ stage \in {"new", "cookies"} /\ stage' \in {"cookies", "loading"}
          /\ UNCHANGED <<is_done, callback, linked, given, tasks, askedLate>> /\ StartStep
      BY <1>2, <2>2 DEF CheckCookiePolicyAndLoad
    <3>2. status' = status
      BY <1>2, <2>2 DEF CheckCookiePolicyAndLoad
    <3> QED BY <3>1, <3>2, CookiesWait
  <2> QED BY <2>1, <2>2
<1>3. CASE OnCookiesLoaded
  BY <1>3, DoStartTransactionStep DEF OnCookiesLoaded
<1> QED BY <1>1, <1>2, <1>3

-----------------------------------------------------------------------------
(* The response starts, or waits for its next cookie to be saved.          *)
LEMMA SaveNextCookieData ==
  ASSUME NEW n \in Int, n <= MaxCookies, SaveNextCookie(n),
         told \in {"nothing", "started", "failed", "eof"}, response_started \in BOOLEAN
  PROVE  /\ \/ /\ status' = "SUCCESS" /\ stage' = "responded" /\ response_started' = TRUE
               /\ ~response_started => told' = "started"
            \/ /\ status' = "IO_PENDING" /\ stage' = "saving"
               /\ UNCHANGED <<response_started, told>>
         /\ cookies' \in 0 .. MaxCookies
         /\ told' \in {"nothing", "started", "failed", "eof"}
         /\ response_started' \in BOOLEAN
<1>1. CASE HeadersComplete
  BY <1>1, CookieAssumption DEF HeadersComplete
<1>2. CASE ~HeadersComplete
  BY <1>2, CookieAssumption DEF SaveNextCookie
<1> QED BY <1>1, <1>2

LEMMA OnCookieSavedStep ==
  ASSUME IInv, OnCookieSaved
  PROVE  IInv' /\ Stays
<1> USE DEF IInv
<1>1. CASE IsSuccess
  <2>1. /\ ~is_done /\ ~canceled /\ request = "live" /\ linked = {} /\ callback = "none"
        /\ delivered = 0 /\ ~response_started /\ ~reading /\ ~dest /\ stage = "saving"
    BY <1>1, TypeParts DEF Working, Ended, Flags, IsSuccess, Length, OnCookieSaved
  <2>2. SaveNextCookie(cookies - 1) /\ UNCHANGED <<is_done, tasks>>
    BY <1>1 DEF OnCookieSaved, NextCookieFollows
  <2>3. UNCHANGED <<request, callback, done, remaining, callbackVars, reading, history>>
    BY DEF OnCookieSaved
  <2>4. cookies - 1 \in Int /\ cookies - 1 <= MaxCookies
    BY TypeParts, CookieAssumption DEF Data
  <2>5. /\ \/ /\ status' = "SUCCESS" /\ stage' = "responded" /\ response_started' = TRUE
               /\ told' = "started"
           \/ /\ status' = "IO_PENDING" /\ stage' = "saving"
               /\ UNCHANGED <<response_started, told>>
        /\ cookies' \in 0 .. MaxCookies
        /\ told' \in {"nothing", "started", "failed", "eof"}
        /\ response_started' \in BOOLEAN
    BY <2>1, <2>2, <2>4, SaveNextCookieData, TypeParts DEF Data, Flags
  <2>6. Flags'
    BY <2>2, <2>3, <2>5, Zenon, TypeParts DEF Flags, callbackVars, history
  <2>7. Data'
    BY <2>2, <2>3, <2>5, TypeParts DEF Data, callbackVars, history
  <2>8. Working' /\ Ended' /\ Told' /\ Length' /\ Posted' /\ Given' /\ Stays
    BY <2>1, <2>2, <2>3, <2>5, TypeParts
       DEF Working, Ended, Told, Length, LengthKept, Posted, Given, Stays, callbackVars, history, IsSuccess
  <2> QED BY <2>6, <2>7, <2>8, TypeParts
<1>2. CASE ~IsSuccess
  <2>1. /\ is_done /\ status = "CANCELED" /\ NotifyCanceled(tasks)
        /\ stage' = "responded" /\ cookies' = 0 /\ stage = "saving"
        /\ UNCHANGED <<response_started, told>>
        /\ UNCHANGED <<request, callback, done, remaining, callbackVars, reading, history>>
    BY <1>2, TypeParts DEF Working, Data, Flags, IsSuccess, OnCookieSaved, NextCookieFollows
  <2>2. is_done' = TRUE /\ status' = "CANCELED"
    BY <2>1 DEF NotifyCanceled, IsSuccess
  <2>3. tasks' \in Seq(Task) /\ Posted'
    BY <2>1, TypeParts, CanceledTasks DEF Data, Posted, callbackVars
  <2>4. Flags'
    BY <2>1, <2>2, Zenon, TypeParts DEF Flags, callbackVars, history
  <2>5. Data'
    BY <2>1, <2>2, <2>3, CookieAssumption, TypeParts DEF Data, callbackVars, history
  <2>6. Working' /\ Ended' /\ Told' /\ Length' /\ Given' /\ Stays
    BY <2>1, <2>2, TypeParts
       DEF Working, Ended, Told, Length, LengthKept, Given, Stays, callbackVars, history
  <2> QED BY <2>3, <2>4, <2>5, <2>6, TypeParts
<1> QED BY <1>1, <1>2

-----------------------------------------------------------------------------
(* What ReadRawData does to the callback: there is one for bytes then.     *)
LEMMA ReadData ==
  ASSUME Data, Flags, Length, Posted, ~canceled, ~askedLate, stage = "responded",
         callback \in {"none", "bytes"}, linked = {callback} \ {"none"},
         UNCHANGED announced,
         ReadEnds \/ ReadGives \/ ReadWaits
  PROVE  /\ callback' \in {"none", "bytes"} /\ linked' = {callback'} \ {"none"}
         /\ callback # "none" => callback' = callback
         /\ ReadWaits => callback' = "bytes"
         /\ given \subseteq given' /\ given' \in SUBSET CallbackType
         /\ ~askedLate' /\ askedLate' \in BOOLEAN
         /\ remaining' \in -1 .. MaxBytes /\ delivered' \in Nat /\ LengthKept'
         /\ done' \in BOOLEAN
<1> DEFINE Asks == /\ callback' = "bytes" /\ linked' = {"bytes"}
                   /\ given' = given \cup {"bytes"}
                   /\ ~askedLate' /\ askedLate' \in BOOLEAN
                   /\ given' \in SUBSET CallbackType
<1>1. ReadResponse => Asks
  <2> SUFFICES ASSUME ReadResponse PROVE Asks
    OBVIOUS
  <2>1. ~askedLate' /\ askedLate' \in BOOLEAN
    BY Zenon DEF ReadResponse, Ask
  <2>2. callback' = "bytes"
    BY DEF ReadResponse
  <2>3. linked' = {"bytes"} /\ given' = given \cup {"bytes"} /\ given' \in SUBSET CallbackType
    BY <2>2 DEF ReadResponse, CallbackType, Data
  <2> QED BY <2>1, <2>2, <2>3
<1>5. ReadWaits => callback' = "bytes"
  BY <1>1 DEF ReadWaits
<1>2. CASE ReadEnds
  <2>1. done' \in BOOLEAN
    BY <1>2, Zenon DEF ReadEnds
  <2>2. UNCHANGED <<remaining, delivered>> /\ (Asks \/ UNCHANGED <<callback, linked, given, askedLate>>)
    BY <1>1, <1>2 DEF ReadEnds
  <2>3. ~askedLate' /\ askedLate' \in BOOLEAN
    <3>1. CASE Asks
      BY <3>1
    <3>2. CASE UNCHANGED askedLate
      BY <3>2, Zenon DEF Flags
    <3> QED BY <2>2, <3>1, <3>2
  <2>4. remaining' \in -1 .. MaxBytes /\ delivered' \in Nat /\ LengthKept'
    BY <2>2 DEF Data, Length, LengthKept
  <2>5. given \subseteq given' /\ given' \in SUBSET CallbackType
    <3>1. CASE Asks
      BY <3>1 DEF Data
    <3>2. CASE UNCHANGED given
      BY <3>2 DEF Data
    <3> QED BY <2>2, <3>1, <3>2
  <2> QED BY <1>5, <2>1, <2>2, <2>3, <2>4, <2>5
<1>3. CASE ReadGives
  <2>1. Asks /\ done' \in BOOLEAN
    BY <1>1, <1>3 DEF ReadGives, Flags
  <2>2. PICK n \in 1 .. MaxBytes + 1 :
          /\ delivered' = delivered + Normalized(n)
          /\ remaining' = IF remaining > 0 THEN remaining - Normalized(n) ELSE remaining
    BY <1>3 DEF ReadGives
  <2>3. /\ Normalized(n) \in Nat /\ remaining # 0
        /\ remaining > 0 => Normalized(n) <= remaining
    BY <1>3, SizeAssumption DEF Normalized, Asked, Data, ReadGives, ReadResponse
  <2>4. remaining' \in -1 .. MaxBytes /\ delivered' \in Nat /\ LengthKept'
    BY <2>2, <2>3, SizeAssumption DEF Data, Length, LengthKept
  <2> QED BY <1>5, <2>1, <2>4
<1>4. CASE ReadWaits
  <2>1. Asks /\ UNCHANGED <<done, remaining, delivered>>
    BY <1>1, <1>4 DEF ReadWaits
  <2> QED BY <2>1 DEF Data, Flags, Length, LengthKept
<1> QED BY <1>2, <1>3, <1>4

LEMMA ReadStep ==
  ASSUME IInv, Read
  PROVE  IInv' /\ Stays
<1> USE DEF IInv
<1>1. /\ ~is_done /\ ~canceled /\ ~askedLate /\ request = "live" /\ stage = "responded"
      /\ callback \in {"none", "bytes"} /\ linked = {callback} \ {"none"}
      /\ ~reading /\ ~dest /\ response_started /\ status = "SUCCESS" /\ told = "started"
  BY TypeParts DEF Working, Told, Data, Flags, Read
<1>2. /\ ReadEnds \/ ReadGives \/ ReadWaits
      /\ UNCHANGED <<request, response_started, stage, cookies, canceled, announced>>
  BY DEF Read
<1>3. /\ callback' \in {"none", "bytes"} /\ linked' = {callback'} \ {"none"}
      /\ ReadWaits => callback' = "bytes"
      /\ given \subseteq given' /\ given' \in SUBSET CallbackType
      /\ ~askedLate' /\ askedLate' \in BOOLEAN
      /\ remaining' \in -1 .. MaxBytes /\ delivered' \in Nat /\ LengthKept'
      /\ done' \in BOOLEAN
  BY <1>1, <1>2, ReadData, TypeParts
<1>4. CASE /\ ReadEnds
           /\ told' = "eof" /\ is_done' = TRUE /\ tasks' = Append(tasks, CompleteNotifyDone)
           /\ UNCHANGED <<status, reading, dest>>
  <2>1. CompleteNotifyDone \in Task /\ CompleteNotifyDone.cb = "none"
    BY DEF CompleteNotifyDone, Task
  <2>2. tasks' \in Seq(Task) /\ Posted'
    BY <1>3, <1>4, <2>1, TypeParts DEF Data, Posted
  <2>3. Flags'
    BY <1>2, <1>3, <1>4, Zenon, TypeParts DEF Flags
  <2>4. Data'
    BY <1>2, <1>3, <1>4, <2>2, TypeParts DEF Data, CallbackType
  <2>5. Working' /\ Ended' /\ Told' /\ Length' /\ Given' /\ Stays
    BY <1>1, <1>2, <1>3, <1>4 DEF Working, Ended, Told, Length, Given, Stays, ReadEnds
  <2> QED BY <2>2, <2>3, <2>4, <2>5, TypeParts
<1>5. CASE /\ ReadGives
           /\ UNCHANGED <<told, is_done, tasks, status, reading, dest>>
  <2>1. Posted'
    BY <1>3, <1>5 DEF Posted
  <2>2. Flags'
    BY <1>2, <1>3, <1>5, Zenon, TypeParts DEF Flags
  <2>3. Data'
    BY <1>2, <1>3, <1>5, TypeParts DEF Data, CallbackType
  <2>4. Working' /\ Ended' /\ Told' /\ Length' /\ Given' /\ Stays
    BY <1>1, <1>2, <1>3, <1>5 DEF Working, Ended, Told, Length, Given, Stays
  <2> QED BY <2>1, <2>2, <2>3, <2>4, TypeParts
<1>6. CASE /\ ReadWaits
           /\ status' = "IO_PENDING" /\ reading' = TRUE /\ dest' = TRUE
           /\ UNCHANGED <<told, is_done, tasks>>
  <2>1. Posted'
    BY <1>3, <1>6 DEF Posted
  <2>2. Flags'
    BY <1>2, <1>3, <1>6, Zenon, TypeParts DEF Flags
  <2>3. Data'
    BY <1>2, <1>3, <1>6, TypeParts DEF Data, CallbackType
  <2>4. Working' /\ Ended' /\ Told' /\ Length' /\ Given' /\ Stays
    BY <1>1, <1>2, <1>3, <1>6 DEF Working, Ended, Told, Length, Given, Stays
  <2> QED BY <2>1, <2>2, <2>3, <2>4, TypeParts
<1> QED BY <1>4, <1>5, <1>6 DEF Read

-----------------------------------------------------------------------------
LEMMA HandlerCallsStep ==
  ASSUME IInv, NEW call \in {"Continue", "Cancel"}, NEW cb \in CallbackType, HandlerCalls(call, cb)
  PROVE  IInv' /\ Stays
<1> USE DEF IInv
<1>1. UNCHANGED <<netVars, jobVars, callbackVars, ownerVars, history>>
  BY DEF HandlerCalls
<1> USE DEF netVars, jobVars, callbackVars, ownerVars, history
<1>2. tasks' \in Seq(Task) /\ Posted'
  <2>1. [call |-> call, cb |-> cb] \in Task /\ [call |-> call, cb |-> cb].cb \in given
    BY DEF Task, HandlerCalls
  <2> QED BY <1>1, <2>1, TypeParts DEF HandlerCalls, Data, Posted
<1>3. Flags'
  BY <1>1, Zenon, TypeParts DEF Flags
<1>4. Data'
  BY <1>1, <1>2, TypeParts DEF Data
<1>5. Working' /\ Ended' /\ Told' /\ Length' /\ Given' /\ Stays
  BY <1>1 DEF Working, Ended, Told, Length, LengthKept, Given, Stays
<1> QED BY <1>2, <1>3, <1>4, <1>5, TypeParts

LEMMA RunDetachedStep ==
  ASSUME IInv, RunDetached
  PROVE  IInv' /\ Stays
<1> USE DEF IInv
<1>1. UNCHANGED <<netVars, jobVars, callbackVars, reading, told, history>> /\ request' = request
  BY DEF RunDetached, Take
<1> USE DEF netVars, jobVars, callbackVars, history
<1>2. tasks' \in Seq(Task) /\ Posted'
  BY <1>1, TakenTask, TypeParts DEF RunDetached, Posted, Data
<1>3. Flags'
  BY <1>1, Zenon, TypeParts DEF Flags
<1>4. Data'
  BY <1>1, <1>2, TypeParts DEF Data
<1>5. Working' /\ Ended' /\ Told' /\ Length' /\ Given' /\ Stays
  BY <1>1 DEF Working, Ended, Told, Length, LengthKept, Given, Stays
<1> QED BY <1>2, <1>3, <1>4, <1>5, TypeParts

LEMMA ContinueHeadersStep ==
  ASSUME IInv, ContinueHeaders
  PROVE  IInv' /\ Stays
<1> USE DEF IInv
<1>1. /\ Tail(tasks) \in Seq(Task) /\ "headers" \in given
      /\ \A i \in DOMAIN Tail(tasks) : Tail(tasks)[i].cb \in given \cup {"none"}
  BY TakenTask, TypeParts DEF ContinueHeaders, Data
<1>2. /\ ~is_done /\ stage = "processing" /\ ~response_started /\ ~canceled /\ ~askedLate
      /\ linked = {"headers"} /\ request = "live" /\ ~reading /\ ~dest /\ delivered = 0
      /\ status # "CANCELED"
  BY <1>1, TypeParts DEF Working, Ended, Told, Length, Data, Flags, ContinueHeaders
<1>3. /\ SendHeaders /\ linked' = {} /\ tasks' = Tail(tasks) /\ request' = request
      /\ UNCHANGED <<is_done, done, given, dest, reading, canceled, delivered>>
  BY <1>2 DEF ContinueHeaders, Take
<1>4. /\ \/ /\ status' = "SUCCESS" /\ stage' = "responded" /\ response_started' = TRUE
            /\ told' = "started"
         \/ /\ status' = "IO_PENDING" /\ stage' = "saving"
            /\ UNCHANGED <<response_started, told>>
      /\ cookies' \in 0 .. MaxCookies
      /\ told' \in {"nothing", "started", "failed", "eof"}
      /\ response_started' \in BOOLEAN
  <2>1. MaxCookies \in Int /\ MaxCookies <= MaxCookies
    BY CookieAssumption
  <2>2. SaveNextCookie(MaxCookies)
    BY <1>3 DEF SendHeaders
  <2>3. told \in {"nothing", "started", "failed", "eof"} /\ response_started \in BOOLEAN
    BY TypeParts DEF Data, Flags
  <2> QED BY <1>2, <2>1, <2>2, <2>3, SaveNextCookieData
<1>5. callback' = "none" /\ ~askedLate' /\ askedLate' \in BOOLEAN
  BY <1>2, <1>3, Zenon DEF SendHeaders, Ask
<1>6. remaining' \in -1 .. MaxBytes /\ announced' \in -1 .. MaxBytes /\ remaining' = announced'
  BY <1>3 DEF SendHeaders
<1>7. tasks' \in Seq(Task) /\ Posted'
  BY <1>1, <1>3 DEF Posted
<1>8. Flags'
  BY <1>3, <1>4, <1>5, Zenon, TypeParts DEF Flags
<1>9. Data'
  BY <1>3, <1>4, <1>5, <1>6, <1>7, TypeParts DEF Data
<1>10. Working' /\ Ended' /\ Stays
  BY <1>2, <1>3, <1>4, <1>5 DEF Working, Ended, Stays
<1>11. Told' /\ Given'
  BY <1>2, <1>3, <1>4, <1>5 DEF Told, Given
<1>12. Length'
  <2>1. delivered' = 0 /\ announced' = remaining' /\ remaining' \in Int /\ remaining' >= -1
    BY <1>2, <1>3, <1>6, SizeAssumption
  <2>2. CASE remaining' = -1
    BY <2>1, <2>2 DEF Length, LengthKept
  <2>3. CASE remaining' # -1
    <3>1. remaining' >= 0
      BY <2>1, <2>3
    <3>2. delivered' + remaining' = announced'
      <4>1. \A r \in Int : 0 + r = r
        OBVIOUS
      <4>2. 0 + remaining' = announced'
        BY <2>1, <4>1, Zenon
      <4> QED BY <2>1, <4>2, Zenon
    <3> QED BY <2>1, <2>3, <3>1, <3>2 DEF Length, LengthKept
  <2> QED BY <2>2, <2>3
<1> QED BY <1>7, <1>8, <1>9, <1>10, <1>11, <1>12, TypeParts

LEMMA ContinueBytesStep ==
  ASSUME IInv, ContinueBytes
  PROVE  IInv' /\ Stays
<1> USE DEF IInv
<1>1. /\ Tail(tasks) \in Seq(Task) /\ tasks' = Tail(tasks)
      /\ \A i \in DOMAIN Tail(tasks) : Tail(tasks)[i].cb \in given \cup {"none"}
      /\ "bytes" \in linked /\ request' = request
  BY TakenTask, TypeParts DEF ContinueBytes, Data, Take
<1>2. UNCHANGED <<is_done, response_started, stage, cookies, canceled, announced>>
  BY DEF ContinueBytes
<1>3. CASE ReadIsWaiting
  <2>1. /\ ~is_done /\ ~canceled /\ ~askedLate /\ request = "live" /\ stage = "responded"
        /\ callback = "bytes" /\ linked = {callback} \ {"none"}
        /\ reading /\ dest /\ response_started /\ status = "IO_PENDING"
    BY <1>1, <1>3, TypeParts DEF Working, Ended, Told, Data, Flags, ReadIsWaiting
  <2>2. ReadEnds \/ ReadGives \/ ReadWaits
    BY <1>3 DEF ContinueBytes
  <2>3. /\ callback' = "bytes" /\ linked' = {callback'} \ {"none"}
        /\ given \subseteq given' /\ given' \in SUBSET CallbackType
        /\ ~askedLate' /\ askedLate' \in BOOLEAN
        /\ remaining' \in -1 .. MaxBytes /\ delivered' \in Nat /\ LengthKept'
        /\ done' \in BOOLEAN
    BY <1>2, <2>1, <2>2, ReadData, TypeParts
  <2>4. Posted' /\ tasks' \in Seq(Task)
    BY <1>1, <2>3 DEF Posted
  <2>5. CASE /\ dest' = ClearDestination /\ status' = "SUCCESS" /\ reading' = FALSE
             /\ told' = IF done' THEN "eof" ELSE told
    <3>1. Flags'
      BY <1>2, <2>3, <2>5, Zenon, TypeParts DEF Flags, ClearDestination
    <3>2. Data'
      BY <1>1, <1>2, <2>3, <2>4, <2>5, TypeParts DEF Data, CallbackType
    <3>3. Working' /\ Ended' /\ Told' /\ Length' /\ Given' /\ Stays
      BY <1>1, <1>2, <2>1, <2>3, <2>5 DEF Working, Ended, Told, Length, Given, Stays, ClearDestination
    <3> QED BY <2>4, <3>1, <3>2, <3>3, TypeParts
  <2>6. CASE UNCHANGED <<dest, status, reading, told>>
    <3>1. Flags'
      BY <1>2, <2>3, <2>6, Zenon, TypeParts DEF Flags
    <3>2. Data'
      BY <1>1, <1>2, <2>3, <2>4, <2>6, TypeParts DEF Data, CallbackType
    <3>3. Working' /\ Ended' /\ Told' /\ Length' /\ Given' /\ Stays
      BY <1>1, <1>2, <2>1, <2>3, <2>6, TypeParts DEF Working, Ended, Told, Length, Given, Stays
    <3> QED BY <2>4, <3>1, <3>2, <3>3, TypeParts
  <2> QED BY <1>3, <2>5, <2>6 DEF ContinueBytes
<1>4. CASE ~ReadIsWaiting
  <2>1. UNCHANGED <<status, callback, done, remaining, callbackVars, reading, told, askedLate, delivered>>
    BY <1>4 DEF ContinueBytes
  <2> USE DEF callbackVars
  <2>2. Posted' /\ tasks' \in Seq(Task)
    BY <1>1, <2>1 DEF Posted
  <2>3. Flags'
    BY <1>2, <2>1, Zenon, TypeParts DEF Flags
  <2>4. Data'
    BY <1>1, <1>2, <2>1, <2>2, TypeParts DEF Data
  <2>5. Working' /\ Ended' /\ Told' /\ Length' /\ Given' /\ Stays
    BY <1>1, <1>2, <2>1 DEF Working, Ended, Told, Length, LengthKept, Given, Stays
  <2> QED BY <2>2, <2>3, <2>4, <2>5, TypeParts
<1> QED BY <1>3, <1>4

-----------------------------------------------------------------------------
(* Kill, by whomever: nothing reaches the job any more.                    *)
LEMMA Killed ==
  ASSUME IInv, stage # "new", KillJob, is_done' = TRUE, request' \in {"live", "gone"},
         \/ status' = IF ~is_done /\ IsSuccess THEN "CANCELED" ELSE status
         \/ status' = IF IsSuccess THEN "CANCELED" ELSE status,
         request' = "gone" => status' = "CANCELED",
         "headers" \notin linked \/ ~is_done \/ request' = "gone",
         tasks' \in Seq(Task), Posted',
         UNCHANGED <<response_started, stage, cookies, done, remaining, given, dest, told,
                     askedLate, announced, delivered, reading>>
  PROVE  IInv' /\ Stays
<1> USE DEF IInv
<1>1. Flags'
  BY Zenon, TypeParts DEF Flags, KillJob
<1>2. Data'
  BY TypeParts DEF Data, KillJob, Detach, IsSuccess
<1>3. linked' = {} /\ status' # "IO_PENDING"
  BY TypeParts DEF Working, Ended, KillJob, Detach, IsSuccess, Data, Flags
<1>4. canceled' => status' = "CANCELED"
  BY TypeParts DEF Working, Ended, Told, KillJob, IsSuccess, Data, Flags
<1>5. status' = "SUCCESS" => request' = "live" /\ stage' = "responded" /\ done'
  BY TypeParts DEF Working, Ended, IsSuccess, Data, Flags
<1>6. Working' /\ Ended' /\ Told'
  BY <1>3, <1>4, <1>5 DEF Working, Ended, Told
<1>7. Length' /\ Given'
  BY DEF Length, LengthKept, Given
<1>8. Stays
  BY DEF Stays, IsSuccess
<1> QED BY <1>1, <1>2, <1>6, <1>7, <1>8, TypeParts

LEMMA CancelOnIOThreadStep ==
  ASSUME IInv, NEW cb \in CallbackType, CancelOnIOThread(cb)
  PROVE  IInv' /\ Stays
<1> USE DEF IInv
<1>1. /\ Tail(tasks) \in Seq(Task) /\ cb \in given /\ request' = request
      /\ \A i \in DOMAIN Tail(tasks) : Tail(tasks)[i].cb \in given \cup {"none"}
  BY TakenTask, TypeParts DEF CancelOnIOThread, Data, Take, CallbackType
<1>2. stage # "new" /\ request = "live" /\ ("headers" \notin linked \/ ~is_done)
  BY <1>1, TypeParts DEF CancelOnIOThread, Working, Ended, Given, Data, Flags
<1>3. NotifyCanceled(Tail(tasks)) /\ KillJob
      /\ UNCHANGED <<response_started, stage, cookies, done, remaining, given, dest, told,
                     askedLate, announced, delivered, reading>>
  BY DEF CancelOnIOThread, KillRequest
<1>4. tasks' \in Seq(Task) /\ Posted'
  BY <1>1, <1>3, CanceledTasks
<1>5. is_done' = TRUE /\ status' = IF ~is_done /\ IsSuccess THEN "CANCELED" ELSE status
  BY <1>3 DEF NotifyCanceled
<1> QED BY <1>1, <1>2, <1>3, <1>4, <1>5, Killed

LEMMA CancelStep ==
  ASSUME IInv, Cancel
  PROVE  IInv' /\ Stays
<1> USE DEF IInv
<1>1. /\ stage # "new" /\ request' = request /\ request = "live" /\ ~is_done
      /\ NotifyCanceled(tasks) /\ KillJob
      /\ UNCHANGED <<response_started, stage, cookies, done, remaining, given, dest, told,
                     askedLate, announced, delivered, reading>>
  BY DEF Cancel, KillRequest
<1>2. tasks' \in Seq(Task) /\ Posted'
  BY <1>1, CanceledTasks, TypeParts DEF Data, Posted
<1>3. is_done' = TRUE /\ status' = IF ~is_done /\ IsSuccess THEN "CANCELED" ELSE status
  BY <1>1 DEF NotifyCanceled
<1> QED BY <1>1, <1>2, <1>3, Killed

LEMMA DestroyStep ==
  ASSUME IInv, Destroy
  PROVE  IInv' /\ Stays
<1> USE DEF IInv
<1>1. /\ stage # "new" /\ request' = "gone" /\ KillJob /\ is_done' = TRUE
      /\ status' = IF IsSuccess THEN "CANCELED" ELSE status
      /\ UNCHANGED <<response_started, stage, cookies, done, remaining, given, dest, told,
                     askedLate, announced, delivered, reading, tasks>>
  BY DEF Destroy
<1>2. status' = "CANCELED"
  BY <1>1, TypeParts DEF Data, IsSuccess
<1>3. tasks' \in Seq(Task) /\ Posted'
  BY <1>1, TypeParts DEF Data, Posted
<1> QED BY <1>1, <1>2, <1>3, Killed

LEMMA RunCompleteNotifyDoneStep ==
  ASSUME IInv, RunCompleteNotifyDone
  PROVE  IInv' /\ Stays
<1> USE DEF IInv
<1>1. /\ Tail(tasks) \in Seq(Task) /\ request' = request /\ tasks' = Tail(tasks)
      /\ \A i \in DOMAIN Tail(tasks) : Tail(tasks)[i].cb \in given \cup {"none"}
      /\ UNCHANGED <<status, is_done, jobVars, callbackVars, history>>
  BY TakenTask, TypeParts DEF RunCompleteNotifyDone, Data, Take
<1> USE DEF jobVars, callbackVars, history
<1>2. tasks' \in Seq(Task) /\ Posted'
  BY <1>1 DEF Posted
<1>3. Flags'
  BY <1>1, Zenon, TypeParts DEF Flags, RunCompleteNotifyDone
<1>4. Data'
  BY <1>1, <1>2, TypeParts DEF Data, RunCompleteNotifyDone
<1>5. Length' /\ Given' /\ Ended' /\ Stays
  BY <1>1 DEF Length, LengthKept, Given, Ended, Stays
<1>6. CASE UNCHANGED <<response_started, told, reading>>
  <2>1. Working' /\ Told'
    BY <1>1, <1>6 DEF Working, Told
  <2> QED BY <1>2, <1>3, <1>4, <1>5, <2>1, TypeParts
<1>7. CASE ~IsSuccess /\ told' = "failed"
  <2>1. is_done
    BY <1>7, TypeParts DEF Working, IsSuccess, Data, Flags
  <2>2. Working' /\ Told'
    BY <1>1, <1>7, <2>1 DEF Working, Told
  <2> QED BY <1>2, <1>3, <1>4, <1>5, <2>2, TypeParts
<1> QED BY <1>6, <1>7 DEF RunCompleteNotifyDone

-----------------------------------------------------------------------------
LEMMA InitIInv == Init => IInv
<1> SUFFICES ASSUME Init PROVE IInv
  OBVIOUS
<1>1. Flags
  BY Zenon DEF Init, Flags
<1>2. Data
  BY SizeAssumption, CookieAssumption DEF Init, Data, CallbackType
<1>3. Working /\ Ended /\ Told /\ Length /\ Given /\ Posted
  BY DEF Init, Working, Ended, Told, Length, LengthKept, Given, Posted
<1> QED BY <1>1, <1>2, <1>3, TypeParts DEF IInv

LEMMA NextIInv == IInv /\ [Next]_vars => IInv' /\ Stays
<1> SUFFICES ASSUME IInv, [Next]_vars PROVE IInv' /\ Stays
  OBVIOUS
<1>1. CASE UNCHANGED vars
  <2> USE <1>1 DEF vars, netVars, jobVars, callbackVars, ownerVars, history
  <2>1. Flags'
    BY Zenon, TypeParts DEF IInv, Flags
  <2>2. Data'
    BY TypeParts DEF IInv, Data
  <2>3. Working' /\ Ended' /\ Told' /\ Length' /\ Given' /\ Posted' /\ Stays
    BY DEF IInv, Working, Ended, Told, Length, LengthKept, Given, Posted, Stays
  <2> QED BY <2>1, <2>2, <2>3, TypeParts DEF IInv
<1>2. CASE Start \/ CheckCookiePolicyAndLoad \/ OnCookiesLoaded
  BY <1>2, StartSteps
<1>3. CASE OnCookieSaved
  BY <1>3, OnCookieSavedStep
<1>4. CASE Read
  BY <1>4, ReadStep
<1>5. CASE Cancel
  BY <1>5, CancelStep
<1>6. CASE Destroy
  BY <1>6, DestroyStep
<1>7. CASE \E call \in {"Continue", "Cancel"}, cb \in CallbackType : HandlerCalls(call, cb)
  BY <1>7, HandlerCallsStep
<1>8. CASE RunTask
  BY <1>8, RunDetachedStep, ContinueHeadersStep, ContinueBytesStep, CancelOnIOThreadStep,
     RunCompleteNotifyDoneStep DEF RunTask
<1> QED BY <1>1, <1>2, <1>3, <1>4, <1>5, <1>6, <1>7, <1>8 DEF Next

LEMMA Invariance == Spec => []IInv
BY InitIInv, NextIInv, PTL DEF Spec

(* Every variable keeps its type; the bytes left to be read are never      *)
(* fewer than none.                                                        *)
THEOREM JobTypeCorrect == Spec => []TypeOK
<1>1. IInv => TypeOK
  BY DEF IInv
<1> QED BY <1>1, Invariance, PTL

(* No callback refers to a job that was deleted, however the handler       *)
(* continues and cancels, and whenever the owner destroys the request.     *)
THEOREM CallbacksDetached == Spec => []NoDanglingCallback
<1>1. IInv => NoDanglingCallback
  BY TypeParts DEF IInv, Working, Ended, NoDanglingCallback, Data, Flags
<1> QED BY <1>1, Invariance, PTL

(* The read that waits can be answered, and into its own buffer.           *)
THEOREM ReadsAreKnown == Spec => []WaitingReadIsKnown
<1>1. IInv => WaitingReadIsKnown
  BY TypeParts DEF IInv, Working, WaitingReadIsKnown, Data, Flags
<1> QED BY <1>1, Invariance, PTL

(* A handler that was canceled is left alone.                              *)
THEOREM CanceledIsLeftAlone == Spec => []LeftAloneOnceCanceled
<1>1. IInv => LeftAloneOnceCanceled
  BY DEF IInv, Told, LeftAloneOnceCanceled
<1> QED BY <1>1, Invariance, PTL

(* The owner gets no more bytes than the handler announced.                *)
THEOREM NothingBeyondLength == Spec => []LengthKept
<1>1. IInv => LengthKept
  BY DEF IInv, Length
<1> QED BY <1>1, Invariance, PTL

(* No step of the job revives a request that was canceled.                 *)
THEOREM CanceledForGood == Spec => CanceledStays
<1>1. IInv /\ [Next]_vars => [status = "CANCELED" => status' = "CANCELED"]_vars
  BY NextIInv DEF Stays
<1> QED BY <1>1, Invariance, PTL DEF Spec, CanceledStays
=============================================================================
