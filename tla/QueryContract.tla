----------------------------- MODULE QueryContract -----------------------------
(***************************************************************************)
(* What the message router promises about every single query, with no      *)
(* process, message or task in sight (the class comments of                *)
(* include/wrapper/cef_message_router.h).                                  *)
(*                                                                         *)
(* js[r] is the JavaScript side: not asked yet, waiting, told the final    *)
(* answer, misled (told by mistake the answer to a query of another page), *)
(* or no longer interested (canceled, context or process gone).            *)
(* hd[r] is the handler side: not seen yet, pending with a handler, ended  *)
(* with an answer or a cancel, or dropped: canceled by the browser process *)
(* without an answer.                                                      *)
(***************************************************************************)
CONSTANT Query

VARIABLES js, hd

JsState == {"unused", "waiting", "told", "misled", "gone"}
HdState == {"unseen", "pending", "ended", "dropped"}

TypeOK == js \in [Query -> JsState] /\ hd \in [Query -> HdState]

Init == js = [r \in Query |-> "unused"] /\ hd = [r \in Query |-> "unseen"]

(* JavaScript is told the final answer once, and only of a query the       *)
(* handler side has ended: never of one still pending, nor of one dropped. *)
(* Only the answer to a query that was seen, and whose own JavaScript side *)
(* waits no more, can mislead.                                             *)
MayMislead(s) == js[s] \notin {"unused", "waiting"} /\ hd[s] # "unseen"

JsMove(r) ==
  \/ js'[r] = js[r]
  \/ js[r] = "unused" /\ js'[r] = "waiting"
  \/ js[r] = "waiting" /\ js'[r] = "gone"
  \/ js[r] = "waiting" /\ hd[r] = "ended" /\ js'[r] = "told"
  \/ js[r] = "waiting" /\ js'[r] = "misled" /\ \E s \in Query \ {r} : MayMislead(s)

(* A query is offered to the handlers at most once, after it was asked,    *)
(* and comes to exactly one end.                                           *)
HdMove(r) ==
  \/ hd'[r] = hd[r]
  \/ hd[r] = "unseen" /\ js[r] # "unused" /\ hd'[r] \in {"pending", "ended"}
  \/ hd[r] = "pending" /\ hd'[r] \in {"ended", "dropped"}

Next ==
  /\ js' \in [Query -> JsState]
  /\ hd' \in [Query -> HdState]
  /\ \A r \in Query : JsMove(r) /\ HdMove(r)

Spec == Init /\ [][Next]_<<js, hd>>
=============================================================================
