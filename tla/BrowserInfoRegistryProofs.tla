---------------------- MODULE BrowserInfoRegistryProofs ----------------------
(***************************************************************************)
(* Whichever of the threads comes first, views, infos and browsers belong  *)
(* together: for any number of browsers and views.                         *)
(***************************************************************************)
EXTENDS BrowserInfoRegistry, FiniteSetTheorems, WellFoundedInduction, TLAPS

(* The views an info matches, by themselves or by their frame.             *)
Ids(n) == info[n].views \cup info[n].frames

Numbered ==
  /\ list \subseteq 1 .. lastId
  /\ \A n \in Id : n > lastId => info[n] = Blank
  /\ \A b \in Browser : infoOf[b] <= lastId

(* Where a view is in its life says where its browser is; a popup that is  *)
(* not built yet has one view.                                             *)
Homes ==
  /\ \A v \in View : home[v] = None <=> view[v] = "unused"
  /\ \A v \in View : view[v] \in {"routed", "reserved"} =>
                       browser[home[v]] \in {"promised", "canceled"}
  /\ \A v \in View : view[v] = "hosted" => browser[home[v]] = "live"
  /\ \A v \in View : view[v] = "deleted" => browser[home[v]] \in {"live", "destroyed"}
  /\ \A v \in View : frames[v] # "none" => view[v] \in {"hosted", "deleted"}
  /\ \A v, w \in View : view[v] \in {"routed", "reserved"} /\ home[w] = home[v] => w = v

(* What an info matches belongs to one browser.                            *)
OneHome ==
  \A n \in Id : \A v \in Ids(n) :
    home[v] # None /\ \A w \in Ids(n) : home[w] = home[v]

(* Infos and browsers refer to each other.                                 *)
Infos ==
  /\ \A b \in Browser : infoOf[b] # 0 <=> browser[b] \in {"live", "destroyed"}
  /\ \A b \in Browser : infoOf[b] # 0 => \A v \in Ids(infoOf[b]) : home[v] = b
  /\ \A b, c \in Browser : infoOf[b] # 0 /\ infoOf[b] = infoOf[c] => b = c
  /\ \A b \in Browser : browser[b] = "live" =>
                          info[infoOf[b]].browser = b /\ infoOf[b] \in list
  /\ \A b \in Browser : browser[b] = "destroyed" => infoOf[b] \notin list
  /\ \A n \in Id : info[n].browser # None => infoOf[info[n].browser] = n
  /\ \A n \in 1 .. lastId : info[n].popup \/ \E b \in Browser : infoOf[b] = n

(* A window that will be created is that of a popup that was promised, and *)
(* of no other; the view that opens it has a browser.                      *)
Promised(w) ==
  /\ browser[w.popup] = "promised" /\ home[w.view] = w.popup
  /\ view[w.opener] \in {"hosted", "deleted"}

Promises ==
  /\ \A i \in DOMAIN creating : Promised(creating[i])
  /\ \A i, j \in DOMAIN creating : creating[i].popup = creating[j].popup => i = j
  /\ ui.at = "build" =>
       /\ Promised(ui.window) /\ shutdown.at = "no"
       /\ \A i \in DOMAIN creating : creating[i].popup # ui.window.popup
  /\ ui.at = "unset" => browser[ui.who] = "destroyed"

(* What the IO thread has found stays true of the view it looks for.       *)
Looking ==
  /\ io.at = "found" /\ io.id # 0 =>
       /\ io.id <= lastId /\ home[io.opener] # None
       /\ \A v \in Ids(io.id) : home[v] = home[io.opener]
       /\ info[io.id].browser \in {None, home[io.opener]}
  /\ io.at = "ask" => io.browser = home[io.opener] /\ infoOf[io.browser] # 0

Sweeping ==
  /\ shutdown.at = "sweep" =>
       /\ shutdown.left \subseteq list
       /\ \A b \in Browser : browser[b] = "live" => infoOf[b] \in shutdown.left
  /\ shutdown.at = "over" => \A b \in Browser : browser[b] # "live"

(* One info for a view that is not gone, and what its renderer was told.   *)
Answers ==
  /\ \A v \in View : view[v] # "deleted" =>
       \A m, n \in list : v \in Ids(m) /\ v \in Ids(n) => m = n
  /\ \A v \in View : asked[v] = 0 <=> told[v] = 0
  /\ \A v \in View : view[v] \in {"unused", "reserved"} => asked[v] = 0
  /\ \A v \in View : view[v] = "hosted" =>
       /\ v \in info[infoOf[home[v]]].views
       /\ asked[v] # 0 /\ frames[v] # "deleted" => v \in info[infoOf[home[v]]].frames
       /\ asked[v] # 0 => told[v] = infoOf[home[v]]
  /\ \A v \in View : view[v] = "routed" /\ asked[v] # 0 /\ shutdown.at = "no" =>
       told[v] \in list /\ v \in info[told[v]].views /\ v \in info[told[v]].frames

IInv ==
  /\ TypeOK /\ Numbered /\ Homes /\ OneHome /\ Infos /\ Promises /\ Looking
  /\ Sweeping /\ Answers /\ PopupFindsItsSettings
-----------------------------------------------------------------------------
LEMMA MinInSet ==
  ASSUME NEW S \in SUBSET Nat, S # {}
  PROVE  Min(S) \in S
<1>1. PICK x \in S : \A y \in S : ~ (<<y, x>> \in OpToRel(<, Nat))
  BY WFMin, NatLessThanWellFounded, Zenon
<1>2. \A y \in S : ~ (y < x)
  <2>1. SUFFICES ASSUME NEW y \in S, y < x  PROVE FALSE
    OBVIOUS
  <2>2. <<y, x>> \in OpToRel(<, Nat)
    <3>1. y \in Nat /\ x \in Nat
      OBVIOUS
    <3> QED BY <2>1, <3>1, Zenon DEF OpToRel
  <2> QED BY <1>1, <2>2, Zenon
<1>3. \A y \in S : x <= y
  BY <1>2
<1> QED BY <1>3 DEF Min

LEMMA InfoOf ==
  ASSUME NEW popup \in BOOLEAN, NEW V \in SUBSET View, NEW F \in SUBSET View,
         NEW b \in Browser \cup {None}
  PROVE  [popup |-> popup, views |-> V, frames |-> F, browser |-> b] \in Info
BY Zenon DEF Info

(* What GetOrCreateBrowserInfo finds.                                      *)
LEMMA Found ==
  ASSUME TypeOK, Numbered, NEW v \in View
  PROVE  /\ IdFor(v) \in 1 .. (lastId + 1)
         /\ Matching(v) = {} => IdFor(v) = lastId + 1 /\ IdFor(v) \notin list
         /\ Matching(v) # {} => IdFor(v) \in list /\ v \in Ids(IdFor(v))
         /\ \A n \in list : v \in Ids(n) => Matching(v) # {}
<1>1. lastId \in Nat /\ list \subseteq 1 .. lastId
  BY InfosAssumption DEF TypeOK, Numbered, Id
<1>2. Matching(v) \in SUBSET Nat /\ Matching(v) \subseteq list
  <2>1. \A n \in Matching(v) : n \in list
    BY DEF Matching, OfView, OfFrame
  <2>2. \A n \in list : n \in Nat
    BY <1>1
  <2> QED BY <2>1, <2>2, Zenon
<1>3. Matching(v) # {} => IdFor(v) \in Matching(v)
  <2>1. HAVE Matching(v) # {}
  <2>2. Min(Matching(v)) \in Matching(v)
    BY <1>2, <2>1, MinInSet, Zenon
  <2> QED BY <2>1, <2>2 DEF IdFor
<1>4. Matching(v) = {} => IdFor(v) = lastId + 1
  BY DEF IdFor
<1> QED BY <1>1, <1>2, <1>3, <1>4 DEF Matching, OfView, OfFrame, Ids

(* ... and what it leaves.                                                 *)
LEMMA Left ==
  ASSUME TypeOK, Numbered, NEW v \in View, NEW b \in Browser \cup {None},
         IdFor(v) \in Id, GetOrCreateBrowserInfo(v, b),
         NEW n, n = IdFor(v)
  PROVE  /\ n \in Id /\ info' \in [Id -> Info] /\ list' = list \cup {n}
         /\ \A m \in Id \ {n} : info'[m] = info[m]
         /\ info'[n].views = info[n].views \cup {v}
         /\ info'[n].frames = info[n].frames \cup {v}
         /\ info'[n].browser = IF b = None THEN info[n].browser ELSE b
         /\ n \in list => lastId' = lastId /\ v \in Ids(n) /\ (info'[n].popup <=> info[n].popup)
         /\ n \notin list => /\ lastId' = lastId + 1 /\ n = lastId + 1 /\ info[n] = Blank
                             /\ info'[n].popup
                             /\ \A m \in list : v \notin Ids(m)
         /\ lastId \in Nat /\ lastId' \in Id
<1>1. /\ lastId \in Nat /\ lastId <= MaxId /\ list \subseteq 1 .. lastId
      /\ n \in Id /\ info \in [Id -> Info]
  BY InfosAssumption DEF TypeOK, Numbered, Id
<1>2. info' = Registered(v, b) /\ list' = list \cup {n} /\ lastId' = Max({lastId, n})
  BY DEF GetOrCreateBrowserInfo
<1>3. lastId' = IF n > lastId THEN n ELSE lastId
  BY <1>1, <1>2, InfosAssumption DEF Max, Id
<1>4. \A m \in Id \ {n} : info'[m] = info[m]
  BY <1>1, <1>2 DEF Registered
<1>5. info'[n] = [popup |-> IF n \in list THEN info[n].popup ELSE TRUE,
                  views |-> info[n].views \cup {v},
                  frames |-> info[n].frames \cup {v},
                  browser |-> IF b = None THEN info[n].browser ELSE b]
  BY <1>1, <1>2 DEF Registered, Info
<1>6. info' \in [Id -> Info]
  <2>1. DOMAIN info' = Id /\ info' = [m \in Id |-> info'[m]]
    BY <1>1, <1>2 DEF Registered
  <2>2. info'[n] \in Info
    <3>1. info[n] \in Info
      BY <1>1
    <3>2. /\ info[n].popup \in BOOLEAN /\ info[n].views \in SUBSET View
          /\ info[n].frames \in SUBSET View /\ info[n].browser \in Browser \cup {None}
      BY <3>1, Zenon DEF Info
    <3>3. info[n].views \cup {v} \in SUBSET View /\ info[n].frames \cup {v} \in SUBSET View
      BY <3>2
    <3>4. (IF n \in list THEN info[n].popup ELSE TRUE) \in BOOLEAN
      BY <3>2, Zenon
    <3>5. (IF b = None THEN info[n].browser ELSE b) \in Browser \cup {None}
      BY <3>2
    <3>6. [popup |-> IF n \in list THEN info[n].popup ELSE TRUE,
           views |-> info[n].views \cup {v}, frames |-> info[n].frames \cup {v},
           browser |-> IF b = None THEN info[n].browser ELSE b] \in Info
      BY <3>3, <3>4, <3>5, InfoOf, Zenon
    <3> QED BY <1>5, <3>6, Zenon
  <2>3. \A m \in Id : info'[m] \in Info
    BY <1>1, <1>4, <2>2
  <2> QED BY <2>1, <2>3, Zenon
<1>7. /\ n \in 1 .. (lastId + 1)
      /\ Matching(v) = {} => n = lastId + 1 /\ n \notin list
      /\ Matching(v) # {} => n \in list /\ v \in Ids(n)
      /\ \A m \in list : v \in Ids(m) => Matching(v) # {}
  BY Found
<1>8. n > lastId => info[n] = Blank
  BY <1>1 DEF Numbered
<1>9. info'[n].popup = IF n \in list THEN info[n].popup ELSE TRUE
  BY <1>5
<1>10. /\ n \in list => lastId' = lastId
       /\ n \notin list => lastId' = lastId + 1 /\ n = lastId + 1
       /\ lastId' \in Id
  BY <1>1, <1>3, <1>7, InfosAssumption DEF Id
<1>11. /\ n \in list => (info'[n].popup <=> info[n].popup)
       /\ n \notin list => info'[n].popup
  BY <1>9
<1>12. /\ info'[n].views = info[n].views \cup {v}
       /\ info'[n].frames = info[n].frames \cup {v}
       /\ info'[n].browser = IF b = None THEN info[n].browser ELSE b
  BY <1>5
<1>13. n \in list => v \in Ids(n)
  BY <1>7
<1>14. n \notin list => info[n] = Blank /\ \A m \in list : v \notin Ids(m)
  BY <1>1, <1>7, <1>8, <1>10
<1> QED BY <1>1, <1>2, <1>4, <1>6, <1>10, <1>11, <1>12, <1>13, <1>14
-----------------------------------------------------------------------------
LEMMA Looked ==
  ASSUME TypeOK, Numbered, NEW v \in View
  PROVE  /\ InfoForView(v) \in Id \cup {0}
         /\ InfoForView(v) # 0 => /\ InfoForView(v) \in list
                                  /\ v \in info[InfoForView(v)].views
<1>1. list \subseteq Id /\ \A n \in Id : n \in Nat
  BY InfosAssumption DEF TypeOK, Id
<1>2. CASE OfView(v) = {}
  BY <1>2 DEF InfoForView
<1>3. CASE OfView(v) # {}
  <2>1. OfView(v) \in SUBSET Nat
    <3>1. \A n \in OfView(v) : n \in Nat
      BY <1>1 DEF OfView
    <3> QED BY <3>1, Zenon
  <2>2. InfoForView(v) \in OfView(v)
    BY <1>3, <2>1, MinInSet, Zenon DEF InfoForView
  <2> QED BY <1>1, <2>2 DEF OfView
<1> QED BY <1>2, <1>3

(* The fields of what the threads are in the middle of.                    *)
LEMMA Fields ==
  ASSUME TypeOK
  PROVE  /\ io.at = "found" => io.opener \in View /\ io.id \in Id \cup {0}
         /\ io.at = "ask" => io.opener \in View /\ io.browser \in Browser
         /\ ui.at = "build" => ui.window \in Window
         /\ ui.at = "unset" => ui.who \in Browser
         /\ shutdown.at = "sweep" => shutdown.left \in SUBSET Id
<1>1. io.at = "found" => io.opener \in View /\ io.id \in Id \cup {0}
  BY DEF TypeOK, IOTask
<1>2. io.at = "ask" => io.opener \in View /\ io.browser \in Browser
  BY DEF TypeOK, IOTask
<1>3. ui.at = "build" => ui.window \in Window
  BY DEF TypeOK, UITask
<1>4. ui.at = "unset" => ui.who \in Browser
  BY DEF TypeOK, UITask
<1>5. shutdown.at = "sweep" => shutdown.left \in SUBSET Id
  BY DEF TypeOK, Shutdown
<1> QED BY <1>1, <1>2, <1>3, <1>4, <1>5

LEMMA OpenWindowStep ==
  ASSUME IInv, NEW v \in View, OpenWindow(v)
  PROVE  IInv'
<1> USE InfosAssumption, NoneAssumption DEF IInv
<1>1. io' = [at |-> "found", opener |-> v, id |-> InfoForView(v)]
  BY DEF OpenWindow
<1>2. TypeOK'
  <2>1. io' \in IOTask
    BY <1>1, Looked DEF OpenWindow, IOTask
  <2> QED BY <2>1 DEF TypeOK, OpenWindow, registry, content, renderer
<1>3. Numbered'
  BY DEF Numbered, TypeOK, OpenWindow, registry, content, renderer
<1>4. Homes'
  BY DEF Homes, TypeOK, OpenWindow, registry, content, renderer
<1>5. OneHome'
  BY DEF OneHome, Ids, TypeOK, OpenWindow, registry, content, renderer
<1>6. Infos'
  BY DEF Infos, Ids, TypeOK, OpenWindow, registry, content, renderer
<1>7. Promises'
  BY DEF Promises, Promised, Idle, TypeOK, OpenWindow, registry, content, renderer
<1>8. Looking'
  <2>1. CASE io'.id = 0
    BY <1>1, <2>1 DEF Looking
  <2>2. CASE io'.id # 0
    <3> DEFINE n == InfoForView(v)
    <3>1. n \in Id /\ n <= lastId /\ v \in Ids(n)
      <4>1. n # 0
        BY <1>1, <2>2
      <4> QED BY <4>1, Looked DEF Numbered, Ids, TypeOK, Id
    <3>2. home[v] # None /\ \A w \in Ids(n) : home[w] = home[v]
      BY <3>1 DEF OneHome
    <3>3. info[n].browser \in {None, home[v]}
      <4>1. n # 0 /\ info[n].browser \in Browser \cup {None}
        BY <3>1 DEF TypeOK, Info, Id
      <4> QED BY <3>1, <4>1 DEF Infos
    <3> QED BY <1>1, <3>1, <3>2, <3>3 DEF Looking, Ids, OpenWindow, registry, content
  <2> QED BY <2>1, <2>2
<1>9. Sweeping'
  BY DEF Sweeping, TypeOK, OpenWindow, registry, content, renderer
<1>10. Answers'
  BY DEF Answers, Ids, TypeOK, OpenWindow, registry, content, renderer
<1>11. PopupFindsItsSettings'
  BY DEF PopupFindsItsSettings, TypeOK, OpenWindow, registry, content, renderer
<1> QED BY <1>2, <1>3, <1>4, <1>5, <1>6, <1>7, <1>8, <1>9, <1>10, <1>11

LEMMA ReadBrowserStep ==
  ASSUME IInv, ReadBrowser
  PROVE  IInv'
<1> USE InfosAssumption, NoneAssumption DEF IInv
<1>1. \/ io' = Idle
      \/ /\ io.opener \in View /\ io.id \in Id /\ info[io.id].browser \in Browser
         /\ info[io.id].browser # None
         /\ io' = [at |-> "ask", opener |-> io.opener, browser |-> info[io.id].browser]
  BY Fields DEF ReadBrowser, TypeOK, Info
<1>2. io' # Idle => info[io.id].browser = home[io.opener] /\ infoOf[info[io.id].browser] # 0
  BY <1>1, InfosAssumption DEF Id, ReadBrowser, Looking, Infos
<1>3. TypeOK'
  <2>1. io' \in IOTask
    BY <1>1 DEF Idle, IOTask
  <2> QED BY <2>1 DEF TypeOK, ReadBrowser, registry, content, renderer
<1>4. Numbered'
  BY DEF Numbered, TypeOK, ReadBrowser, registry, content, renderer
<1>5. Homes'
  BY DEF Homes, TypeOK, ReadBrowser, registry, content, renderer
<1>6. OneHome'
  BY DEF OneHome, Ids, TypeOK, ReadBrowser, registry, content, renderer
<1>7. Infos'
  BY DEF Infos, Ids, TypeOK, ReadBrowser, registry, content, renderer
<1>8. Promises'
  BY DEF Promises, Promised, Idle, TypeOK, ReadBrowser, registry, content, renderer
<1>9. Looking'
  BY <1>1, <1>2 DEF Looking, Idle, ReadBrowser, registry, content
<1>10. Sweeping'
  BY DEF Sweeping, TypeOK, ReadBrowser, registry, content, renderer
<1>11. Answers'
  BY DEF Answers, Ids, TypeOK, ReadBrowser, registry, content, renderer
<1>12. PopupFindsItsSettings'
  BY DEF PopupFindsItsSettings, TypeOK, ReadBrowser, registry, content, renderer
<1> QED BY <1>3, <1>4, <1>5, <1>6, <1>7, <1>8, <1>9, <1>10, <1>11, <1>12

LEMMA DenyPopupStep ==
  ASSUME IInv, DenyPopup
  PROVE  IInv'
<1> USE InfosAssumption, NoneAssumption DEF IInv
<1>1. TypeOK'
  BY DEF TypeOK, UITask, IOTask, Shutdown, Idle, Window, DenyPopup, registry, content, renderer
<1>2. Numbered'
  BY DEF Numbered, TypeOK, DenyPopup, registry, content, renderer
<1>3. Homes'
  BY DEF Homes, TypeOK, DenyPopup, registry, content, renderer
<1>4. OneHome'
  BY DEF OneHome, Ids, TypeOK, DenyPopup, registry, content, renderer
<1>5. Infos'
  BY DEF Infos, Ids, TypeOK, DenyPopup, registry, content, renderer
<1>6. Promises'
  BY DEF Promises, Promised, Idle, TypeOK, DenyPopup, registry, content, renderer
<1>7. Looking'
  BY DEF Looking, Ids, Idle, TypeOK, DenyPopup, registry, content, renderer
<1>8. Sweeping'
  BY DEF Sweeping, TypeOK, DenyPopup, registry, content, renderer
<1>9. Answers'
  BY DEF Answers, Ids, TypeOK, DenyPopup, registry, content, renderer
<1>10. PopupFindsItsSettings'
  BY DEF PopupFindsItsSettings, TypeOK, DenyPopup, registry, content, renderer
<1> QED BY <1>1, <1>2, <1>3, <1>4, <1>5, <1>6, <1>7, <1>8, <1>9, <1>10

LEMMA AllowPopupStep ==
  ASSUME IInv, NEW p \in Browser, NEW v \in View, AllowPopup(p, v)
  PROVE  IInv'
<1> USE InfosAssumption, NoneAssumption DEF IInv
<1>1. /\ io.opener \in View /\ io.browser \in Browser /\ home[io.opener] = io.browser
      /\ infoOf[io.browser] # 0 /\ browser[io.browser] \in {"live", "destroyed"}
      /\ view[io.opener] \in {"hosted", "deleted"}
  <2>1. /\ io.opener \in View /\ io.browser \in Browser /\ home[io.opener] = io.browser
        /\ infoOf[io.browser] # 0 /\ browser[io.browser] \in {"live", "destroyed"}
    BY Fields DEF AllowPopup, Looking, Infos
  <2>2. view[io.opener] \in {"unused", "reserved", "routed", "hosted", "deleted"}
    BY <2>1 DEF TypeOK
  <2>3. io.browser # None
    BY <2>1
  <2> QED BY <2>1, <2>2, <2>3 DEF Homes
<1>2. /\ home[v] = None /\ \A n \in Id : v \notin Ids(n)
      /\ browser[p] = "unused" /\ infoOf[p] = 0 /\ view[v] = "unused"
  BY DEF AllowPopup, Homes, OneHome, Infos
<1>3. /\ home'[v] = p /\ view'[v] \in {"routed", "reserved"} /\ browser'[p] = "promised"
      /\ \A w \in View \ {v} : home'[w] = home[w] /\ view'[w] = view[w]
      /\ \A b \in Browser \ {p} : browser'[b] = browser[b]
  BY DEF AllowPopup, TypeOK
<1> DEFINE W == [opener |-> io.opener, popup |-> p, view |-> v]
<1>4. /\ W \in Window
      /\ DOMAIN creating' = 1 .. (Len(creating) + 1) /\ DOMAIN creating = 1 .. Len(creating)
      /\ Len(creating) \in Nat
      /\ \A i \in DOMAIN creating : creating'[i] = creating[i] /\ creating[i] \in Window
      /\ creating'[Len(creating) + 1] = W
  <2>1. W \in Window
    BY <1>1 DEF Window
  <2>2. creating \in Seq(Window) /\ creating' = Append(creating, W)
    BY DEF AllowPopup, TypeOK
  <2> HIDE DEF W
  <2> QED BY <2>1, <2>2
<1>5. TypeOK'
  BY DEF TypeOK, UITask, IOTask, Shutdown, Idle, Window, AllowPopup, NonePending, registry, content, renderer
<1>6. Numbered'
  BY DEF Numbered, TypeOK, AllowPopup, NonePending, registry, content, renderer
<1>7. Homes'
  <2>1. \A w \in View : home[w] # None => home[w] \in Browser /\ home[w] # p
    BY <1>2, NoneAssumption DEF Homes, TypeOK
  <2>2. \A w \in View : home'[w] = None <=> view'[w] = "unused"
    BY <1>3, NoneAssumption DEF Homes
  <2>3. \A w \in View : view'[w] \in {"routed", "reserved"} =>
          browser'[home'[w]] \in {"promised", "canceled"}
    BY <1>2, <1>3, <2>1 DEF Homes
  <2>4. \A w \in View : view'[w] = "hosted" => browser'[home'[w]] = "live"
    BY <1>2, <1>3, <2>1 DEF Homes
  <2>5. \A w \in View : view'[w] = "deleted" => browser'[home'[w]] \in {"live", "destroyed"}
    BY <1>2, <1>3, <2>1 DEF Homes
  <2>6. \A w \in View : frames[w] # "none" => view'[w] \in {"hosted", "deleted"}
    BY <1>2, <1>3 DEF Homes
  <2>7. \A w, u \in View : view'[w] \in {"routed", "reserved"} /\ home'[u] = home'[w] => u = w
    BY <1>2, <1>3, <2>1 DEF Homes
  <2>8. frames' = frames
    BY DEF AllowPopup
  <2> QED BY <2>2, <2>3, <2>4, <2>5, <2>6, <2>7, <2>8 DEF Homes
<1>8. OneHome'
  BY <1>2, <1>3 DEF OneHome, Ids, AllowPopup, registry
<1>9. Infos'
  BY <1>2, <1>3 DEF Infos, Ids, AllowPopup, registry, TypeOK
<1>10. Promises'
  <2>1. \A w \in Window : Promised(w) => Promised(w)' /\ w.popup # p
    BY <1>2, <1>3, NoneAssumption DEF Promised, Window
  <2>2. (\A i \in DOMAIN creating : Promised(creating[i]))'
    <3>1. SUFFICES ASSUME NEW i \in DOMAIN creating'  PROVE Promised(creating[i])'
      OBVIOUS
    <3>2. CASE i \in DOMAIN creating
      <4>1. creating'[i] = creating[i] /\ creating[i] \in Window /\ Promised(creating[i])
        BY <1>4, <3>2 DEF Promises
      <4> QED BY <2>1, <4>1 DEF Promised
    <3>3. CASE i = Len(creating) + 1
      <4>1. creating'[i] = W
        BY <1>4, <3>3
      <4>2. io.opener # v
        BY <1>1, <1>2
      <4> QED BY <1>1, <1>3, <4>1, <4>2 DEF Promised
    <3> QED BY <1>4, <3>1, <3>2, <3>3
  <2>3. \A i, j \in DOMAIN creating' : creating'[i].popup = creating'[j].popup => i = j
    BY <1>4, <2>1 DEF Promises
  <2>4. ui'.at = "build" => ui.window \in Window
    BY Fields DEF AllowPopup
  <2>5. ui'.at = "build" =>
          /\ Promised(ui.window)' /\ shutdown'.at = "no"
          /\ \A i \in DOMAIN creating' : creating'[i].popup # ui'.window.popup
    <3>1. SUFFICES ASSUME ui.at = "build"
                   PROVE  /\ Promised(ui.window)' /\ shutdown.at = "no"
                          /\ \A i \in DOMAIN creating' : creating'[i].popup # ui.window.popup
      BY DEF AllowPopup
    <3>2. ui.window \in Window /\ Promised(ui.window) /\ shutdown.at = "no"
      BY <3>1, Fields DEF Promises
    <3>3. Promised(ui.window)' /\ ui.window.popup # p
      <4>1. ui' = ui
        BY DEF AllowPopup
      <4> QED BY <2>1, <3>2, <4>1 DEF Promised
    <3>4. \A i \in DOMAIN creating : creating'[i].popup # ui.window.popup
      BY <1>4, <3>1 DEF Promises
    <3>5. creating'[Len(creating) + 1].popup = p
      BY <1>4
    <3> QED BY <1>4, <3>2, <3>3, <3>4, <3>5
  <2>6. ui'.at = "unset" => browser'[ui'.who] = "destroyed"
    BY <1>2, <1>3, Fields DEF Promises, AllowPopup
  <2> QED BY <2>2, <2>3, <2>5, <2>6 DEF Promises
<1>11. Looking'
  BY DEF Looking, Ids, Idle, TypeOK, AllowPopup, NonePending, registry, content, renderer
<1>12. Sweeping'
  BY DEF Sweeping, TypeOK, AllowPopup, NonePending, registry, content, renderer
<1>13. Answers'
  BY DEF Answers, Ids, TypeOK, AllowPopup, NonePending, registry, content, renderer
<1>14. PopupFindsItsSettings'
  <2>1. SUFFICES ASSUME NEW i \in DOMAIN creating', view'[creating'[i].opener] = "hosted"
                 PROVE  pending'[home'[creating'[i].opener]] = creating'[i].popup
    BY DEF PopupFindsItsSettings
  <2>2. CASE i \in DOMAIN creating
    <3> DEFINE w == creating[i]
    <3>1. w \in Window /\ creating'[i] = w /\ Promised(w)
      BY <1>4, <2>2 DEF Promises
    <3>2. w.opener # v /\ w.opener \in View
      BY <1>2, <3>1 DEF Promised, Window
    <3>3. pending[home[w.opener]] = w.popup /\ w.popup # None
      BY <1>3, <2>1, <2>2, <3>1, <3>2 DEF PopupFindsItsSettings, Window
    <3> QED BY <1>1, <1>3, <3>1, <3>2, <3>3 DEF AllowPopup, NonePending, TypeOK
  <2>3. CASE i = Len(creating) + 1
    BY <1>1, <1>3, <1>4, <2>1, <2>3 DEF AllowPopup, TypeOK
  <2> QED BY <1>4, <2>2, <2>3
<1> QED BY <1>5, <1>6, <1>7, <1>8, <1>9, <1>10, <1>11, <1>12, <1>13, <1>14

LEMMA StartShutdownStep ==
  ASSUME IInv, StartShutdown
  PROVE  IInv'
<1> USE InfosAssumption, NoneAssumption DEF IInv
<1>1. TypeOK'
  BY DEF TypeOK, UITask, IOTask, Shutdown, Idle, Window, StartShutdown, UIReady, registry, content, renderer
<1>2. Numbered'
  BY DEF Numbered, TypeOK, StartShutdown, UIReady, registry, content, renderer
<1>3. Homes'
  BY DEF Homes, TypeOK, StartShutdown, UIReady, registry, content, renderer
<1>4. OneHome'
  BY DEF OneHome, Ids, TypeOK, StartShutdown, UIReady, registry, content, renderer
<1>5. Infos'
  BY DEF Infos, Ids, TypeOK, StartShutdown, UIReady, registry, content, renderer
<1>6. Promises'
  BY DEF Promises, Promised, Idle, TypeOK, StartShutdown, UIReady, registry, content, renderer
<1>7. Looking'
  BY DEF Looking, Ids, Idle, TypeOK, StartShutdown, UIReady, registry, content, renderer
<1>8. Sweeping'
  <2>1. shutdown'.at = "sweep" /\ shutdown'.left = list
    BY DEF StartShutdown
  <2>2. \A b \in Browser : browser[b] = "live" => infoOf[b] \in list
    BY DEF Infos
  <2> QED BY <2>1, <2>2 DEF Sweeping, StartShutdown, registry
<1>9. Answers'
  BY DEF Answers, Ids, TypeOK, StartShutdown, UIReady, registry, content, renderer
<1>10. PopupFindsItsSettings'
  BY DEF PopupFindsItsSettings, TypeOK, StartShutdown, UIReady, registry, content, renderer
<1> QED BY <1>1, <1>2, <1>3, <1>4, <1>5, <1>6, <1>7, <1>8, <1>9, <1>10

LEMMA EndShutdownStep ==
  ASSUME IInv, EndShutdown
  PROVE  IInv'
<1> USE InfosAssumption, NoneAssumption DEF IInv
<1>1. TypeOK'
  BY DEF TypeOK, UITask, IOTask, Shutdown, Idle, Window, EndShutdown, registry, content, renderer
<1>2. Numbered'
  BY DEF Numbered, TypeOK, EndShutdown, registry, content, renderer
<1>3. Homes'
  BY DEF Homes, TypeOK, EndShutdown, registry, content, renderer
<1>4. OneHome'
  BY DEF OneHome, Ids, TypeOK, EndShutdown, registry, content, renderer
<1>5. Infos'
  BY DEF Infos, Ids, TypeOK, EndShutdown, registry, content, renderer
<1>6. Promises'
  BY DEF Promises, Promised, Idle, TypeOK, EndShutdown, registry, content, renderer
<1>7. Looking'
  BY DEF Looking, Ids, Idle, TypeOK, EndShutdown, registry, content, renderer
<1>8. Sweeping'
  BY DEF Sweeping, TypeOK, EndShutdown, registry, content, renderer
<1>9. Answers'
  BY DEF Answers, Ids, TypeOK, EndShutdown, registry, content, renderer
<1>10. PopupFindsItsSettings'
  BY DEF PopupFindsItsSettings, TypeOK, EndShutdown, registry, content, renderer
<1> QED BY <1>1, <1>2, <1>3, <1>4, <1>5, <1>6, <1>7, <1>8, <1>9, <1>10

LEMMA CreateWindowStep ==
  ASSUME IInv, CreateWindow
  PROVE  IInv'
<1> USE InfosAssumption, NoneAssumption DEF IInv
<1>1. PICK w : w = Head(creating)
  OBVIOUS
<1>2. /\ creating \in Seq(Window) /\ creating # <<>> /\ creating' = Tail(creating)
      /\ w = creating[1] /\ w \in Window /\ w.popup \in Browser /\ w.opener \in View
      /\ Len(creating) \in Nat \ {0} /\ DOMAIN creating = 1 .. Len(creating)
      /\ creating' \in Seq(Window) /\ DOMAIN creating' = 1 .. (Len(creating) - 1)
      /\ \A i \in DOMAIN creating : creating[i] \in Window
      /\ \A i \in DOMAIN creating' : creating'[i] = creating[i + 1]
  <2>1. creating \in Seq(Window) /\ creating # <<>> /\ creating' = Tail(creating)
    BY DEF TypeOK, CreateWindow
  <2>2. w = creating[1] /\ creating[1] \in Window
    BY <1>1, <2>1
  <2>3. w \in Window /\ w.popup \in Browser /\ w.opener \in View
    BY <1>1, <2>1, <2>2 DEF Window
  <2>4. Len(creating) \in Nat \ {0} /\ DOMAIN creating = 1 .. Len(creating)
    BY <2>1
  <2>5. creating' \in Seq(Window) /\ DOMAIN creating' = 1 .. (Len(creating) - 1)
    BY <2>1, <2>4
  <2>6. \A i \in DOMAIN creating' : creating'[i] = creating[i + 1]
    BY <2>1, <2>4, <2>5
  <2>7. \A i \in DOMAIN creating : creating[i] \in Window
    BY <2>1
  <2> QED BY <1>1, <2>1, <2>2, <2>3, <2>4, <2>5, <2>6, <2>7
<1>3. view[w.opener] = "hosted" =>
        /\ pending' = [pending EXCEPT ![home[w.opener]] = None]
        /\ ui' = [at |-> "build", window |-> w] /\ browser' = browser
  BY <1>1 DEF CreateWindow
<1>4. view[w.opener] # "hosted" =>
        browser' = [browser EXCEPT ![w.popup] = "canceled"] /\ pending' = pending /\ ui' = ui
        /\ ui' = Idle
  BY <1>1 DEF CreateWindow, UIReady
<1>5. Promised(w) /\ browser[w.popup] = "promised"
  BY <1>2 DEF Promises, Promised
<1>6. TypeOK'
  <2>1. CASE view[w.opener] = "hosted"
    BY <1>2, <1>3, <2>1 DEF TypeOK, UITask, CreateWindow, registry, content, renderer
  <2>2. CASE view[w.opener] # "hosted"
    BY <1>2, <1>4, <2>2 DEF TypeOK, UITask, CreateWindow, registry, content, renderer
  <2> QED BY <2>1, <2>2
<1>7. Numbered'
  BY DEF Numbered, TypeOK, CreateWindow, UIReady, registry, content, renderer
<1>8. Homes'
  <2>1. \A v \in View : home[v] = w.popup => view[v] \notin {"hosted", "deleted"}
    BY <1>2, <1>5 DEF Homes, TypeOK, Window
  <2>2. \A b \in Browser : browser'[b] # browser[b] => b = w.popup /\ browser'[b] = "canceled"
    BY <1>2, <1>3, <1>4 DEF TypeOK
  <2>3. \A v \in View : home[v] # None => home[v] \in Browser
    BY DEF TypeOK
  <2> QED BY <2>1, <2>2, <2>3 DEF Homes, CreateWindow, content
<1>9. OneHome'
  BY DEF OneHome, Ids, TypeOK, CreateWindow, UIReady, registry, content, renderer
<1>10. Infos'
  <2>1. \A b \in Browser : browser'[b] # browser[b] =>
          browser[b] = "promised" /\ browser'[b] = "canceled"
    BY <1>2, <1>3, <1>4, <1>5 DEF TypeOK
  <2> QED BY <2>1 DEF Infos, Ids, CreateWindow, registry, content
<1>11. Promises'
  <2>1. (\A i \in DOMAIN creating : Promised(creating[i]))'
    <3>1. SUFFICES ASSUME NEW i \in DOMAIN creating'  PROVE Promised(creating[i])'
      OBVIOUS
    <3>2. creating'[i] = creating[i + 1] /\ i + 1 \in DOMAIN creating /\ i + 1 # 1
      BY <1>2
    <3>3. Promised(creating[i + 1]) /\ creating[i + 1].popup # w.popup
      BY <1>2, <3>2 DEF Promises
    <3>4. browser'[creating[i + 1].popup] = browser[creating[i + 1].popup]
      <4>1. creating[i + 1].popup \in Browser
        BY <1>2, <3>2 DEF Window
      <4> QED BY <1>2, <1>3, <1>4, <3>3, <4>1 DEF TypeOK
    <3> QED BY <3>2, <3>3, <3>4 DEF Promised, CreateWindow, content
  <2>2. (\A i, j \in DOMAIN creating : creating[i].popup = creating[j].popup => i = j)'
    BY <1>2 DEF Promises
  <2>3. CASE view[w.opener] = "hosted"
    <3>1. ui' = [at |-> "build", window |-> w] /\ browser' = browser
      BY <1>3, <2>3
    <3>2. Promised(w)'
      BY <1>5, <3>1 DEF Promised, CreateWindow, content
    <3>3. \A i \in DOMAIN creating' : creating'[i].popup # w.popup
      BY <1>2 DEF Promises
    <3>4. shutdown'.at = "no"
      BY DEF CreateWindow, UIReady
    <3> QED BY <2>1, <2>2, <3>1, <3>2, <3>3, <3>4 DEF Promises, Promised
  <2>4. CASE view[w.opener] # "hosted"
    <3>1. ui' = Idle
      BY <1>4, <2>4
    <3> QED BY <2>1, <2>2, <3>1 DEF Promises, Idle
  <2> QED BY <2>3, <2>4
<1>12. Looking'
  BY DEF Looking, Ids, Idle, TypeOK, CreateWindow, UIReady, registry, content, renderer
<1>13. Sweeping'
  BY DEF Sweeping, TypeOK, CreateWindow, UIReady, registry, content, renderer
<1>14. Answers'
  BY DEF Answers, Ids, TypeOK, CreateWindow, UIReady, registry, content, renderer
<1>15. PopupFindsItsSettings'
  <2>1. SUFFICES ASSUME NEW i \in DOMAIN creating', view[creating'[i].opener] = "hosted"
                 PROVE  pending'[home[creating'[i].opener]] = creating'[i].popup
    BY DEF PopupFindsItsSettings, CreateWindow, content
  <2>2. /\ creating'[i] = creating[i + 1] /\ i + 1 \in DOMAIN creating /\ 1 \in DOMAIN creating
        /\ creating[i + 1].popup # w.popup /\ creating[i + 1].opener \in View
    BY <1>2 DEF Promises, Window
  <2>3. pending[home[creating[i + 1].opener]] = creating[i + 1].popup
    BY <2>1, <2>2 DEF PopupFindsItsSettings
  <2>4. CASE view[w.opener] = "hosted"
    <3>1. pending[home[w.opener]] = w.popup
      BY <1>2, <2>2, <2>4 DEF PopupFindsItsSettings
    <3>2. home[w.opener] # home[creating[i + 1].opener]
      BY <2>2, <2>3, <3>1
    <3>3. home[creating[i + 1].opener] \in Browser
      BY <2>1, <2>2 DEF Homes, TypeOK
    <3> QED BY <1>3, <2>2, <2>3, <2>4, <3>2, <3>3 DEF TypeOK
  <2>5. CASE view[w.opener] # "hosted"
    BY <1>4, <2>2, <2>3, <2>5
  <2> QED BY <2>4, <2>5
<1> QED BY <1>6, <1>7, <1>8, <1>9, <1>10, <1>11, <1>12, <1>13, <1>14, <1>15

LEMMA InfoFields ==
  ASSUME TypeOK, NEW n \in Id
  PROVE  /\ info[n] \in Info
         /\ info[n].popup \in BOOLEAN
         /\ info[n].views \in SUBSET View /\ info[n].frames \in SUBSET View
         /\ info[n].browser \in Browser \cup {None}
         /\ info[n] = [popup |-> info[n].popup, views |-> info[n].views,
                       frames |-> info[n].frames, browser |-> info[n].browser]
<1>1. info[n] \in Info
  BY DEF TypeOK
<1>2. info[n] = [popup |-> info[n].popup, views |-> info[n].views,
                 frames |-> info[n].frames, browser |-> info[n].browser]
  BY <1>1 DEF Info
<1>3. /\ info[n].popup \in BOOLEAN
      /\ info[n].views \in SUBSET View /\ info[n].frames \in SUBSET View
      /\ info[n].browser \in Browser \cup {None}
  BY <1>1, Zenon DEF Info
<1> QED BY <1>1, <1>2, <1>3

(* What changes with a field of one info.                                  *)
LEMMA BrowserSet ==
  ASSUME TypeOK, NEW n \in Id, NEW b \in Browser \cup {None},
         info' = [info EXCEPT ![n].browser = b]
  PROVE  /\ info' \in [Id -> Info]
         /\ \A m \in Id \ {n} : info'[m] = info[m]
         /\ (info'[n].popup <=> info[n].popup) /\ info'[n].browser = b
         /\ info'[n].views = info[n].views /\ info'[n].frames = info[n].frames
<1> DEFINE r == [popup |-> info[n].popup, views |-> info[n].views,
                 frames |-> info[n].frames, browser |-> b]
<1>1. r \in Info
  BY InfoFields, InfoOf, Zenon
<1>2. info \in [Id -> Info]
  BY DEF TypeOK
<1>3. info' = [m \in Id |-> info'[m]] /\ \A m \in Id \ {n} : info'[m] = info[m]
  BY <1>2
<1>4. info'[n] = r
  BY <1>2 DEF Info
<1>5. \A m \in Id : info'[m] \in Info
  BY <1>1, <1>2, <1>3, <1>4
<1>6. info' \in [Id -> Info]
  BY <1>3, <1>5, Zenon
<1> QED BY <1>3, <1>4, <1>6

LEMMA ViewsSet ==
  ASSUME TypeOK, NEW n \in Id, NEW V \in SUBSET View,
         info' = [info EXCEPT ![n].views = V]
  PROVE  /\ info' \in [Id -> Info]
         /\ \A m \in Id \ {n} : info'[m] = info[m]
         /\ (info'[n].popup <=> info[n].popup) /\ info'[n].browser = info[n].browser
         /\ info'[n].views = V /\ info'[n].frames = info[n].frames
<1> DEFINE r == [popup |-> info[n].popup, views |-> V,
                 frames |-> info[n].frames, browser |-> info[n].browser]
<1>1. r \in Info
  BY InfoFields, InfoOf, Zenon
<1>2. info \in [Id -> Info]
  BY DEF TypeOK
<1>3. info' = [m \in Id |-> info'[m]] /\ \A m \in Id \ {n} : info'[m] = info[m]
  BY <1>2
<1>4. info'[n] = r
  BY <1>2 DEF Info
<1>5. \A m \in Id : info'[m] \in Info
  BY <1>1, <1>2, <1>3, <1>4
<1>6. info' \in [Id -> Info]
  BY <1>3, <1>5, Zenon
<1> QED BY <1>3, <1>4, <1>6

LEMMA FramesSet ==
  ASSUME TypeOK, NEW n \in Id, NEW F \in SUBSET View,
         info' = [info EXCEPT ![n].frames = F]
  PROVE  /\ info' \in [Id -> Info]
         /\ \A m \in Id \ {n} : info'[m] = info[m]
         /\ (info'[n].popup <=> info[n].popup) /\ info'[n].browser = info[n].browser
         /\ info'[n].views = info[n].views /\ info'[n].frames = F
<1> DEFINE r == [popup |-> info[n].popup, views |-> info[n].views,
                 frames |-> F, browser |-> info[n].browser]
<1>1. r \in Info
  BY InfoFields, InfoOf, Zenon
<1>2. info \in [Id -> Info]
  BY DEF TypeOK
<1>3. info' = [m \in Id |-> info'[m]] /\ \A m \in Id \ {n} : info'[m] = info[m]
  BY <1>2
<1>4. info'[n] = r
  BY <1>2 DEF Info
<1>5. \A m \in Id : info'[m] \in Info
  BY <1>1, <1>2, <1>3, <1>4
<1>6. info' \in [Id -> Info]
  BY <1>3, <1>5, Zenon
<1> QED BY <1>3, <1>4, <1>6

LEMMA DestroyBrowserUnsetsStep ==
  ASSUME IInv, DestroyBrowserUnsets
  PROVE  IInv'
<1> USE InfosAssumption, NoneAssumption DEF IInv
<1>1. ui.who \in Browser /\ browser[ui.who] = "destroyed" /\ infoOf[ui.who] \in Id /\ ui' = Idle
  BY Fields DEF DestroyBrowserUnsets, Promises, Infos, TypeOK
<1>2. PICK n \in Id : n = infoOf[ui.who]
  BY <1>1
<1>3. /\ info' \in [Id -> Info]
      /\ \A m \in Id \ {n} : info'[m] = info[m]
      /\ (info'[n].popup <=> info[n].popup) /\ info'[n].browser = None
      /\ info'[n].views = info[n].views /\ info'[n].frames = info[n].frames
  BY <1>2, BrowserSet DEF DestroyBrowserUnsets
<1>4. /\ \A m \in Id : Ids(m)' = Ids(m) /\ (info'[m].popup <=> info[m].popup)
      /\ \A m \in Id : info'[m].browser \in {info[m].browser, None}
      /\ \A m \in Id : info'[m].views = info[m].views /\ info'[m].frames = info[m].frames
  BY <1>3 DEF Ids
<1>5. n <= lastId /\ lastId \in Nat /\ list \subseteq Id /\ list' = list /\ lastId' = lastId
      /\ \A m \in Id : m \in Nat
  BY <1>1, <1>2 DEF TypeOK, Id, Numbered, DestroyBrowserUnsets
<1>6. TypeOK'
  BY <1>1, <1>3 DEF TypeOK, UITask, DestroyBrowserUnsets, Idle, content, renderer
<1>7. Numbered'
  BY <1>3, <1>5 DEF Numbered, DestroyBrowserUnsets
<1>8. Homes'
  BY DEF Homes, TypeOK, DestroyBrowserUnsets, registry, content, renderer
<1>9. OneHome'
  BY <1>4 DEF OneHome, DestroyBrowserUnsets, content
<1>10. Infos'
  <2>1. \A b \in Browser : infoOf[b] # 0 => infoOf[b] \in Id
    BY DEF TypeOK
  <2>2. \A b \in Browser : browser[b] = "live" => infoOf[b] # 0 /\ infoOf[b] # n
    BY <1>1, <1>2 DEF Infos
  <2>3. \A m \in 1 .. lastId : m \in Id
    BY <1>5 DEF TypeOK, Id
  <2>4. /\ \A b \in Browser : infoOf[b] # 0 => \A v \in Ids(infoOf[b])' : home'[v] = b
        /\ \A b \in Browser : browser[b] = "live" => info'[infoOf[b]].browser = b
    <3>1. home' = home /\ infoOf' = infoOf
      BY DEF DestroyBrowserUnsets, content
    <3>2. ASSUME NEW b \in Browser, infoOf[b] # 0  PROVE \A v \in Ids(infoOf[b])' : home'[v] = b
      BY <1>4, <2>1, <3>1, <3>2 DEF Infos
    <3>3. ASSUME NEW b \in Browser, browser[b] = "live"  PROVE info'[infoOf[b]].browser = b
      BY <1>3, <2>1, <2>2, <3>3 DEF Infos
    <3> QED BY <3>2, <3>3
  <2>5. (\A m \in Id : info[m].browser # None => infoOf[info[m].browser] = m)'
    BY <1>3 DEF Infos, DestroyBrowserUnsets
  <2>6. (\A m \in 1 .. lastId : info[m].popup \/ \E b \in Browser : infoOf[b] = m)'
    BY <1>4, <2>3 DEF Infos, DestroyBrowserUnsets
  <2> QED BY <2>4, <2>5, <2>6 DEF Infos, DestroyBrowserUnsets, content
<1>11. Promises'
  BY DEF Promises, Promised, Idle, TypeOK, DestroyBrowserUnsets, registry, content, renderer
<1>12. Looking'
  <2>1. io.at = "found" /\ io.id # 0 => io.id \in Id
    BY Fields
  <2> QED BY <1>4, <1>5, <2>1 DEF Looking, DestroyBrowserUnsets, content
<1>13. Sweeping'
  BY DEF Sweeping, TypeOK, DestroyBrowserUnsets, registry, content, renderer
<1>14. Answers'
  <2>1. \A v \in View : view[v] = "hosted" => infoOf[home[v]] \in Id
    BY DEF Homes, Infos, TypeOK
  <2>2. \A v \in View : view[v] = "routed" /\ told[v] \in list => told[v] \in Id
    BY <1>5
  <2> QED BY <1>4, <1>5, <2>1, <2>2 DEF Answers, DestroyBrowserUnsets, content, renderer
<1>15. PopupFindsItsSettings'
  BY DEF PopupFindsItsSettings, TypeOK, DestroyBrowserUnsets, registry, content, renderer
<1> QED BY <1>6, <1>7, <1>8, <1>9, <1>10, <1>11, <1>12, <1>13, <1>14, <1>15

LEMMA DestroyStep ==
  ASSUME IInv, NEW b \in Browser, browser[b] = "live", ui = Idle, Destroy(b),
         shutdown' \in Shutdown, shutdown'.at = shutdown.at,
         shutdown.at = "sweep" => shutdown'.left = shutdown.left \ {infoOf[b]}
  PROVE  IInv'
<1> USE InfosAssumption, NoneAssumption DEF IInv
<1>1. /\ ui' = [at |-> "unset", who |-> b] /\ io' = io /\ lastId' = lastId /\ info' = info
      /\ infoOf' = infoOf /\ pending' = pending /\ home' = home /\ frames' = frames
      /\ renderer' = renderer /\ asked' = asked /\ told' = told /\ creating' = creating
      /\ browser' = [browser EXCEPT ![b] = "destroyed"] /\ list' = list \ {infoOf[b]}
  BY DEF Destroy, RemoveBrowserInfo, renderer
<1>2. \A v \in View : view'[v] = IF home[v] = b /\ view[v] = "hosted" THEN "deleted" ELSE view[v]
  BY DEF Destroy
<1>3. infoOf[b] # 0 /\ \A c \in Browser : infoOf[c] = infoOf[b] => c = b
  BY DEF Infos
<1>4. \A v \in View : view[v] \in {"routed", "reserved"} => home[v] # b /\ home[v] \in Browser
  BY DEF Homes, TypeOK
<1>5. /\ browser'[b] = "destroyed" /\ \A c \in Browser \ {b} : browser'[c] = browser[c]
      /\ \A v \in View : home[v] # None => home[v] \in Browser
  BY <1>1 DEF TypeOK
<1>6. TypeOK'
  <2>1. view' \in [View -> {"unused", "reserved", "routed", "hosted", "deleted"}]
    BY DEF Destroy, TypeOK
  <2>2. ui' \in UITask
    BY <1>1 DEF UITask
  <2>3. browser' \in [Browser -> {"unused", "promised", "canceled", "live", "destroyed"}]
    BY <1>1 DEF TypeOK
  <2> QED BY <1>1, <2>1, <2>2, <2>3 DEF TypeOK
<1>7. Numbered'
  BY <1>1 DEF Numbered
<1>8. Homes'
  <2>1. \A v \in View : home[v] = None <=> view'[v] = "unused"
    BY <1>2 DEF Homes
  <2>2. \A v \in View : view'[v] \in {"routed", "reserved"} =>
          browser'[home[v]] \in {"promised", "canceled"}
    BY <1>2, <1>4, <1>5 DEF Homes
  <2>3. \A v \in View : view'[v] = "hosted" => browser'[home[v]] = "live"
    BY <1>2, <1>5, NoneAssumption DEF Homes
  <2>4. \A v \in View : view'[v] = "deleted" => browser'[home[v]] \in {"live", "destroyed"}
    BY <1>2, <1>5, NoneAssumption DEF Homes
  <2>5. \A v \in View : frames[v] # "none" => view'[v] \in {"hosted", "deleted"}
    BY <1>2 DEF Homes
  <2>6. \A v, w \in View : view'[v] \in {"routed", "reserved"} /\ home[w] = home[v] => w = v
    BY <1>2 DEF Homes
  <2> QED BY <1>1, <2>1, <2>2, <2>3, <2>4, <2>5, <2>6 DEF Homes
<1>9. OneHome'
  BY <1>1 DEF OneHome, Ids
<1>10. Infos'
  <2>1. (\A c \in Browser : infoOf[c] # 0 <=> browser[c] \in {"live", "destroyed"})'
    BY <1>1, <1>3, <1>5 DEF Infos
  <2>2. (\A c \in Browser : browser[c] = "live" => info[infoOf[c]].browser = c /\ infoOf[c] \in list)'
    BY <1>1, <1>3, <1>5 DEF Infos
  <2>3. (\A c \in Browser : browser[c] = "destroyed" => infoOf[c] \notin list)'
    BY <1>1, <1>3, <1>5 DEF Infos
  <2> QED BY <1>1, <2>1, <2>2, <2>3 DEF Infos, Ids
<1>11. Promises'
  <2>1. \A i \in DOMAIN creating : creating[i] \in Window
    BY DEF TypeOK
  <2>2. \A w \in Window : Promised(w) => Promised(w)'
    <3>1. SUFFICES ASSUME NEW w \in Window, Promised(w)  PROVE Promised(w)'
      OBVIOUS
    <3>2. w.popup \in Browser /\ w.opener \in View
      BY DEF Window
    <3> QED BY <1>1, <1>2, <1>5, <3>1, <3>2 DEF Promised
  <2>3. (\A i \in DOMAIN creating : Promised(creating[i]))'
    BY <1>1, <2>1, <2>2 DEF Promises, Promised
  <2>4. ui'.at # "build" /\ (ui'.at = "unset" => browser'[ui'.who] = "destroyed")
    BY <1>1, <1>5
  <2> QED BY <1>1, <2>3, <2>4 DEF Promises
<1>12. Looking'
  BY <1>1 DEF Looking, Ids
<1>13. Sweeping'
  BY <1>1, <1>3, <1>5 DEF Sweeping
<1>14. Answers'
  <2>1. \A v \in View : view'[v] # "deleted" => view'[v] = view[v]
    BY <1>2
  <2>2. list' \subseteq list /\ \A m : Ids(m)' = Ids(m)
    BY <1>1 DEF Ids
  <2>3. \A v \in View : view'[v] # "deleted" =>
          \A m, n \in list' : v \in Ids(m)' /\ v \in Ids(n)' => m = n
    BY <2>1, <2>2 DEF Answers
  <2>4. \A v \in View : view'[v] = "routed" /\ asked[v] # 0 /\ shutdown'.at = "no" =>
          told[v] \in list' /\ v \in info[told[v]].views /\ v \in info[told[v]].frames
    <3>1. SUFFICES ASSUME NEW v \in View, view[v] = "routed", asked[v] # 0, shutdown.at = "no",
                          told[v] = infoOf[b]
                   PROVE  FALSE
      BY <1>1, <2>1 DEF Answers
    <3>2. v \in Ids(infoOf[b])
      BY <3>1 DEF Answers, Ids
    <3> QED BY <1>3, <1>4, <3>1, <3>2 DEF Infos
  <2> QED BY <1>1, <2>1, <2>3, <2>4 DEF Answers
<1>15. PopupFindsItsSettings'
  <2>1. \A i \in DOMAIN creating : creating[i].opener \in View
    <3>1. \A i \in DOMAIN creating : creating[i] \in Window
      BY DEF TypeOK
    <3> QED BY <3>1 DEF Window
  <2> QED BY <1>1, <1>2, <2>1 DEF PopupFindsItsSettings
<1> QED BY <1>6, <1>7, <1>8, <1>9, <1>10, <1>11, <1>12, <1>13, <1>14, <1>15

LEMMA DestroyBrowserStep ==
  ASSUME IInv, NEW b \in Browser, DestroyBrowser(b)
  PROVE  IInv'
<1>1. ui = Idle /\ shutdown' = shutdown /\ browser[b] = "live" /\ Destroy(b)
  BY DEF DestroyBrowser, UIReady
<1>2. shutdown \in Shutdown /\ shutdown.at = "no"
  BY DEF IInv, TypeOK, DestroyBrowser, UIReady
<1> QED BY <1>1, <1>2, DestroyStep

LEMMA SweepInfoStep ==
  ASSUME IInv, SweepInfo
  PROVE  IInv'
<1> USE InfosAssumption, NoneAssumption DEF IInv
<1>1. PICK n \in Id :
        /\ n \in shutdown.left /\ ui = Idle /\ shutdown.at = "sweep"
        /\ shutdown' = [shutdown EXCEPT !.left = @ \ {n}]
        /\ \/ info[n].browser # None /\ Destroy(info[n].browser)
           \/ /\ info[n].browser = None /\ RemoveBrowserInfo(n)
              /\ UNCHANGED <<lastId, info, browser, infoOf, pending, content, renderer,
                             creating, ui, io>>
  <2>1. shutdown.at = "sweep" /\ shutdown.left \in SUBSET Id /\ shutdown.left # {}
    BY Fields DEF SweepInfo
  <2>2. shutdown.left \in SUBSET Nat
    <3>1. \A n \in Id : n \in Nat
      BY DEF Id
    <3> QED BY <2>1, <3>1, Zenon
  <2>3. Min(shutdown.left) \in shutdown.left /\ Min(shutdown.left) \in Id
    BY <2>1, <2>2, MinInSet, Zenon
  <2> QED BY <2>3 DEF SweepInfo
<1>2. /\ shutdown' = [at |-> "sweep", left |-> shutdown.left \ {n}]
      /\ shutdown' \in Shutdown /\ shutdown'.at = "sweep" /\ shutdown'.left = shutdown.left \ {n}
      /\ n \in list
  <2>1. shutdown = [at |-> "sweep", left |-> shutdown.left] /\ shutdown.left \in SUBSET Id
    BY <1>1, Fields DEF TypeOK, Shutdown
  <2>2. shutdown' = [at |-> "sweep", left |-> shutdown.left \ {n}]
    BY <1>1, <2>1
  <2> QED BY <1>1, <2>1, <2>2 DEF Shutdown, Sweeping
<1>3. CASE info[n].browser # None
  <2>1. PICK b \in Browser : b = info[n].browser
    BY <1>3, InfoFields
  <2>2. infoOf[b] = n /\ n # 0
    BY <1>3, <2>1 DEF Infos, Id
  <2>3. browser[b] = "live"
    BY <1>2, <2>2 DEF Infos
  <2> QED BY <1>1, <1>2, <1>3, <2>1, <2>2, <2>3, DestroyStep
<1>4. CASE info[n].browser = None
  <2>1. /\ list' = list \ {n} /\ lastId' = lastId /\ info' = info /\ browser' = browser
        /\ infoOf' = infoOf /\ pending' = pending /\ home' = home /\ view' = view
        /\ frames' = frames /\ asked' = asked /\ told' = told /\ creating' = creating
        /\ ui' = ui /\ io' = io /\ ui = Idle
    BY <1>1, <1>4 DEF RemoveBrowserInfo, content, renderer
  <2>2. \A b \in Browser : browser[b] = "live" => infoOf[b] # n
    BY <1>4, NoneAssumption DEF Infos
  <2>3. TypeOK'
    BY <2>1, <1>2 DEF TypeOK
  <2>4. Numbered'
    BY <2>1 DEF Numbered
  <2>5. Homes'
    BY <2>1 DEF Homes
  <2>6. OneHome'
    BY <2>1 DEF OneHome, Ids
  <2>7. Infos'
    BY <2>1, <2>2 DEF Infos, Ids
  <2>8. Promises'
    BY <2>1 DEF Promises, Promised, Idle
  <2>9. Looking'
    BY <2>1 DEF Looking, Ids
  <2>10. Sweeping'
    BY <1>1, <1>2, <2>1, <2>2 DEF Sweeping
  <2>11. Answers'
    BY <1>2, <2>1 DEF Answers, Ids
  <2>12. PopupFindsItsSettings'
    BY <2>1 DEF PopupFindsItsSettings
  <2> QED BY <2>3, <2>4, <2>5, <2>6, <2>7, <2>8, <2>9, <2>10, <2>11, <2>12
<1> QED BY <1>1, <1>3, <1>4

LEMMA RenderViewCreatedStep ==
  ASSUME IInv, NEW b \in Browser, NEW v \in View, RenderViewCreated(b, v)
  PROVE  IInv'
<1> USE InfosAssumption, NoneAssumption DEF IInv
<1>1. /\ infoOf[b] # 0 /\ infoOf[b] \in Id /\ infoOf[b] \in list /\ infoOf[b] <= lastId
      /\ info[infoOf[b]].browser = b
  BY DEF RenderViewCreated, Infos, TypeOK, Numbered
<1>2. PICK n \in Id : n = infoOf[b]
  BY <1>1
<1>3. /\ info' \in [Id -> Info]
      /\ \A m \in Id \ {n} : info'[m] = info[m]
      /\ (info'[n].popup <=> info[n].popup) /\ info'[n].browser = info[n].browser
      /\ info'[n].views = info[n].views \cup {v} /\ info'[n].frames = info[n].frames
  <2>1. info[n].views \cup {v} \in SUBSET View
    BY InfoFields
  <2>2. info' = [info EXCEPT ![n].views = info[n].views \cup {v}]
    BY <1>2 DEF RenderViewCreated
  <2> QED BY <2>1, <2>2, ViewsSet
<1>4. /\ list' = list /\ lastId' = lastId /\ browser' = browser /\ infoOf' = infoOf
      /\ pending' = pending /\ frames' = frames /\ asked' = asked /\ told' = told
      /\ creating' = creating /\ ui' = ui /\ io' = io /\ shutdown' = shutdown /\ ui = Idle
      /\ shutdown.at = "no" /\ browser[b] = "live"
  BY DEF RenderViewCreated, UIReady, renderer
<1>5. /\ view[v] = "unused" /\ view'[v] = "hosted" /\ home'[v] = b
      /\ home' \in [View -> Browser \cup {None}]
      /\ view' \in [View -> {"unused", "reserved", "routed", "hosted", "deleted"}]
      /\ \A w \in View \ {v} : home'[w] = home[w] /\ view'[w] = view[w]
  BY DEF RenderViewCreated, TypeOK
<1>6. home[v] = None /\ (\A m \in Id : v \notin Ids(m)) /\ asked[v] = 0 /\ frames[v] = "none"
  BY <1>5 DEF Homes, OneHome, Answers
<1>7. /\ \A m \in Id : Ids(m) \subseteq View
      /\ \A m \in Id \ {n} : Ids(m)' = Ids(m)
      /\ Ids(n)' = Ids(n) \cup {v} /\ \A w \in Ids(n) : home[w] = b
      /\ \A m \in Id : info'[m].browser = info[m].browser /\ (info'[m].popup <=> info[m].popup)
  <2>1. \A m \in Id : Ids(m) \subseteq View
    BY InfoFields DEF Ids
  <2>2. \A m \in Id \ {n} : Ids(m)' = Ids(m)
    BY <1>3 DEF Ids
  <2>3. Ids(n)' = Ids(n) \cup {v}
    BY <1>3 DEF Ids
  <2>4. \A w \in Ids(n) : home[w] = b
    BY <1>1, <1>2 DEF Infos
  <2>5. \A m \in Id : info'[m].browser = info[m].browser /\ (info'[m].popup <=> info[m].popup)
    BY <1>3
  <2> QED BY <2>1, <2>2, <2>3, <2>4, <2>5
<1>8. list \subseteq Id /\ lastId \in Nat /\ lastId <= MaxId /\ \A m \in 1 .. lastId : m \in Id
  BY DEF TypeOK, Id
<1>9. TypeOK'
  BY <1>3, <1>4, <1>5 DEF TypeOK
<1>10. Numbered'
  <2>1. n <= lastId /\ n \in Nat /\ lastId \in Nat
    BY <1>1, <1>2, <1>8 DEF Id
  <2> QED BY <1>3, <1>4, <2>1 DEF Numbered
<1>11. Homes'
  BY <1>4, <1>5, <1>6 DEF Homes
<1>12. OneHome'
  BY <1>5, <1>6, <1>7 DEF OneHome
<1>13. Infos'
  <2>1. \A c \in Browser : infoOf[c] # 0 => \A w \in Ids(infoOf[c])' : home'[w] = c
    <3>1. SUFFICES ASSUME NEW c \in Browser, infoOf[c] # 0, NEW w \in Ids(infoOf[c])'
                   PROVE  home'[w] = c
      OBVIOUS
    <3>2. infoOf[c] \in Id
      BY <3>1 DEF TypeOK
    <3>3. CASE c = b
      BY <1>2, <1>4, <1>5, <1>7, <3>1, <3>2, <3>3
    <3>4. CASE c # b
      <4>1. infoOf[c] # n
        BY <1>1, <1>2, <3>4 DEF Infos
      <4>2. w \in Ids(infoOf[c])
        BY <1>4, <1>7, <3>1, <3>2, <4>1
      <4> QED BY <1>5, <1>6, <1>7, <3>1, <3>2, <4>2 DEF Infos
    <3> QED BY <3>3, <3>4
  <2>2. \A c \in Browser : infoOf[c] # 0 => infoOf[c] \in Id
    BY DEF TypeOK
  <2>3. \A c \in Browser : browser[c] = "live" => infoOf[c] # 0
    BY DEF Infos
  <2> QED BY <1>4, <1>7, <1>8, <2>1, <2>2, <2>3 DEF Infos
<1>14. Promises'
  <2>1. \A i \in DOMAIN creating : creating[i] \in Window
    BY DEF TypeOK
  <2>2. \A w \in Window : Promised(w) => Promised(w)'
    <3>1. SUFFICES ASSUME NEW w \in Window, Promised(w)  PROVE Promised(w)'
      OBVIOUS
    <3>2. w.popup \in Browser /\ w.opener \in View /\ w.view \in View
      BY DEF Window
    <3> QED BY <1>4, <1>5, <1>6, <3>1, <3>2, NoneAssumption DEF Promised
  <2>3. (\A i \in DOMAIN creating : Promised(creating[i]))'
    BY <1>4, <2>1, <2>2 DEF Promises, Promised
  <2> QED BY <1>4, <2>3 DEF Promises, Idle
<1>15. Looking'
  <2>1. io.at = "found" => io.opener \in View /\ io.id \in Id \cup {0}
    BY Fields
  <2>2. io.at = "ask" => io.opener \in View /\ io.opener # v
    BY <1>6, Fields, NoneAssumption DEF Looking
  <2>3. CASE io.at = "found" /\ io.id # 0
    <3>1. io.id \in Id /\ io.opener # v /\ io.opener \in View
      BY <1>6, <2>1, <2>3 DEF Looking
    <3>2. CASE io.id = n
      <4>1. info[n].browser = home[io.opener]
        BY <1>1, <1>2, <2>3, <3>2, NoneAssumption DEF Looking
      <4>2. home'[io.opener] = b
        BY <1>1, <1>2, <1>5, <3>1, <4>1
      <4>3. \A w \in Ids(n)' : home'[w] = b
        BY <1>5, <1>6, <1>7
      <4> QED BY <1>1, <1>2, <1>4, <1>7, <2>3, <3>1, <3>2, <4>2, <4>3, NoneAssumption DEF Looking
    <3>3. CASE io.id # n
      <4>1. \A w \in Ids(io.id)' : w \in View \ {v} /\ home'[w] = home[io.opener]
        BY <1>4, <1>5, <1>6, <1>7, <2>3, <3>1, <3>3 DEF Looking
      <4> QED BY <1>4, <1>5, <1>7, <2>3, <3>1, <3>3, <4>1 DEF Looking
    <3> QED BY <3>2, <3>3
  <2>4. CASE io.at = "ask"
    BY <1>4, <1>5, <2>2, <2>4 DEF Looking
  <2> QED BY <1>4, <2>3, <2>4 DEF Looking
<1>16. Sweeping'
  BY <1>4 DEF Sweeping
<1>17. Answers'
  <2>1. \A w \in View : view'[w] # "deleted" =>
          \A l, m \in list' : w \in Ids(l)' /\ w \in Ids(m)' => l = m
    <3>1. SUFFICES ASSUME NEW w \in View, view'[w] # "deleted", NEW l \in list, NEW m \in list,
                          w \in Ids(l)', w \in Ids(m)'
                   PROVE  l = m
      BY <1>4
    <3>2. l \in Id /\ m \in Id
      BY <1>8
    <3>3. CASE w = v
      BY <1>6, <1>7, <3>1, <3>2, <3>3
    <3>4. CASE w # v
      BY <1>5, <1>7, <3>1, <3>2, <3>4 DEF Answers
    <3> QED BY <3>3, <3>4
  <2>2. \A w \in View \ {v} : view'[w] = "hosted" =>
          /\ infoOf[home[w]] \in Id
          /\ w \in info'[infoOf[home[w]]].views
          /\ asked[w] # 0 /\ frames[w] # "deleted" => w \in info'[infoOf[home[w]]].frames
    <3>1. SUFFICES ASSUME NEW w \in View \ {v}, view[w] = "hosted"
                   PROVE  /\ infoOf[home[w]] \in Id
                          /\ w \in info'[infoOf[home[w]]].views
                          /\ asked[w] # 0 /\ frames[w] # "deleted" =>
                               w \in info'[infoOf[home[w]]].frames
      BY <1>5
    <3>2. infoOf[home[w]] \in Id
      BY <3>1 DEF Homes, Infos, TypeOK
    <3> QED BY <1>3, <3>1, <3>2 DEF Answers
  <2>3. \A w \in View : view'[w] = "routed" /\ asked[w] # 0 =>
          told[w] \in list /\ w \in info'[told[w]].views /\ w \in info'[told[w]].frames
    <3>1. SUFFICES ASSUME NEW w \in View, view[w] = "routed", asked[w] # 0
                   PROVE  told[w] \in list /\ w \in info'[told[w]].views
                          /\ w \in info'[told[w]].frames
      BY <1>5
    <3>2. told[w] \in Id /\ told[w] \in list
      BY <1>4, <1>8, <3>1 DEF Answers
    <3> QED BY <1>3, <1>4, <3>1, <3>2 DEF Answers
  <2>4. \A w \in View : view'[w] \in {"unused", "reserved"} => asked[w] = 0
    BY <1>5 DEF Answers
  <2>5. v \in info'[infoOf[b]].views
    BY <1>2, <1>3
  <2> QED BY <1>4, <1>5, <1>6, <2>1, <2>2, <2>3, <2>4, <2>5 DEF Answers
<1>18. PopupFindsItsSettings'
  <2>1. \A i \in DOMAIN creating : creating[i].opener \in View /\ creating[i].opener # v
    <3>1. \A i \in DOMAIN creating : creating[i] \in Window /\ Promised(creating[i])
      BY DEF TypeOK, Promises
    <3> QED BY <1>5, <3>1 DEF Window, Promised
  <2> QED BY <1>4, <1>5, <2>1 DEF PopupFindsItsSettings
<1> QED BY <1>9, <1>10, <1>11, <1>12, <1>13, <1>14, <1>15, <1>16, <1>17, <1>18

LEMMA RenderViewDeletedStep ==
  ASSUME IInv, NEW v \in View, RenderViewDeleted(v)
  PROVE  IInv'
<1> USE InfosAssumption, NoneAssumption DEF IInv
<1> DEFINE b == home[v]
<1>1. /\ b \in Browser /\ browser[b] = "live" /\ infoOf[b] \in Id
      /\ ui = Idle /\ shutdown.at = "no"
  <2>1. b \in Browser /\ browser[b] = "live"
    BY DEF RenderViewDeleted, Homes, TypeOK
  <2> QED BY <2>1 DEF RenderViewDeleted, UIReady, Infos, TypeOK
<1>2. PICK n \in Id : n = infoOf[b]
  BY <1>1
<1>3. /\ info' \in [Id -> Info]
      /\ \A m \in Id \ {n} : info'[m] = info[m]
      /\ (info'[n].popup <=> info[n].popup) /\ info'[n].browser = info[n].browser
      /\ info'[n].views = info[n].views \ {v} /\ info'[n].frames = info[n].frames
  <2>1. info[n].views \ {v} \in SUBSET View
    BY InfoFields
  <2>2. info' = [info EXCEPT ![n].views = info[n].views \ {v}]
    BY <1>2 DEF RenderViewDeleted
  <2> QED BY <2>1, <2>2, ViewsSet
<1>4. /\ list' = list /\ lastId' = lastId /\ browser' = browser /\ infoOf' = infoOf
      /\ pending' = pending /\ home' = home /\ asked' = asked /\ told' = told
      /\ creating' = creating /\ ui' = ui /\ io' = io /\ shutdown' = shutdown
  BY DEF RenderViewDeleted, renderer
<1>5. /\ view[v] = "hosted" /\ view'[v] = "deleted"
      /\ view' \in [View -> {"unused", "reserved", "routed", "hosted", "deleted"}]
      /\ \A w \in View \ {v} : view'[w] = view[w]
  BY DEF RenderViewDeleted, TypeOK
<1>6. frames' = frames
  BY DEF RenderViewDeleted
<1>7. /\ \A m \in Id : Ids(m) \subseteq View /\ Ids(m)' \subseteq Ids(m)
      /\ \A m \in Id : info'[m].browser = info[m].browser /\ (info'[m].popup <=> info[m].popup)
  <2>1. \A m \in Id : Ids(m) \subseteq View
    BY InfoFields DEF Ids
  <2>2. \A m \in Id : Ids(m)' \subseteq Ids(m)
    BY <1>3 DEF Ids
  <2>3. \A m \in Id : info'[m].browser = info[m].browser /\ (info'[m].popup <=> info[m].popup)
    BY <1>3
  <2> QED BY <2>1, <2>2, <2>3
<1>8. list \subseteq Id /\ lastId \in Nat /\ lastId <= MaxId /\ \A m \in 1 .. lastId : m \in Id
  BY DEF TypeOK, Id
<1> HIDE DEF b
<1>9. TypeOK'
  BY <1>3, <1>4, <1>5, <1>6 DEF TypeOK
<1>10. Numbered'
  <2>1. n <= lastId /\ n \in Nat /\ lastId \in Nat
    BY <1>1, <1>2, <1>8 DEF Id, Numbered
  <2> QED BY <1>3, <1>4, <2>1 DEF Numbered
<1>11. Homes'
  BY <1>4, <1>5, <1>6 DEF Homes
<1>12. OneHome'
  BY <1>4, <1>7 DEF OneHome
<1>13. Infos'
  <2>1. \A c \in Browser : infoOf[c] # 0 => \A w \in Ids(infoOf[c])' : home'[w] = c
    <3>1. SUFFICES ASSUME NEW c \in Browser, infoOf[c] # 0, NEW w \in Ids(infoOf[c])'
                   PROVE  home'[w] = c
      OBVIOUS
    <3>2. infoOf[c] \in Id
      BY <3>1 DEF TypeOK
    <3> QED BY <1>4, <1>7, <3>1, <3>2 DEF Infos
  <2>2. \A c \in Browser : infoOf[c] # 0 => infoOf[c] \in Id
    BY DEF TypeOK
  <2>3. \A c \in Browser : browser[c] = "live" => infoOf[c] # 0
    BY DEF Infos
  <2> QED BY <1>4, <1>7, <1>8, <2>1, <2>2, <2>3 DEF Infos
<1>14. Promises'
  <2>1. \A i \in DOMAIN creating : creating[i] \in Window
    BY DEF TypeOK
  <2>2. \A w \in Window : Promised(w) => Promised(w)'
    <3>1. SUFFICES ASSUME NEW w \in Window, Promised(w)  PROVE Promised(w)'
      OBVIOUS
    <3>2. w.popup \in Browser /\ w.opener \in View /\ w.view \in View
      BY DEF Window
    <3> QED BY <1>4, <1>5, <3>1, <3>2 DEF Promised
  <2>3. (\A i \in DOMAIN creating : Promised(creating[i]))'
    BY <1>4, <2>1, <2>2 DEF Promises, Promised
  <2> QED BY <1>1, <1>4, <2>3 DEF Promises, Idle
<1>15. Looking'
  <2>1. io.at = "found" => io.opener \in View /\ io.id \in Id \cup {0}
    BY Fields
  <2>2. io.at = "found" /\ io.id # 0 => \A w \in Ids(io.id)' : w \in Ids(io.id)
    BY <1>4, <1>7, <2>1
  <2> QED BY <1>4, <1>7, <2>1, <2>2 DEF Looking
<1>16. Sweeping'
  BY <1>4 DEF Sweeping
<1>17. Answers'
  <2>1. \A w \in View : view'[w] # "deleted" =>
          \A l, m \in list' : w \in Ids(l)' /\ w \in Ids(m)' => l = m
    BY <1>4, <1>5, <1>7, <1>8 DEF Answers
  <2>2. \A w \in View : view'[w] = "hosted" =>
          /\ w \in info'[infoOf[home[w]]].views
          /\ asked[w] # 0 /\ frames'[w] # "deleted" => w \in info'[infoOf[home[w]]].frames
    <3>1. SUFFICES ASSUME NEW w \in View, view'[w] = "hosted"
                   PROVE  /\ w \in info'[infoOf[home[w]]].views
                          /\ asked[w] # 0 /\ frames'[w] # "deleted" =>
                               w \in info'[infoOf[home[w]]].frames
      OBVIOUS
    <3>2. infoOf[home[w]] \in Id /\ view[w] = "hosted"
      BY <1>5, <3>1 DEF Homes, Infos, TypeOK
    <3>3. CASE w = v
      BY <1>2, <1>3, <1>5, <1>6, <3>1, <3>2, <3>3 DEF Answers, b
    <3>4. CASE w # v
      BY <1>3, <1>5, <1>6, <3>1, <3>2, <3>4 DEF Answers
    <3> QED BY <3>3, <3>4
  <2>3. \A w \in View : view'[w] = "routed" /\ asked[w] # 0 =>
          told[w] \in list /\ w \in info'[told[w]].views /\ w \in info'[told[w]].frames
    <3>1. SUFFICES ASSUME NEW w \in View, view[w] = "routed", asked[w] # 0
                   PROVE  told[w] \in list /\ w \in info'[told[w]].views
                          /\ w \in info'[told[w]].frames
      BY <1>5
    <3>2. told[w] \in Id /\ told[w] \in list /\ w # v
      BY <1>1, <1>5, <1>8, <3>1 DEF Answers
    <3> QED BY <1>1, <1>3, <3>1, <3>2 DEF Answers
  <2>4. \A w \in View : view'[w] \in {"unused", "reserved"} => asked[w] = 0
    BY <1>5 DEF Answers
  <2>5. \A w \in View : view'[w] = "hosted" /\ asked[w] # 0 => told[w] = infoOf[home[w]]
    BY <1>5 DEF Answers
  <2> QED BY <1>1, <1>4, <1>5, <2>1, <2>2, <2>3, <2>4, <2>5 DEF Answers
<1>18. PopupFindsItsSettings'
  <2>1. \A i \in DOMAIN creating : creating[i].opener \in View
    <3>1. \A i \in DOMAIN creating : creating[i] \in Window
      BY DEF TypeOK
    <3> QED BY <3>1 DEF Window
  <2> QED BY <1>4, <1>5, <2>1 DEF PopupFindsItsSettings
<1> QED BY <1>9, <1>10, <1>11, <1>12, <1>13, <1>14, <1>15, <1>16, <1>17, <1>18

LEMMA RenderFrameCreatedStep ==
  ASSUME IInv, NEW v \in View, RenderFrameCreated(v)
  PROVE  IInv'
<1> USE InfosAssumption, NoneAssumption DEF IInv
<1> DEFINE b == home[v]
<1>1. /\ b \in Browser /\ browser[b] = "live" /\ infoOf[b] \in Id
      /\ ui = Idle /\ shutdown.at = "no"
  <2>1. b \in Browser /\ browser[b] = "live"
    BY DEF RenderFrameCreated, Homes, TypeOK
  <2> QED BY <2>1 DEF RenderFrameCreated, UIReady, Infos, TypeOK
<1>2. PICK n \in Id : n = infoOf[b]
  BY <1>1
<1>3. /\ info' \in [Id -> Info]
      /\ \A m \in Id \ {n} : info'[m] = info[m]
      /\ (info'[n].popup <=> info[n].popup) /\ info'[n].browser = info[n].browser
      /\ info'[n].frames = info[n].frames \cup {v} /\ info'[n].views = info[n].views
  <2>1. info[n].frames \cup {v} \in SUBSET View
    BY InfoFields
  <2>2. info' = [info EXCEPT ![n].frames = info[n].frames \cup {v}]
    BY <1>2 DEF RenderFrameCreated
  <2> QED BY <2>1, <2>2, FramesSet
<1>4. /\ list' = list /\ lastId' = lastId /\ browser' = browser /\ infoOf' = infoOf
      /\ pending' = pending /\ home' = home /\ asked' = asked /\ told' = told
      /\ creating' = creating /\ ui' = ui /\ io' = io /\ shutdown' = shutdown
  BY DEF RenderFrameCreated, renderer
<1>5. view[v] = "hosted" /\ view' = view
  BY DEF RenderFrameCreated
<1>6. /\ frames[v] = "none" /\ frames'[v] = "created"
      /\ frames' \in [View -> {"none", "created", "deleted"}]
      /\ \A w \in View \ {v} : frames'[w] = frames[w]
  BY DEF RenderFrameCreated, TypeOK
<1>7. /\ \A m \in Id : Ids(m) \subseteq View /\ Ids(m)' \subseteq Ids(m)
      /\ \A m \in Id : info'[m].browser = info[m].browser /\ (info'[m].popup <=> info[m].popup)
  <2>1. \A m \in Id : Ids(m) \subseteq View
    BY InfoFields DEF Ids
  <2>2. \A m \in Id : Ids(m)' \subseteq Ids(m)
    BY <1>2, <1>3, <1>5 DEF Ids, Answers
  <2>3. \A m \in Id : info'[m].browser = info[m].browser /\ (info'[m].popup <=> info[m].popup)
    BY <1>3
  <2> QED BY <2>1, <2>2, <2>3
<1>8. list \subseteq Id /\ lastId \in Nat /\ lastId <= MaxId /\ \A m \in 1 .. lastId : m \in Id
  BY DEF TypeOK, Id
<1> HIDE DEF b
<1>9. TypeOK'
  BY <1>3, <1>4, <1>5, <1>6 DEF TypeOK
<1>10. Numbered'
  <2>1. n <= lastId /\ n \in Nat /\ lastId \in Nat
    BY <1>1, <1>2, <1>8 DEF Id, Numbered
  <2> QED BY <1>3, <1>4, <2>1 DEF Numbered
<1>11. Homes'
  BY <1>4, <1>5, <1>6 DEF Homes
<1>12. OneHome'
  BY <1>4, <1>7 DEF OneHome
<1>13. Infos'
  <2>1. \A c \in Browser : infoOf[c] # 0 => \A w \in Ids(infoOf[c])' : home'[w] = c
    <3>1. SUFFICES ASSUME NEW c \in Browser, infoOf[c] # 0, NEW w \in Ids(infoOf[c])'
                   PROVE  home'[w] = c
      OBVIOUS
    <3>2. infoOf[c] \in Id
      BY <3>1 DEF TypeOK
    <3> QED BY <1>4, <1>7, <3>1, <3>2 DEF Infos
  <2>2. \A c \in Browser : infoOf[c] # 0 => infoOf[c] \in Id
    BY DEF TypeOK
  <2>3. \A c \in Browser : browser[c] = "live" => infoOf[c] # 0
    BY DEF Infos
  <2> QED BY <1>4, <1>7, <1>8, <2>1, <2>2, <2>3 DEF Infos
<1>14. Promises'
  <2>1. \A i \in DOMAIN creating : creating[i] \in Window
    BY DEF TypeOK
  <2>2. \A w \in Window : Promised(w) => Promised(w)'
    <3>1. SUFFICES ASSUME NEW w \in Window, Promised(w)  PROVE Promised(w)'
      OBVIOUS
    <3>2. w.popup \in Browser /\ w.opener \in View /\ w.view \in View
      BY DEF Window
    <3> QED BY <1>4, <1>5, <3>1, <3>2 DEF Promised
  <2>3. (\A i \in DOMAIN creating : Promised(creating[i]))'
    BY <1>4, <2>1, <2>2 DEF Promises, Promised
  <2> QED BY <1>1, <1>4, <2>3 DEF Promises, Idle
<1>15. Looking'
  <2>1. io.at = "found" => io.opener \in View /\ io.id \in Id \cup {0}
    BY Fields
  <2>2. io.at = "found" /\ io.id # 0 => \A w \in Ids(io.id)' : w \in Ids(io.id)
    BY <1>4, <1>7, <2>1
  <2> QED BY <1>4, <1>7, <2>1, <2>2 DEF Looking
<1>16. Sweeping'
  BY <1>4 DEF Sweeping
<1>17. Answers'
  <2>1. \A w \in View : view'[w] # "deleted" =>
          \A l, m \in list' : w \in Ids(l)' /\ w \in Ids(m)' => l = m
    BY <1>4, <1>5, <1>7, <1>8 DEF Answers
  <2>2. \A w \in View : view'[w] = "hosted" =>
          /\ w \in info'[infoOf[home[w]]].views
          /\ asked[w] # 0 /\ frames'[w] # "deleted" => w \in info'[infoOf[home[w]]].frames
    <3>1. SUFFICES ASSUME NEW w \in View, view'[w] = "hosted"
                   PROVE  /\ w \in info'[infoOf[home[w]]].views
                          /\ asked[w] # 0 /\ frames'[w] # "deleted" =>
                               w \in info'[infoOf[home[w]]].frames
      OBVIOUS
    <3>2. infoOf[home[w]] \in Id /\ view[w] = "hosted"
      BY <1>5, <3>1 DEF Homes, Infos, TypeOK
    <3>3. CASE w = v
      BY <1>2, <1>3, <1>5, <1>6, <3>1, <3>2, <3>3 DEF Answers, b
    <3>4. CASE w # v
      BY <1>3, <1>5, <1>6, <3>1, <3>2, <3>4 DEF Answers
    <3> QED BY <3>3, <3>4
  <2>3. \A w \in View : view'[w] = "routed" /\ asked[w] # 0 =>
          told[w] \in list /\ w \in info'[told[w]].views /\ w \in info'[told[w]].frames
    <3>1. SUFFICES ASSUME NEW w \in View, view[w] = "routed", asked[w] # 0
                   PROVE  told[w] \in list /\ w \in info'[told[w]].views
                          /\ w \in info'[told[w]].frames
      BY <1>5
    <3>2. told[w] \in Id /\ told[w] \in list /\ w # v
      BY <1>1, <1>5, <1>8, <3>1 DEF Answers
    <3> QED BY <1>1, <1>3, <3>1, <3>2 DEF Answers
  <2>4. \A w \in View : view'[w] \in {"unused", "reserved"} => asked[w] = 0
    BY <1>5 DEF Answers
  <2>5. \A w \in View : view'[w] = "hosted" /\ asked[w] # 0 => told[w] = infoOf[home[w]]
    BY <1>5 DEF Answers
  <2> QED BY <1>1, <1>4, <1>5, <2>1, <2>2, <2>3, <2>4, <2>5 DEF Answers
<1>18. PopupFindsItsSettings'
  <2>1. \A i \in DOMAIN creating : creating[i].opener \in View
    <3>1. \A i \in DOMAIN creating : creating[i] \in Window
      BY DEF TypeOK
    <3> QED BY <3>1 DEF Window
  <2> QED BY <1>4, <1>5, <2>1 DEF PopupFindsItsSettings
<1> QED BY <1>9, <1>10, <1>11, <1>12, <1>13, <1>14, <1>15, <1>16, <1>17, <1>18

LEMMA RenderFrameDeletedStep ==
  ASSUME IInv, NEW v \in View, RenderFrameDeleted(v)
  PROVE  IInv'
<1> USE InfosAssumption, NoneAssumption DEF IInv
<1> DEFINE b == home[v]
<1>1. /\ b \in Browser /\ browser[b] = "live" /\ infoOf[b] \in Id
      /\ ui = Idle /\ shutdown.at = "no"
  <2>1. b \in Browser /\ browser[b] = "live"
    BY DEF RenderFrameDeleted, Homes, TypeOK
  <2> QED BY <2>1 DEF RenderFrameDeleted, UIReady, Infos, TypeOK
<1>2. PICK n \in Id : n = infoOf[b]
  BY <1>1
<1>3. /\ info' \in [Id -> Info]
      /\ \A m \in Id \ {n} : info'[m] = info[m]
      /\ (info'[n].popup <=> info[n].popup) /\ info'[n].browser = info[n].browser
      /\ info'[n].frames = info[n].frames \ {v} /\ info'[n].views = info[n].views
  <2>1. info[n].frames \ {v} \in SUBSET View
    BY InfoFields
  <2>2. info' = [info EXCEPT ![n].frames = info[n].frames \ {v}]
    BY <1>2 DEF RenderFrameDeleted
  <2> QED BY <2>1, <2>2, FramesSet
<1>4. /\ list' = list /\ lastId' = lastId /\ browser' = browser /\ infoOf' = infoOf
      /\ pending' = pending /\ home' = home /\ asked' = asked /\ told' = told
      /\ creating' = creating /\ ui' = ui /\ io' = io /\ shutdown' = shutdown
  BY DEF RenderFrameDeleted, renderer
<1>5. view[v] \in {"hosted", "deleted"} /\ view' = view
  BY DEF RenderFrameDeleted, Homes
<1>6. /\ frames[v] = "created" /\ frames'[v] = "deleted"
      /\ frames' \in [View -> {"none", "created", "deleted"}]
      /\ \A w \in View \ {v} : frames'[w] = frames[w]
  BY DEF RenderFrameDeleted, TypeOK
<1>7. /\ \A m \in Id : Ids(m) \subseteq View /\ Ids(m)' \subseteq Ids(m)
      /\ \A m \in Id : info'[m].browser = info[m].browser /\ (info'[m].popup <=> info[m].popup)
  <2>1. \A m \in Id : Ids(m) \subseteq View
    BY InfoFields DEF Ids
  <2>2. \A m \in Id : Ids(m)' \subseteq Ids(m)
    BY <1>3 DEF Ids
  <2>3. \A m \in Id : info'[m].browser = info[m].browser /\ (info'[m].popup <=> info[m].popup)
    BY <1>3
  <2> QED BY <2>1, <2>2, <2>3
<1>8. list \subseteq Id /\ lastId \in Nat /\ lastId <= MaxId /\ \A m \in 1 .. lastId : m \in Id
  BY DEF TypeOK, Id
<1> HIDE DEF b
<1>9. TypeOK'
  BY <1>3, <1>4, <1>5, <1>6 DEF TypeOK
<1>10. Numbered'
  <2>1. n <= lastId /\ n \in Nat /\ lastId \in Nat
    BY <1>1, <1>2, <1>8 DEF Id, Numbered
  <2> QED BY <1>3, <1>4, <2>1 DEF Numbered
<1>11. Homes'
  BY <1>4, <1>5, <1>6 DEF Homes
<1>12. OneHome'
  BY <1>4, <1>7 DEF OneHome
<1>13. Infos'
  <2>1. \A c \in Browser : infoOf[c] # 0 => \A w \in Ids(infoOf[c])' : home'[w] = c
    <3>1. SUFFICES ASSUME NEW c \in Browser, infoOf[c] # 0, NEW w \in Ids(infoOf[c])'
                   PROVE  home'[w] = c
      OBVIOUS
    <3>2. infoOf[c] \in Id
      BY <3>1 DEF TypeOK
    <3> QED BY <1>4, <1>7, <3>1, <3>2 DEF Infos
  <2>2. \A c \in Browser : infoOf[c] # 0 => infoOf[c] \in Id
    BY DEF TypeOK
  <2>3. \A c \in Browser : browser[c] = "live" => infoOf[c] # 0
    BY DEF Infos
  <2> QED BY <1>4, <1>7, <1>8, <2>1, <2>2, <2>3 DEF Infos
<1>14. Promises'
  <2>1. \A i \in DOMAIN creating : creating[i] \in Window
    BY DEF TypeOK
  <2>2. \A w \in Window : Promised(w) => Promised(w)'
    <3>1. SUFFICES ASSUME NEW w \in Window, Promised(w)  PROVE Promised(w)'
      OBVIOUS
    <3>2. w.popup \in Browser /\ w.opener \in View /\ w.view \in View
      BY DEF Window
    <3> QED BY <1>4, <1>5, <3>1, <3>2 DEF Promised
  <2>3. (\A i \in DOMAIN creating : Promised(creating[i]))'
    BY <1>4, <2>1, <2>2 DEF Promises, Promised
  <2> QED BY <1>1, <1>4, <2>3 DEF Promises, Idle
<1>15. Looking'
  <2>1. io.at = "found" => io.opener \in View /\ io.id \in Id \cup {0}
    BY Fields
  <2>2. io.at = "found" /\ io.id # 0 => \A w \in Ids(io.id)' : w \in Ids(io.id)
    BY <1>4, <1>7, <2>1
  <2> QED BY <1>4, <1>7, <2>1, <2>2 DEF Looking
<1>16. Sweeping'
  BY <1>4 DEF Sweeping
<1>17. Answers'
  <2>1. \A w \in View : view'[w] # "deleted" =>
          \A l, m \in list' : w \in Ids(l)' /\ w \in Ids(m)' => l = m
    BY <1>4, <1>5, <1>7, <1>8 DEF Answers
  <2>2. \A w \in View : view'[w] = "hosted" =>
          /\ w \in info'[infoOf[home[w]]].views
          /\ asked[w] # 0 /\ frames'[w] # "deleted" => w \in info'[infoOf[home[w]]].frames
    <3>1. SUFFICES ASSUME NEW w \in View, view'[w] = "hosted"
                   PROVE  /\ w \in info'[infoOf[home[w]]].views
                          /\ asked[w] # 0 /\ frames'[w] # "deleted" =>
                               w \in info'[infoOf[home[w]]].frames
      OBVIOUS
    <3>2. infoOf[home[w]] \in Id /\ view[w] = "hosted"
      BY <1>5, <3>1 DEF Homes, Infos, TypeOK
    <3>3. CASE w = v
      BY <1>2, <1>3, <1>5, <1>6, <3>1, <3>2, <3>3 DEF Answers, b
    <3>4. CASE w # v
      BY <1>3, <1>5, <1>6, <3>1, <3>2, <3>4 DEF Answers
    <3> QED BY <3>3, <3>4
  <2>3. \A w \in View : view'[w] = "routed" /\ asked[w] # 0 =>
          told[w] \in list /\ w \in info'[told[w]].views /\ w \in info'[told[w]].frames
    <3>1. SUFFICES ASSUME NEW w \in View, view[w] = "routed", asked[w] # 0
                   PROVE  told[w] \in list /\ w \in info'[told[w]].views
                          /\ w \in info'[told[w]].frames
      BY <1>5
    <3>2. told[w] \in Id /\ told[w] \in list /\ w # v
      BY <1>1, <1>5, <1>8, <3>1 DEF Answers
    <3> QED BY <1>1, <1>3, <3>1, <3>2 DEF Answers
  <2>4. \A w \in View : view'[w] \in {"unused", "reserved"} => asked[w] = 0
    BY <1>5 DEF Answers
  <2>5. \A w \in View : view'[w] = "hosted" /\ asked[w] # 0 => told[w] = infoOf[home[w]]
    BY <1>5 DEF Answers
  <2> QED BY <1>1, <1>4, <1>5, <2>1, <2>2, <2>3, <2>4, <2>5 DEF Answers
<1>18. PopupFindsItsSettings'
  <2>1. \A i \in DOMAIN creating : creating[i].opener \in View
    <3>1. \A i \in DOMAIN creating : creating[i] \in Window
      BY DEF TypeOK
    <3> QED BY <3>1 DEF Window
  <2> QED BY <1>4, <1>5, <2>1 DEF PopupFindsItsSettings
<1> QED BY <1>9, <1>10, <1>11, <1>12, <1>13, <1>14, <1>15, <1>16, <1>17, <1>18

LEMMA CreateStep ==
  ASSUME IInv, NEW b \in Browser, NEW v \in View, Create(b, v)
  PROVE  IInv'
<1> USE InfosAssumption, NoneAssumption DEF IInv
<1>1. /\ lastId \in Nat /\ lastId < MaxId /\ lastId + 1 \in Id /\ list \subseteq Id
      /\ \A m \in 1 .. lastId : m \in Id /\ m \in Id \ {lastId + 1}
      /\ ui = Idle /\ shutdown.at = "no" /\ browser[b] = "unused" /\ view[v] = "unused"
  BY DEF Create, UIReady, TypeOK, Id
<1>2. PICK n \in Id : n = lastId + 1
  BY <1>1
<1>3. /\ info' \in [Id -> Info]
      /\ \A m \in Id \ {n} : info'[m] = info[m]
      /\ info'[n].browser = b /\ info'[n].views = {v} /\ info'[n].frames = {}
  <2> DEFINE r == [popup |-> FALSE, views |-> {v}, frames |-> {}, browser |-> b]
  <2>1. r \in Info
    <3>1. {v} \in SUBSET View /\ {} \in SUBSET View /\ FALSE \in BOOLEAN /\ b \in Browser \cup {None}
      OBVIOUS
    <3> QED BY <3>1, InfoOf, Zenon
  <2>2. info \in [Id -> Info]
    BY DEF TypeOK
  <2>3. info' = [info EXCEPT ![n] = r]
    BY <1>2 DEF Create, CreateBrowserInfo
  <2>4. info'[n] = r /\ info' \in [Id -> Info] /\ \A m \in Id \ {n} : info'[m] = info[m]
    BY <2>1, <2>2, <2>3, Zenon
  <2> QED BY <2>4
<1>4. /\ list' = list \cup {n} /\ lastId' = n
      /\ pending' = pending /\ frames' = frames /\ asked' = asked /\ told' = told
      /\ creating' = creating /\ ui' = ui /\ io' = io /\ shutdown' = shutdown
  BY <1>2 DEF Create, CreateBrowserInfo, renderer
<1>5. /\ view'[v] = "hosted" /\ home'[v] = b
      /\ home' \in [View -> Browser \cup {None}]
      /\ view' \in [View -> {"unused", "reserved", "routed", "hosted", "deleted"}]
      /\ \A w \in View \ {v} : home'[w] = home[w] /\ view'[w] = view[w]
  BY DEF Create, TypeOK
<1>6. home[v] = None /\ (\A m \in Id : v \notin Ids(m)) /\ asked[v] = 0 /\ frames[v] = "none"
  BY <1>1 DEF Homes, OneHome, Answers
<1>7. /\ browser'[b] = "live" /\ infoOf'[b] = n /\ infoOf[b] = 0
      /\ browser' \in [Browser -> {"unused", "promised", "canceled", "live", "destroyed"}]
      /\ infoOf' \in [Browser -> Id \cup {0}]
      /\ \A c \in Browser \ {b} : browser'[c] = browser[c] /\ infoOf'[c] = infoOf[c]
  BY <1>1, <1>2 DEF Create, TypeOK, Infos
<1>8. /\ \A m \in Id : Ids(m) \subseteq View
      /\ \A m \in Id \ {n} : Ids(m)' = Ids(m)
      /\ Ids(n)' = {v} /\ Ids(n) = {}
      /\ n \notin list /\ \A c \in Browser : infoOf[c] # n
  <2>1. \A m \in Id : Ids(m) \subseteq View
    BY InfoFields DEF Ids
  <2>2. \A m \in Id \ {n} : Ids(m)' = Ids(m)
    BY <1>3 DEF Ids
  <2>3. Ids(n)' = {v}
    BY <1>3 DEF Ids
  <2>4. info[n] = Blank
    BY <1>1, <1>2 DEF Numbered
  <2>5. n \notin list
    BY <1>1, <1>2 DEF Numbered
  <2>6. \A c \in Browser : infoOf[c] # n
    BY <1>1, <1>2 DEF Numbered
  <2> QED BY <2>1, <2>2, <2>3, <2>4, <2>5, <2>6 DEF Ids, Blank
<1>9. TypeOK'
  BY <1>1, <1>3, <1>4, <1>5, <1>7 DEF TypeOK
<1>10. Numbered'
  <2>1. \A c \in Browser : infoOf[c] <= lastId /\ infoOf[c] \in Nat
    BY <1>1 DEF Numbered, TypeOK, Id
  <2>2. \A m \in Id : m \in Nat
    BY DEF Id
  <2>3. list' \subseteq 1 .. n
    BY <1>1, <1>2, <1>4 DEF Numbered
  <2>4. \A m \in Id : m > n => info'[m] = Blank
    BY <1>1, <1>2, <1>3, <2>2 DEF Numbered
  <2>5. \A c \in Browser : infoOf'[c] <= n
    BY <1>1, <1>2, <1>7, <2>1
  <2> QED BY <1>4, <2>3, <2>4, <2>5 DEF Numbered
<1>11. Homes'
  <2>1. \A w \in View \ {v} : home[w] # None => home[w] \in Browser
    BY DEF TypeOK
  <2>2. \A w \in View : home'[w] = None <=> view'[w] = "unused"
    BY <1>5, NoneAssumption DEF Homes
  <2>3. \A w \in View : view'[w] \in {"routed", "reserved"} =>
          browser'[home'[w]] \in {"promised", "canceled"}
    BY <1>1, <1>5, <1>7, <2>1 DEF Homes
  <2>4. \A w \in View : view'[w] = "hosted" => browser'[home'[w]] = "live"
    BY <1>1, <1>5, <1>7, <2>1 DEF Homes
  <2>5. \A w \in View : view'[w] = "deleted" => browser'[home'[w]] \in {"live", "destroyed"}
    BY <1>1, <1>5, <1>7, <2>1 DEF Homes
  <2>6. \A w \in View : frames[w] # "none" => view'[w] \in {"hosted", "deleted"}
    BY <1>5 DEF Homes
  <2>7. \A w, u \in View : view'[w] \in {"routed", "reserved"} /\ home'[u] = home'[w] => u = w
    <3>1. \A w \in View \ {v} : view[w] \in {"routed", "reserved"} => home[w] # b
      BY <1>1 DEF Homes
    <3> QED BY <1>5, <3>1 DEF Homes
  <2> QED BY <1>4, <2>2, <2>3, <2>4, <2>5, <2>6, <2>7 DEF Homes
<1>12. OneHome'
  <2>1. \A w \in Ids(n)' : home'[w] # None /\ \A u \in Ids(n)' : home'[u] = home'[w]
    BY <1>5, <1>8
  <2>2. \A m \in Id \ {n} : \A w \in Ids(m)' :
          home'[w] # None /\ \A u \in Ids(m)' : home'[u] = home'[w]
    BY <1>5, <1>6, <1>8 DEF OneHome
  <2> QED BY <2>1, <2>2 DEF OneHome
<1>13. Infos'
  <2>1. \A c \in Browser : infoOf'[c] # 0 <=> browser'[c] \in {"live", "destroyed"}
    BY <1>2, <1>7 DEF Infos, Id
  <2>2. \A c \in Browser : infoOf'[c] # 0 => \A w \in Ids(infoOf[c])' : home'[w] = c
    <3>1. SUFFICES ASSUME NEW c \in Browser, infoOf'[c] # 0, NEW w \in Ids(infoOf[c])'
                   PROVE  home'[w] = c
      OBVIOUS
    <3>2. CASE c = b
      BY <1>5, <1>7, <1>8, <3>1, <3>2
    <3>3. CASE c # b
      <4>1. infoOf'[c] = infoOf[c] /\ infoOf[c] \in Id \ {n} /\ infoOf[c] # 0
        BY <1>7, <1>8, <3>1, <3>3 DEF TypeOK
      <4>2. w \in Ids(infoOf[c])
        BY <1>8, <3>1, <4>1
      <4>3. w # v /\ w \in View /\ home[w] = c
        BY <1>6, <1>8, <4>1, <4>2 DEF Infos
      <4> QED BY <1>5, <4>3
    <3> QED BY <3>2, <3>3
  <2>3. \A c, d \in Browser : infoOf'[c] # 0 /\ infoOf'[c] = infoOf'[d] => c = d
    BY <1>7, <1>8 DEF Infos
  <2>4. \A c \in Browser : browser'[c] = "live" =>
          info'[infoOf'[c]].browser = c /\ infoOf'[c] \in list'
    <3>1. \A c \in Browser : browser[c] = "live" => infoOf[c] \in Id \ {n}
      BY <1>8 DEF Infos, TypeOK
    <3> QED BY <1>3, <1>4, <1>7, <3>1 DEF Infos
  <2>5. \A c \in Browser : browser'[c] = "destroyed" => infoOf'[c] \notin list'
    BY <1>4, <1>7, <1>8 DEF Infos
  <2>6. \A m \in Id : info'[m].browser # None => infoOf'[info'[m].browser] = m
    <3>1. SUFFICES ASSUME NEW m \in Id \ {n}, info[m].browser # None
                   PROVE  infoOf'[info[m].browser] = m
      BY <1>3, <1>7
    <3>2. info[m].browser \in Browser /\ infoOf[info[m].browser] = m /\ m # 0
      <4>1. info[m].browser \in Browser
        BY <3>1, InfoFields
      <4>2. m # 0
        BY DEF Id
      <4> QED BY <3>1, <4>1, <4>2 DEF Infos
    <3> QED BY <1>7, <3>2
  <2>7. \A m \in 1 .. n : info'[m].popup \/ \E c \in Browser : infoOf'[c] = m
    <3>1. SUFFICES ASSUME NEW m \in 1 .. lastId
                   PROVE  info'[m].popup \/ \E c \in Browser : infoOf'[c] = m
      BY <1>1, <1>2, <1>7
    <3>2. m \in Id \ {n} /\ m # 0
      BY <1>1, <1>2
    <3> QED BY <1>3, <1>7, <3>2 DEF Infos
  <2> QED BY <1>4, <2>1, <2>2, <2>3, <2>4, <2>5, <2>6, <2>7 DEF Infos
<1>14. Promises'
  <2>1. \A i \in DOMAIN creating : creating[i] \in Window
    BY DEF TypeOK
  <2>2. \A w \in Window : Promised(w) => Promised(w)'
    <3>1. SUFFICES ASSUME NEW w \in Window, Promised(w)  PROVE Promised(w)'
      OBVIOUS
    <3>2. w.popup \in Browser /\ w.opener \in View /\ w.view \in View
      BY DEF Window
    <3> QED BY <1>1, <1>4, <1>5, <1>6, <1>7, <3>1, <3>2, NoneAssumption DEF Promised
  <2>3. (\A i \in DOMAIN creating : Promised(creating[i]))'
    BY <1>4, <2>1, <2>2 DEF Promises, Promised
  <2> QED BY <1>1, <1>4, <2>3 DEF Promises, Idle
<1>15. Looking'
  <2>1. io.at = "found" => io.opener \in View /\ io.id \in Id \cup {0}
    BY Fields
  <2>2. CASE io.at = "found" /\ io.id # 0
    <3>1. io.id \in Id \ {n} /\ io.opener # v /\ io.opener \in View /\ io.id <= lastId
      BY <1>1, <1>2, <1>6, <2>1, <2>2 DEF Looking
    <3>2. \A w \in Ids(io.id)' : w \in View \ {v} /\ home'[w] = home[io.opener]
      BY <1>4, <1>5, <1>6, <1>8, <2>2, <3>1 DEF Looking
    <3>3. info'[io.id] = info[io.id] /\ home'[io.opener] = home[io.opener] /\ io.id <= n
      BY <1>1, <1>2, <1>3, <1>5, <3>1 DEF Id
    <3> QED BY <1>4, <2>2, <3>1, <3>2, <3>3 DEF Looking
  <2>3. CASE io.at = "ask"
    <3>1. io.opener \in View /\ io.opener # v /\ io.browser \in Browser /\ infoOf[io.browser] # 0
      BY <1>6, <2>3, Fields, NoneAssumption DEF Looking
    <3> QED BY <1>4, <1>5, <1>7, <2>3, <3>1 DEF Looking
  <2> QED BY <1>4, <2>2, <2>3 DEF Looking
<1>16. Sweeping'
  BY <1>1, <1>4 DEF Sweeping
<1>17. Answers'
  <2>1. \A w \in View : view'[w] # "deleted" =>
          \A l, m \in list' : w \in Ids(l)' /\ w \in Ids(m)' => l = m
    <3>1. SUFFICES ASSUME NEW w \in View, view'[w] # "deleted", NEW l \in list', NEW m \in list',
                          w \in Ids(l)', w \in Ids(m)'
                   PROVE  l = m
      OBVIOUS
    <3>2. l \in Id /\ m \in Id
      BY <1>1, <1>4
    <3>3. CASE w = v
      BY <1>6, <1>8, <3>1, <3>2, <3>3
    <3>4. CASE w # v
      <4>1. l \in list /\ m \in list /\ w \in Ids(l) /\ w \in Ids(m)
        BY <1>4, <1>8, <3>1, <3>2, <3>4
      <4> QED BY <1>5, <3>1, <3>4, <4>1 DEF Answers
    <3> QED BY <3>3, <3>4
  <2>2. \A w \in View \ {v} : view'[w] = "hosted" =>
          /\ w \in info'[infoOf'[home[w]]].views
          /\ asked[w] # 0 /\ frames[w] # "deleted" => w \in info'[infoOf'[home[w]]].frames
          /\ asked[w] # 0 => told[w] = infoOf'[home[w]]
    <3>1. SUFFICES ASSUME NEW w \in View \ {v}, view[w] = "hosted"
                   PROVE  /\ w \in info'[infoOf'[home[w]]].views
                          /\ asked[w] # 0 /\ frames[w] # "deleted" =>
                               w \in info'[infoOf'[home[w]]].frames
                          /\ asked[w] # 0 => told[w] = infoOf'[home[w]]
      BY <1>5
    <3>2. home[w] \in Browser /\ browser[home[w]] = "live"
      BY <3>1 DEF Homes, TypeOK
    <3>3. infoOf[home[w]] \in Id \ {n} /\ infoOf'[home[w]] = infoOf[home[w]]
      BY <1>1, <1>7, <1>8, <3>2 DEF Infos, TypeOK
    <3> QED BY <1>3, <3>1, <3>3 DEF Answers
  <2>3. \A w \in View : view'[w] = "routed" /\ asked[w] # 0 =>
          told[w] \in list' /\ w \in info'[told[w]].views /\ w \in info'[told[w]].frames
    <3>1. SUFFICES ASSUME NEW w \in View, view[w] = "routed", asked[w] # 0
                   PROVE  told[w] \in list /\ w \in info'[told[w]].views
                          /\ w \in info'[told[w]].frames
      BY <1>4, <1>5
    <3>2. told[w] \in Id \ {n} /\ told[w] \in list
      BY <1>1, <1>8, <3>1 DEF Answers
    <3> QED BY <1>1, <1>3, <3>1, <3>2 DEF Answers
  <2>4. \A w \in View : view'[w] \in {"unused", "reserved"} => asked[w] = 0
    BY <1>5 DEF Answers
  <2>5. v \in info'[infoOf'[b]].views
    BY <1>3, <1>7
  <2>6. \A w \in View : view'[w] = "hosted" =>
          /\ w \in info'[infoOf'[home'[w]]].views
          /\ asked[w] # 0 /\ frames[w] # "deleted" => w \in info'[infoOf'[home'[w]]].frames
          /\ asked[w] # 0 => told[w] = infoOf'[home'[w]]
    <3>1. SUFFICES ASSUME NEW w \in View, view'[w] = "hosted"
                   PROVE  /\ w \in info'[infoOf'[home'[w]]].views
                          /\ asked[w] # 0 /\ frames[w] # "deleted" =>
                               w \in info'[infoOf'[home'[w]]].frames
                          /\ asked[w] # 0 => told[w] = infoOf'[home'[w]]
      OBVIOUS
    <3>2. CASE w = v
      BY <1>5, <1>6, <2>5, <3>2
    <3>3. CASE w # v
      BY <1>5, <2>2, <3>1, <3>3
    <3> QED BY <3>2, <3>3
  <2> QED BY <1>1, <1>4, <2>1, <2>3, <2>4, <2>6 DEF Answers
<1>18. PopupFindsItsSettings'
  <2>1. \A i \in DOMAIN creating : creating[i].opener \in View /\ creating[i].opener # v
    <3>1. \A i \in DOMAIN creating : creating[i] \in Window /\ Promised(creating[i])
      BY DEF TypeOK, Promises
    <3> QED BY <1>1, <3>1 DEF Window, Promised
  <2> QED BY <1>4, <1>5, <2>1 DEF PopupFindsItsSettings
<1> QED BY <1>9, <1>10, <1>11, <1>12, <1>13, <1>14, <1>15, <1>16, <1>17, <1>18

LEMMA Grown ==
  ASSUME IInv, NEW v \in View, NEW b \in Browser \cup {None},
         IdFor(v) \in Id, GetOrCreateBrowserInfo(v, b), NEW n, n = IdFor(v)
  PROVE  /\ n \in Id /\ n \in list' /\ n \in Nat \ {0} /\ lastId \in Nat /\ lastId' \in Id
         /\ list \subseteq Id /\ \A m \in Id : Ids(m) \subseteq View /\ m \in Nat
         /\ lastId <= lastId' /\ n <= lastId' /\ \A m \in 1 .. lastId' : m \in 1 .. lastId \/ m = n
         /\ list' \subseteq 1 .. lastId' /\ \A m \in Id : m > lastId' => info'[m] = Blank
         /\ \A m \in Id \ {n} : Ids(m)' = Ids(m)
         /\ Ids(n)' = Ids(n) \cup {v}
         /\ n \in list => v \in Ids(n) /\ \A w \in Ids(n) : home[w] = home[v]
         /\ n \notin list => Ids(n) = {} /\ info'[n].popup /\ \A c \in Browser : infoOf[c] # n
         /\ n \notin list => info[n].browser = None /\ n > lastId
         /\ view[v] # "deleted" => \A m \in list : v \in Ids(m) => m = n
<1> USE InfosAssumption, NoneAssumption DEF IInv
<1>1. /\ n \in Id /\ list' = list \cup {n}
      /\ \A m \in Id \ {n} : info'[m] = info[m]
      /\ info'[n].views = info[n].views \cup {v}
      /\ info'[n].frames = info[n].frames \cup {v}
      /\ n \in list => lastId' = lastId /\ v \in Ids(n)
      /\ n \notin list => /\ lastId' = lastId + 1 /\ n = lastId + 1 /\ info[n] = Blank
                          /\ info'[n].popup
                          /\ \A m \in list : v \notin Ids(m)
      /\ lastId \in Nat /\ lastId' \in Id
  <2>1. TypeOK /\ Numbered
    OBVIOUS
  <2> QED BY <2>1, Left
<1>2. /\ \A m \in Id \ {n} : Ids(m)' = Ids(m)
      /\ Ids(n)' = Ids(n) \cup {v}
  BY <1>1 DEF Ids
<1>3. list \subseteq Id /\ \A m \in Id : Ids(m) \subseteq View /\ m \in Nat
  BY InfoFields DEF TypeOK, Ids, Id
<1>4. /\ n \in Nat \ {0} /\ lastId <= lastId' /\ n <= lastId'
      /\ \A m \in 1 .. lastId' : m \in 1 .. lastId \/ m = n
      /\ n \notin list => n > lastId
  BY <1>1 DEF Id, Numbered
<1>5. list' \subseteq 1 .. lastId' /\ \A m \in Id : m > lastId' => info'[m] = Blank
  <2>1. list' \subseteq 1 .. lastId'
    <3>1. \A x \in list : x \in 1 .. lastId
      BY DEF Numbered
    <3> QED BY <1>1, <1>4, <3>1
  <2>2. ASSUME NEW m \in Id, m > lastId'  PROVE info'[m] = Blank
    BY <1>1, <1>3, <1>4, <2>2 DEF Numbered
  <2> QED BY <2>1, <2>2
<1>6. n \in list => \A w \in Ids(n) : home[w] = home[v]
  BY <1>1 DEF OneHome
<1>7. n \notin list => Ids(n) = {} /\ info[n].browser = None
  BY <1>1 DEF Ids, Blank
<1>8. n \notin list => \A c \in Browser : infoOf[c] # n
  <2>1. \A c \in Browser : infoOf[c] <= lastId /\ infoOf[c] \in Nat
    <3>1. \A c \in Browser : infoOf[c] <= lastId /\ infoOf[c] \in Id \cup {0}
      BY DEF Numbered, TypeOK
    <3> QED BY <1>3, <3>1
  <2> QED BY <1>1, <2>1
<1>9. view[v] # "deleted" => \A m \in list : v \in Ids(m) => m = n
  BY <1>1 DEF Answers
<1> QED BY <1>1, <1>2, <1>3, <1>4, <1>5, <1>6, <1>7, <1>8, <1>9

LEMMA BuildPopupStep ==
  ASSUME IInv, BuildPopup
  PROVE  IInv'
<1> USE InfosAssumption, NoneAssumption DEF IInv
<1>1. PICK p \in Browser, v \in View :
        /\ p = ui.window.popup /\ v = ui.window.view
        /\ browser[p] = "promised" /\ home[v] = p /\ view[v] \in {"routed", "reserved"}
        /\ infoOf[p] = 0 /\ shutdown.at = "no" /\ ui.at = "build"
        /\ \A i \in DOMAIN creating : creating[i].popup # p
  <2>1. ui.window \in Window /\ ui.at = "build"
    BY Fields DEF BuildPopup
  <2>2. ui.window.popup \in Browser /\ ui.window.view \in View
    BY <2>1 DEF Window
  <2>3. /\ browser[ui.window.popup] = "promised" /\ home[ui.window.view] = ui.window.popup
        /\ shutdown.at = "no" /\ infoOf[ui.window.popup] = 0
        /\ \A i \in DOMAIN creating : creating[i].popup # ui.window.popup
    BY <2>1, <2>2 DEF Promises, Promised, Infos
  <2>4. view[ui.window.view] \in {"routed", "reserved"}
    <3>1. view[ui.window.view] \in {"unused", "reserved", "routed", "hosted", "deleted"}
      BY <2>2 DEF TypeOK
    <3>2. home[ui.window.view] # None
      BY <2>2, <2>3
    <3> QED BY <2>2, <2>3, <3>1, <3>2 DEF Homes
  <2> QED BY <2>1, <2>2, <2>3, <2>4
<1>2. PICK n \in Id :
        /\ n = IdFor(v)
        /\ n \in list' /\ n \in Nat \ {0} /\ lastId \in Nat /\ lastId' \in Id
        /\ list \subseteq Id /\ \A m \in Id : Ids(m) \subseteq View /\ m \in Nat
        /\ lastId <= lastId' /\ n <= lastId' /\ \A m \in 1 .. lastId' : m \in 1 .. lastId \/ m = n
        /\ list' \subseteq 1 .. lastId' /\ \A m \in Id : m > lastId' => info'[m] = Blank
        /\ \A m \in Id \ {n} : Ids(m)' = Ids(m)
        /\ Ids(n)' = Ids(n) \cup {v}
        /\ n \in list => v \in Ids(n) /\ \A w \in Ids(n) : home[w] = home[v]
        /\ n \notin list => Ids(n) = {} /\ info'[n].popup /\ \A c \in Browser : infoOf[c] # n
        /\ n \notin list => info[n].browser = None /\ n > lastId
        /\ \A m \in list : v \in Ids(m) => m = n
  <2>1. IdFor(v) \in Id
    <3>1. IdFor(v) \in 1 .. (lastId + 1) /\ IdFor(v) <= MaxId
      BY <1>1, Found DEF BuildPopup
    <3>2. lastId \in Nat
      BY DEF TypeOK, Id
    <3> QED BY <3>1, <3>2 DEF Id
  <2>2. GetOrCreateBrowserInfo(v, p)
    BY <1>1 DEF BuildPopup
  <2>3. view[v] # "deleted"
    BY <1>1
  <2> QED BY <2>1, <2>2, <2>3, Grown
<1>3. /\ info' \in [Id -> Info] /\ list' = list \cup {n}
      /\ \A m \in Id \ {n} : info'[m] = info[m]
      /\ info'[n].views = info[n].views \cup {v}
      /\ info'[n].frames = info[n].frames \cup {v}
      /\ info'[n].browser = p
      /\ n \in list => (info'[n].popup <=> info[n].popup)
  <2>1. GetOrCreateBrowserInfo(v, p) /\ p \in Browser \cup {None} /\ p # None
    BY <1>1 DEF BuildPopup
  <2> QED BY <1>2, <2>1, Left
<1>4. /\ pending' = pending /\ home' = home /\ frames' = frames /\ asked' = asked /\ told' = told
      /\ creating' = creating /\ ui' = Idle /\ io' = io /\ shutdown' = shutdown
  BY DEF BuildPopup, renderer
<1>5. /\ view'[v] = "hosted"
      /\ view' \in [View -> {"unused", "reserved", "routed", "hosted", "deleted"}]
      /\ \A w \in View \ {v} : view'[w] = view[w]
      /\ \A w \in View : view'[w] # "deleted" => view[w] # "deleted"
  BY <1>1 DEF BuildPopup, TypeOK
<1>6. /\ browser'[p] = "live" /\ infoOf'[p] = n
      /\ browser' \in [Browser -> {"unused", "promised", "canceled", "live", "destroyed"}]
      /\ infoOf' \in [Browser -> Id \cup {0}]
      /\ \A c \in Browser \ {p} : browser'[c] = browser[c] /\ infoOf'[c] = infoOf[c]
  BY <1>1, <1>2 DEF BuildPopup, TypeOK
<1>7. /\ \A c \in Browser : infoOf[c] # n
      /\ info[n].browser = None
  <2>1. ASSUME NEW c \in Browser, infoOf[c] = n  PROVE FALSE
    <3>1. n \in list /\ v \in Ids(n)
      BY <1>2, <2>1
    <3>2. home[v] = c /\ infoOf[c] # 0
      BY <1>2, <2>1, <3>1 DEF Infos
    <3> QED BY <1>1, <3>2
  <2>2. info[n].browser = None
    <3>1. SUFFICES ASSUME info[n].browser # None  PROVE FALSE
      OBVIOUS
    <3>2. info[n].browser \in Browser
      BY <3>1, InfoFields
    <3> QED BY <2>1, <3>1, <3>2 DEF Infos
  <2> QED BY <2>1, <2>2
<1>8. TypeOK'
  <2>1. list' \subseteq Id
    BY <1>2, <1>3
  <2> QED BY <1>2, <1>3, <1>4, <1>5, <1>6, <2>1 DEF TypeOK, UITask, Idle
<1>9. Numbered'
  <2>1. \A c \in Browser : infoOf[c] <= lastId /\ infoOf[c] \in Nat
    <3>1. \A c \in Browser : infoOf[c] <= lastId /\ infoOf[c] \in Id \cup {0}
      BY DEF Numbered, TypeOK
    <3> QED BY <3>1 DEF Id
  <2>2. \A c \in Browser : infoOf'[c] <= lastId'
    <3>1. lastId' \in Nat
      BY <1>2
    <3> QED BY <1>2, <1>6, <2>1, <3>1
  <2> QED BY <1>2, <2>2 DEF Numbered
<1>10. Homes'
  <2>1. \A w \in View : home[w] # None => home[w] \in Browser
    BY DEF TypeOK
  <2>2. \A w \in View : home[w] = None <=> view'[w] = "unused"
    BY <1>1, <1>5, NoneAssumption DEF Homes
  <2>3. \A w \in View : view'[w] \in {"routed", "reserved"} =>
          browser'[home[w]] \in {"promised", "canceled"}
    <3>1. SUFFICES ASSUME NEW w \in View, view'[w] \in {"routed", "reserved"}
                   PROVE  browser'[home[w]] \in {"promised", "canceled"}
      OBVIOUS
    <3>2. w # v /\ view[w] \in {"routed", "reserved"} /\ home[w] \in Browser
      BY <1>5, <2>1, <3>1 DEF Homes
    <3>3. home[w] # p
      BY <1>1, <3>2 DEF Homes
    <3> QED BY <1>6, <3>2, <3>3 DEF Homes
  <2>4. \A w \in View : view'[w] = "hosted" => browser'[home[w]] = "live"
    BY <1>1, <1>5, <1>6, <2>1 DEF Homes
  <2>5. \A w \in View : view'[w] = "deleted" => browser'[home[w]] \in {"live", "destroyed"}
    BY <1>1, <1>5, <1>6, <2>1 DEF Homes
  <2>6. \A w \in View : frames[w] # "none" => view'[w] \in {"hosted", "deleted"}
    BY <1>5 DEF Homes
  <2>7. \A w, u \in View : view'[w] \in {"routed", "reserved"} /\ home[u] = home[w] => u = w
    BY <1>5 DEF Homes
  <2> QED BY <1>4, <2>2, <2>3, <2>4, <2>5, <2>6, <2>7 DEF Homes
<1>11. OneHome'
  <2>1. \A w \in Ids(n)' : w \in View /\ home[w] = home[v]
    BY <1>2
  <2>2. \A w \in Ids(n)' : home[w] # None /\ \A u \in Ids(n)' : home[u] = home[w]
    BY <1>1, <2>1, NoneAssumption
  <2>3. \A m \in Id \ {n} : \A w \in Ids(m)' : home[w] # None /\ \A u \in Ids(m)' : home[u] = home[w]
    BY <1>2 DEF OneHome
  <2> QED BY <1>4, <2>2, <2>3 DEF OneHome
<1>12. Infos'
  <2>1. \A c \in Browser : infoOf'[c] # 0 <=> browser'[c] \in {"live", "destroyed"}
    BY <1>2, <1>6 DEF Infos
  <2>2. \A c \in Browser : infoOf'[c] # 0 => \A w \in Ids(infoOf[c])' : home'[w] = c
    <3>1. SUFFICES ASSUME NEW c \in Browser, infoOf'[c] # 0, NEW w \in Ids(infoOf[c])'
                   PROVE  home[w] = c
      BY <1>4
    <3>2. CASE c = p
      <4>1. w \in Ids(n)'
        BY <1>6, <3>1, <3>2
      <4> QED BY <1>1, <1>2, <3>2, <4>1
    <3>3. CASE c # p
      <4>1. infoOf'[c] = infoOf[c] /\ infoOf[c] \in Id \ {n} /\ infoOf[c] # 0
        BY <1>6, <1>7, <3>1, <3>3 DEF TypeOK
      <4>2. w \in Ids(infoOf[c])
        BY <1>2, <3>1, <4>1
      <4> QED BY <4>1, <4>2 DEF Infos
    <3> QED BY <3>2, <3>3
  <2>3. \A c, d \in Browser : infoOf'[c] # 0 /\ infoOf'[c] = infoOf'[d] => c = d
    BY <1>6, <1>7 DEF Infos
  <2>4. \A c \in Browser : browser'[c] = "live" =>
          info'[infoOf'[c]].browser = c /\ infoOf'[c] \in list'
    <3>1. \A c \in Browser : browser[c] = "live" => infoOf[c] \in Id \ {n}
      BY <1>7 DEF Infos, TypeOK
    <3> QED BY <1>3, <1>6, <3>1 DEF Infos
  <2>5. \A c \in Browser : browser'[c] = "destroyed" => infoOf'[c] \notin list'
    BY <1>3, <1>6, <1>7 DEF Infos
  <2>6. \A m \in Id : info'[m].browser # None => infoOf'[info'[m].browser] = m
    <3>1. SUFFICES ASSUME NEW m \in Id \ {n}, info[m].browser # None
                   PROVE  infoOf'[info[m].browser] = m
      BY <1>3, <1>6
    <3>2. info[m].browser \in Browser /\ m # 0
      <4>1. info[m].browser \in Browser
        BY <3>1, InfoFields
      <4>2. m # 0
        BY DEF Id
      <4> QED BY <4>1, <4>2
    <3>3. infoOf[info[m].browser] = m
      BY <3>1 DEF Infos
    <3> QED BY <1>1, <1>6, <3>2, <3>3
  <2>7. \A m \in 1 .. lastId' : info'[m].popup \/ \E c \in Browser : infoOf'[c] = m
    <3>1. SUFFICES ASSUME NEW m \in 1 .. lastId, m # n
                   PROVE  info'[m].popup \/ \E c \in Browser : infoOf'[c] = m
      BY <1>2, <1>6
    <3>2. m \in Id \ {n} /\ m # 0
      BY <1>2, <3>1 DEF Id
    <3> QED BY <1>1, <1>3, <1>6, <3>2 DEF Infos
  <2> QED BY <2>1, <2>2, <2>3, <2>4, <2>5, <2>6, <2>7 DEF Infos
<1>13. Promises'
  <2>1. \A i \in DOMAIN creating : creating[i] \in Window
    BY DEF TypeOK
  <2>2. \A w \in Window : Promised(w) /\ w.popup # p => Promised(w)'
    <3>1. SUFFICES ASSUME NEW w \in Window, Promised(w), w.popup # p  PROVE Promised(w)'
      OBVIOUS
    <3>2. w.popup \in Browser /\ w.opener \in View /\ w.view \in View
      BY DEF Window
    <3> QED BY <1>1, <1>4, <1>5, <1>6, <3>1, <3>2 DEF Promised
  <2>3. (\A i \in DOMAIN creating : Promised(creating[i]))'
    BY <1>1, <1>4, <2>1, <2>2 DEF Promises, Promised
  <2> QED BY <1>4, <2>3 DEF Promises, Idle
<1>14. Looking'
  <2>1. CASE io.at = "found" /\ io.id # 0
    <3>1. /\ io.id \in Id /\ io.opener \in View /\ io.id <= lastId /\ home[io.opener] # None
          /\ \A w \in Ids(io.id) : home[w] = home[io.opener]
          /\ info[io.id].browser \in {None, home[io.opener]}
      BY <2>1, Fields DEF Looking
    <3>2. io.id <= lastId'
      BY <1>2, <3>1 DEF Id
    <3>3. CASE io.id = n
      <4>1. n \in list
        BY <1>2, <3>1, <3>3
      <4>2. home[io.opener] = p
        BY <1>1, <1>2, <3>1, <3>3, <4>1
      <4>3. \A w \in Ids(n)' : home[w] = p
        BY <1>1, <1>2, <4>1
      <4> QED BY <1>3, <1>4, <2>1, <3>1, <3>2, <3>3, <4>2, <4>3 DEF Looking
    <3>4. CASE io.id # n
      <4>1. \A w \in Ids(io.id)' : home[w] = home[io.opener]
        BY <1>2, <1>4, <3>1, <3>4
      <4> QED BY <1>3, <1>4, <2>1, <3>1, <3>2, <3>4, <4>1 DEF Looking
    <3> QED BY <3>3, <3>4
  <2>2. CASE io.at = "ask"
    <3>1. io.browser \in Browser
      BY <2>2, Fields
    <3> QED BY <1>2, <1>4, <1>6, <2>2, <3>1 DEF Looking
  <2> QED BY <1>4, <2>1, <2>2 DEF Looking
<1>15. Sweeping'
  BY <1>1, <1>4 DEF Sweeping
<1>16. Answers'
  <2>1. \A w \in View : view'[w] # "deleted" =>
          \A l, m \in list' : w \in Ids(l)' /\ w \in Ids(m)' => l = m
    <3>1. SUFFICES ASSUME NEW w \in View, view'[w] # "deleted", NEW l \in list', NEW m \in list',
                          w \in Ids(l)', w \in Ids(m)'
                   PROVE  l = m
      OBVIOUS
    <3>2. l \in Id /\ m \in Id /\ view[w] # "deleted"
      BY <1>2, <1>3, <1>5, <3>1
    <3>3. CASE w = v
      <4>1. \A k \in list' : v \in Ids(k)' => k = n
        BY <1>2, <1>3, <3>2, <3>3
      <4> QED BY <3>1, <3>3, <4>1
    <3>4. CASE w # v
      <4>1. \A k \in list' : w \in Ids(k)' => k \in list /\ w \in Ids(k)
        BY <1>2, <1>3, <3>4
      <4> QED BY <3>1, <3>2, <4>1 DEF Answers
    <3> QED BY <3>3, <3>4
  <2>2. told[v] = n \/ asked[v] = 0
    <3>1. SUFFICES ASSUME asked[v] # 0  PROVE told[v] = n
      OBVIOUS
    <3>2. view[v] = "routed"
      BY <1>1, <3>1 DEF Answers
    <3>3. told[v] \in list /\ v \in Ids(told[v])
      BY <1>1, <3>1, <3>2 DEF Answers, Ids
    <3> QED BY <1>2, <3>3
  <2>3. \A w \in View : view'[w] = "hosted" =>
          /\ w \in info'[infoOf'[home[w]]].views
          /\ asked[w] # 0 /\ frames[w] # "deleted" => w \in info'[infoOf'[home[w]]].frames
          /\ asked[w] # 0 => told[w] = infoOf'[home[w]]
    <3>1. SUFFICES ASSUME NEW w \in View, view'[w] = "hosted"
                   PROVE  /\ w \in info'[infoOf'[home[w]]].views
                          /\ asked[w] # 0 /\ frames[w] # "deleted" =>
                               w \in info'[infoOf'[home[w]]].frames
                          /\ asked[w] # 0 => told[w] = infoOf'[home[w]]
      OBVIOUS
    <3>2. CASE w = v
      BY <1>1, <1>3, <1>6, <2>2, <3>2
    <3>3. CASE w # v
      <4>1. view[w] = "hosted" /\ home[w] \in Browser /\ browser[home[w]] = "live"
        BY <1>5, <3>1, <3>3 DEF Homes, TypeOK
      <4>2. infoOf[home[w]] \in Id \ {n} /\ infoOf'[home[w]] = infoOf[home[w]]
        BY <1>1, <1>6, <1>7, <4>1 DEF Infos, TypeOK
      <4> QED BY <1>3, <4>1, <4>2 DEF Answers
    <3> QED BY <3>2, <3>3
  <2>4. \A w \in View : view'[w] = "routed" /\ asked[w] # 0 =>
          told[w] \in list' /\ w \in info'[told[w]].views /\ w \in info'[told[w]].frames
    <3>1. SUFFICES ASSUME NEW w \in View, view[w] = "routed", asked[w] # 0
                   PROVE  told[w] \in list' /\ w \in info'[told[w]].views
                          /\ w \in info'[told[w]].frames
      BY <1>5
    <3>2. told[w] \in Id /\ told[w] \in list
      BY <1>1, <1>2, <3>1 DEF Answers
    <3>3. w \in info[told[w]].views /\ w \in info[told[w]].frames
      BY <1>1, <3>1 DEF Answers
    <3> QED BY <1>3, <3>2, <3>3
  <2>5. \A w \in View : view'[w] \in {"unused", "reserved"} => asked[w] = 0
    BY <1>5 DEF Answers
  <2> QED BY <1>1, <1>4, <2>1, <2>3, <2>4, <2>5 DEF Answers
<1>17. PopupFindsItsSettings'
  <2>1. \A i \in DOMAIN creating : creating[i].opener \in View /\ creating[i].opener # v
    <3>1. \A i \in DOMAIN creating : creating[i] \in Window /\ Promised(creating[i])
      BY DEF TypeOK, Promises
    <3> QED BY <1>1, <3>1 DEF Window, Promised
  <2> QED BY <1>4, <1>5, <2>1 DEF PopupFindsItsSettings
<1> QED BY <1>8, <1>9, <1>10, <1>11, <1>12, <1>13, <1>14, <1>15, <1>16, <1>17

LEMMA GetNewBrowserInfoStep ==
  ASSUME IInv, NEW v \in View, GetNewBrowserInfo(v)
  PROVE  IInv'
<1> USE InfosAssumption, NoneAssumption DEF IInv
<1>1. /\ view[v] \in {"routed", "hosted", "deleted"} /\ home[v] # None
      /\ asked[v] \in {0, 1} /\ told[v] \in Id \cup {0}
  BY DEF GetNewBrowserInfo, Homes, TypeOK
<1>2. PICK n \in Id :
        /\ n = IdFor(v)
        /\ n \in list' /\ n \in Nat \ {0} /\ lastId \in Nat /\ lastId' \in Id
        /\ list \subseteq Id /\ \A m \in Id : Ids(m) \subseteq View /\ m \in Nat
        /\ lastId <= lastId' /\ n <= lastId' /\ \A m \in 1 .. lastId' : m \in 1 .. lastId \/ m = n
        /\ list' \subseteq 1 .. lastId' /\ \A m \in Id : m > lastId' => info'[m] = Blank
        /\ \A m \in Id \ {n} : Ids(m)' = Ids(m)
        /\ Ids(n)' = Ids(n) \cup {v}
        /\ n \in list => v \in Ids(n) /\ \A w \in Ids(n) : home[w] = home[v]
        /\ n \notin list => Ids(n) = {} /\ info'[n].popup /\ \A c \in Browser : infoOf[c] # n
        /\ n \notin list => info[n].browser = None /\ n > lastId
        /\ view[v] # "deleted" => \A m \in list : v \in Ids(m) => m = n
  <2>1. IdFor(v) \in Id
    <3>1. /\ IdFor(v) \in 1 .. (lastId + 1)
          /\ Matching(v) # {} => IdFor(v) \in list
          /\ Matching(v) # {} \/ lastId < MaxInfos
      BY Found DEF GetNewBrowserInfo
    <3>2. lastId \in Nat /\ list \subseteq Id
      BY DEF TypeOK, Id
    <3> QED BY <3>1, <3>2 DEF Id
  <2>2. GetOrCreateBrowserInfo(v, None)
    BY DEF GetNewBrowserInfo
  <2> QED BY <2>1, <2>2, Grown
<1>3. /\ info' \in [Id -> Info] /\ list' = list \cup {n}
      /\ \A m \in Id \ {n} : info'[m] = info[m]
      /\ info'[n].views = info[n].views \cup {v}
      /\ info'[n].frames = info[n].frames \cup {v}
      /\ info'[n].browser = info[n].browser
      /\ n \in list => (info'[n].popup <=> info[n].popup)
  <2>1. GetOrCreateBrowserInfo(v, None) /\ None \in Browser \cup {None}
    BY DEF GetNewBrowserInfo
  <2> QED BY <1>2, <2>1, Left
<1>4. /\ browser' = browser /\ infoOf' = infoOf /\ pending' = pending /\ home' = home
      /\ view' = view /\ frames' = frames /\ creating' = creating /\ ui' = ui /\ io' = Idle
      /\ shutdown' = shutdown
  BY DEF GetNewBrowserInfo, content
<1>5. /\ asked' \in [View -> 0 .. 2] /\ told' \in [View -> Id \cup {0}]
      /\ asked'[v] # 0 /\ told'[v] # 0
      /\ told'[v] = IF told[v] = 0 THEN n ELSE told[v]
      /\ \A w \in View \ {v} : asked'[w] = asked[w] /\ told'[w] = told[w]
  BY <1>1, <1>2 DEF GetNewBrowserInfo, BrowserCreated, TypeOK
<1>6. TypeOK'
  <2>1. list' \subseteq Id
    BY <1>2, <1>3
  <2>2. io' \in IOTask
    BY <1>4 DEF IOTask, Idle
  <2> QED BY <1>2, <1>3, <1>4, <1>5, <2>1, <2>2 DEF TypeOK
<1>7. Numbered'
  <2>1. \A c \in Browser : infoOf[c] <= lastId /\ infoOf[c] \in Nat
    <3>1. \A c \in Browser : infoOf[c] <= lastId /\ infoOf[c] \in Id \cup {0}
      BY DEF Numbered, TypeOK
    <3> QED BY <3>1 DEF Id
  <2>2. \A c \in Browser : infoOf'[c] <= lastId'
    <3>1. lastId' \in Nat
      BY <1>2
    <3> QED BY <1>2, <1>4, <2>1, <3>1
  <2> QED BY <1>2, <2>2 DEF Numbered
<1>8. Homes'
  BY <1>4 DEF Homes
<1>9. OneHome'
  <2>1. \A w \in Ids(n)' : w \in View /\ home[w] = home[v]
    BY <1>2
  <2>2. \A w \in Ids(n)' : home[w] # None /\ \A u \in Ids(n)' : home[u] = home[w]
    BY <1>1, <2>1
  <2>3. \A m \in Id \ {n} : \A w \in Ids(m)' : home[w] # None /\ \A u \in Ids(m)' : home[u] = home[w]
    BY <1>2 DEF OneHome
  <2> QED BY <1>4, <2>2, <2>3 DEF OneHome
<1>10. Infos'
  <2>1. \A c \in Browser : infoOf[c] # 0 => infoOf[c] \in Id /\ \A w \in Ids(infoOf[c])' : home[w] = c
    <3>1. SUFFICES ASSUME NEW c \in Browser, infoOf[c] # 0
                   PROVE  infoOf[c] \in Id /\ \A w \in Ids(infoOf[c])' : home[w] = c
      OBVIOUS
    <3>2. infoOf[c] \in Id /\ \A w \in Ids(infoOf[c]) : home[w] = c
      BY <3>1 DEF Infos, TypeOK
    <3>3. CASE infoOf[c] = n
      BY <1>2, <1>4, <3>2, <3>3
    <3>4. CASE infoOf[c] # n
      BY <1>2, <1>4, <3>2, <3>4
    <3> QED BY <3>2, <3>3, <3>4
  <2>2. \A c \in Browser : browser[c] = "live" =>
          info'[infoOf[c]].browser = c /\ infoOf[c] \in list'
    <3>1. \A c \in Browser : browser[c] = "live" => infoOf[c] \in Id
      BY DEF Infos, TypeOK
    <3> QED BY <1>3, <3>1 DEF Infos
  <2>3. \A c \in Browser : browser[c] = "destroyed" => infoOf[c] \notin list'
    <3>1. SUFFICES ASSUME NEW c \in Browser, browser[c] = "destroyed", infoOf[c] = n  PROVE FALSE
      BY <1>3 DEF Infos
    <3>2. n \notin list
      BY <3>1 DEF Infos
    <3> QED BY <1>2, <3>1, <3>2
  <2>4. \A m \in Id : info'[m].browser # None => infoOf[info'[m].browser] = m
    BY <1>3 DEF Infos
  <2>5. \A m \in 1 .. lastId' : info'[m].popup \/ \E c \in Browser : infoOf[c] = m
    <3>1. SUFFICES ASSUME NEW m \in 1 .. lastId'
                   PROVE  info'[m].popup \/ \E c \in Browser : infoOf[c] = m
      OBVIOUS
    <3>2. CASE m = n
      <4>1. n \in list => n \in 1 .. lastId
        BY DEF Numbered
      <4> QED BY <1>2, <1>3, <3>2, <4>1 DEF Infos
    <3>3. CASE m # n
      <4>1. m \in 1 .. lastId
        BY <1>2, <3>1, <3>3
      <4>2. m \in Id \ {n}
        BY <3>3, <4>1 DEF Id, TypeOK
      <4> QED BY <1>3, <4>1, <4>2 DEF Infos
    <3> QED BY <3>2, <3>3
  <2> QED BY <1>4, <2>1, <2>2, <2>3, <2>4, <2>5 DEF Infos
<1>11. Promises'
  BY <1>4 DEF Promises, Promised
<1>12. Looking'
  BY <1>4 DEF Looking, Idle
<1>13. Sweeping'
  BY <1>3, <1>4 DEF Sweeping
<1>14. Answers'
  <2>1. \A w \in View : view[w] # "deleted" =>
          \A l, m \in list' : w \in Ids(l)' /\ w \in Ids(m)' => l = m
    <3>1. SUFFICES ASSUME NEW w \in View, view[w] # "deleted", NEW l \in list', NEW m \in list',
                          w \in Ids(l)', w \in Ids(m)'
                   PROVE  l = m
      OBVIOUS
    <3>2. l \in Id /\ m \in Id /\ view[w] # "deleted"
      BY <1>2, <1>3, <1>5, <3>1
    <3>3. CASE w = v
      <4>1. \A k \in list' : v \in Ids(k)' => k = n
        BY <1>2, <1>3, <3>2, <3>3
      <4> QED BY <3>1, <3>3, <4>1
    <3>4. CASE w # v
      <4>1. \A k \in list' : w \in Ids(k)' => k \in list /\ w \in Ids(k)
        BY <1>2, <1>3, <3>4
      <4> QED BY <3>1, <3>2, <4>1 DEF Answers
    <3> QED BY <3>3, <3>4
  <2>2. view[v] = "hosted" => infoOf[home[v]] = n
    <3>1. HAVE view[v] = "hosted"
    <3>2. infoOf[home[v]] \in list /\ v \in Ids(infoOf[home[v]])
      BY <3>1 DEF Homes, Infos, TypeOK, Answers, Ids
    <3> QED BY <1>2, <3>1, <3>2
  <2>3. told[v] = 0 <=> asked[v] = 0
    BY DEF Answers
  <2>4. view[v] = "routed" /\ shutdown.at = "no" => told'[v] = n
    <3>1. HAVE view[v] = "routed" /\ shutdown.at = "no"
    <3>2. asked[v] # 0 => told[v] \in list /\ v \in Ids(told[v])
      BY <3>1 DEF Answers, Ids
    <3> QED BY <1>2, <1>5, <2>3, <3>1, <3>2
  <2>5. view[v] = "hosted" => told'[v] = n
    <3>1. view[v] = "hosted" /\ asked[v] # 0 => told[v] = n
      BY <2>2 DEF Answers
    <3> QED BY <1>5, <2>3, <3>1
  <2>6. \A w \in View : view[w] = "hosted" =>
          /\ w \in info'[infoOf[home[w]]].views
          /\ asked'[w] # 0 /\ frames[w] # "deleted" => w \in info'[infoOf[home[w]]].frames
          /\ asked'[w] # 0 => told'[w] = infoOf[home[w]]
    <3>1. SUFFICES ASSUME NEW w \in View, view[w] = "hosted"
                   PROVE  /\ w \in info'[infoOf[home[w]]].views
                          /\ asked'[w] # 0 /\ frames[w] # "deleted" =>
                               w \in info'[infoOf[home[w]]].frames
                          /\ asked'[w] # 0 => told'[w] = infoOf[home[w]]
      OBVIOUS
    <3>2. CASE w = v
      BY <1>3, <2>2, <2>5, <3>1, <3>2
    <3>3. CASE w # v
      <4>1. infoOf[home[w]] \in Id
        BY <3>1 DEF Homes, Infos, TypeOK
      <4>2. /\ w \in info[infoOf[home[w]]].views
            /\ asked[w] # 0 /\ frames[w] # "deleted" => w \in info[infoOf[home[w]]].frames
            /\ asked[w] # 0 => told[w] = infoOf[home[w]]
        BY <3>1 DEF Answers
      <4> QED BY <1>3, <1>5, <3>3, <4>1, <4>2
    <3> QED BY <3>2, <3>3
  <2>7. shutdown.at = "no" => \A w \in View : view[w] = "routed" /\ asked'[w] # 0 =>
          told'[w] \in list' /\ w \in info'[told'[w]].views /\ w \in info'[told'[w]].frames
    <3>1. SUFFICES ASSUME shutdown.at = "no", NEW w \in View, view[w] = "routed", asked'[w] # 0
                   PROVE  told'[w] \in list' /\ w \in info'[told'[w]].views
                          /\ w \in info'[told'[w]].frames
      OBVIOUS
    <3>2. CASE w = v
      BY <1>2, <1>3, <2>4, <3>1, <3>2
    <3>3. CASE w # v
      <4>1. told[w] \in list /\ w \in info[told[w]].views /\ w \in info[told[w]].frames
        BY <1>5, <3>1, <3>3 DEF Answers
      <4>2. told[w] \in Id /\ told'[w] = told[w]
        BY <1>2, <1>5, <3>3, <4>1
      <4> QED BY <1>3, <4>1, <4>2
    <3> QED BY <3>2, <3>3
  <2>8. \A w \in View : asked'[w] = 0 <=> told'[w] = 0
    BY <1>5 DEF Answers
  <2>9. \A w \in View : view[w] \in {"unused", "reserved"} => asked'[w] = 0
    BY <1>1, <1>5 DEF Answers
  <2> QED BY <1>4, <2>1, <2>6, <2>7, <2>8, <2>9 DEF Answers
<1>15. PopupFindsItsSettings'
  BY <1>4 DEF PopupFindsItsSettings
<1> QED BY <1>6, <1>7, <1>8, <1>9, <1>10, <1>11, <1>12, <1>13, <1>14, <1>15
-----------------------------------------------------------------------------
LEMMA InitIInv ==
  ASSUME Init
  PROVE  IInv
<1> USE InfosAssumption, NoneAssumption DEF Init
<1>1. TypeOK
  <2>1. Blank \in Info
    <3>1. {} \in SUBSET View /\ FALSE \in BOOLEAN /\ None \in Browser \cup {None}
      OBVIOUS
    <3> QED BY <3>1, InfoOf, Zenon DEF Blank
  <2>2. ui \in UITask /\ io \in IOTask
    BY DEF UITask, IOTask, Idle
  <2>3. shutdown \in Shutdown
    BY DEF Shutdown
  <2>4. creating \in Seq(Window)
    OBVIOUS
  <2>5. lastId \in Id \cup {0} /\ list \subseteq Id
    OBVIOUS
  <2> QED BY <2>1, <2>2, <2>3, <2>4, <2>5 DEF TypeOK
<1>2. \A n \in Id : info[n] = Blank /\ Ids(n) = {} /\ info[n].browser = None
  BY DEF Ids, Blank
<1>3. Numbered
  BY <1>2 DEF Numbered
<1>4. Homes
  BY DEF Homes
<1>5. OneHome
  BY <1>2 DEF OneHome
<1>6. Infos
  BY <1>2 DEF Infos
<1>7. Promises /\ Looking /\ Sweeping /\ PopupFindsItsSettings
  BY DEF Promises, Looking, Sweeping, PopupFindsItsSettings, Idle
<1>8. Answers
  BY DEF Answers
<1> QED BY <1>1, <1>3, <1>4, <1>5, <1>6, <1>7, <1>8 DEF IInv

LEMMA StepKeepsIInv ==
  ASSUME IInv, [Next]_vars
  PROVE  IInv'
<1>1. CASE UINext
  BY <1>1, CreateStep, RenderViewCreatedStep, RenderViewDeletedStep, RenderFrameCreatedStep,
     RenderFrameDeletedStep, DestroyBrowserStep, CreateWindowStep, BuildPopupStep,
     DestroyBrowserUnsetsStep, StartShutdownStep, SweepInfoStep, EndShutdownStep
     DEF UINext
<1>2. CASE IONext
  BY <1>2, GetNewBrowserInfoStep, OpenWindowStep, ReadBrowserStep, DenyPopupStep,
     AllowPopupStep
     DEF IONext
<1>3. CASE UNCHANGED vars
  <2>1. /\ registry' = registry /\ browser' = browser /\ infoOf' = infoOf
        /\ pending' = pending /\ content' = content /\ renderer' = renderer
        /\ creating' = creating /\ ui' = ui /\ io' = io /\ shutdown' = shutdown
    BY <1>3 DEF vars
  <2> USE <2>1 DEF IInv, registry, content, renderer
  <2>2. TypeOK' /\ Numbered' /\ Homes' /\ OneHome'
    BY DEF TypeOK, Numbered, Homes, OneHome, Ids
  <2>3. Infos' /\ Promises' /\ Looking'
    BY DEF Infos, Promises, Promised, Looking, Ids
  <2>4. Sweeping' /\ Answers' /\ PopupFindsItsSettings'
    BY DEF Sweeping, Answers, PopupFindsItsSettings, Ids
  <2> QED BY <2>2, <2>3, <2>4
<1> QED BY <1>1, <1>2, <1>3 DEF Next

LEMMA AlwaysIInv == Spec => []IInv
BY InitIInv, StepKeepsIInv, PTL DEF Spec

(* Every state is well formed: ids stay within the list's numbering, the   *)
(* threads' intermediate states name views, infos and browsers.            *)
THEOREM RegistryTypeCorrect == Spec => []TypeOK
<1>1. IInv => TypeOK
  BY DEF IInv
<1> QED BY <1>1, AlwaysIInv, PTL

(* GetOrCreateBrowserInfo never makes a second info for a view, whichever  *)
(* thread calls it first, and frame and view lead to the same one.         *)
THEOREM OneInfoForEachView == Spec => []OneInfoPerView
<1>1. ASSUME IInv  PROVE OneInfoPerView
  <2> USE NoneAssumption, InfosAssumption DEF IInv
  <2>1. SUFFICES ASSUME NEW v \in View
                 PROVE  /\ view[v] = "hosted" =>
                             /\ OfView(v) = {infoOf[home[v]]}
                             /\ OfFrame(v) \subseteq OfView(v)
                             /\ asked[v] > 0 /\ frames[v] # "deleted" => OfFrame(v) = OfView(v)
                        /\ view[v] = "routed" => Cardinality(OfView(v)) <= 1
    BY <1>1 DEF OneInfoPerView
  <2>2. view[v] # "deleted" => \A m, n \in list : v \in Ids(m) /\ v \in Ids(n) => m = n
    BY <1>1 DEF Answers
  <2>3. CASE view[v] = "hosted"
    <3>1. home[v] \in Browser /\ infoOf[home[v]] \in list /\ v \in info[infoOf[home[v]]].views
      BY <1>1, <2>3 DEF Homes, Infos, TypeOK, Answers
    <3>2. asked[v] # 0 /\ frames[v] # "deleted" => v \in info[infoOf[home[v]]].frames
      BY <1>1, <2>3 DEF Answers
    <3>3. asked[v] > 0 => asked[v] # 0
      BY <1>1 DEF TypeOK
    <3>4. OfView(v) = {infoOf[home[v]]}
      BY <2>2, <2>3, <3>1 DEF OfView, Ids
    <3>5. OfFrame(v) \subseteq {infoOf[home[v]]}
      BY <2>2, <2>3, <3>1 DEF OfFrame, Ids
    <3>6. asked[v] > 0 /\ frames[v] # "deleted" => infoOf[home[v]] \in OfFrame(v)
      BY <3>1, <3>2, <3>3 DEF OfFrame
    <3> QED BY <2>3, <3>4, <3>5, <3>6
  <2>4. CASE view[v] = "routed"
    <3>1. OfView(v) = {} \/ \E n \in list : OfView(v) = {n}
      BY <2>2, <2>4 DEF OfView, Ids
    <3>2. Cardinality({}) = 0 /\ \A n \in list : Cardinality({n}) = 1
      BY FS_EmptySet, FS_Singleton
    <3>3. Cardinality(OfView(v)) \in {0, 1}
      BY <3>1, <3>2
    <3> QED BY <2>4, <3>3
  <2> QED BY <2>3, <2>4
<1> QED BY <1>1, AlwaysIInv, PTL

(* The id the IO thread gave a renderer is the id of the browser its view  *)
(* gets, even when the UI thread creates the browser afterwards.           *)
THEOREM RendererIdIsRight == Spec => []RendererKnowsItsBrowser
<1>1. ASSUME IInv  PROVE RendererKnowsItsBrowser
  BY <1>1 DEF IInv, Answers, RendererKnowsItsBrowser
<1> QED BY <1>1, AlwaysIInv, PTL

(* The DCHECKs of the constructor and of WebContentsCreated hold, and      *)
(* ShouldCreateWebContents and WebContentsCreated may use the pending      *)
(* settings without a test.                                                *)
THEOREM PopupIsReady == Spec => []PopupIsPrepared
<1>1. ASSUME IInv  PROVE PopupGetsInfoOfItsOwn
  <2> USE NoneAssumption, InfosAssumption DEF IInv
  <2>1. SUFFICES ASSUME ui.at = "build", NEW n \in Matching(ui.window.view)
                 PROVE  info[n].browser = None /\ info[n].popup
    BY DEF PopupGetsInfoOfItsOwn
  <2>2. /\ ui.window \in Window /\ ui.window.popup \in Browser /\ ui.window.view \in View
        /\ browser[ui.window.popup] = "promised" /\ home[ui.window.view] = ui.window.popup
    BY <1>1, <2>1, Fields DEF Promises, Promised, Window
  <2>3. n \in list /\ n \in Id /\ n \in 1 .. lastId /\ ui.window.view \in Ids(n)
    BY <1>1, <2>1 DEF Matching, OfView, OfFrame, Ids, Numbered, TypeOK
  <2>4. \A c \in Browser : infoOf[c] # n
    <3>1. SUFFICES ASSUME NEW c \in Browser, infoOf[c] = n  PROVE FALSE
      OBVIOUS
    <3>2. n # 0
      BY <2>3 DEF Id
    <3>3. home[ui.window.view] = c /\ browser[c] \in {"live", "destroyed"}
      BY <1>1, <2>3, <3>1, <3>2 DEF Infos
    <3> QED BY <2>2, <3>3
  <2>5. info[n].browser = None
    <3>1. info[n].browser \in Browser \cup {None}
      BY <1>1, <2>3, InfoFields
    <3> QED BY <1>1, <2>3, <2>4, <3>1 DEF Infos
  <2>6. info[n].popup
    BY <1>1, <2>3, <2>4 DEF Infos
  <2> QED BY <2>5, <2>6
<1>2. IInv => PopupIsPrepared
  BY <1>1 DEF IInv, PopupIsPrepared
<1> QED BY <1>2, AlwaysIInv, PTL

(* CanCreateWindow asks the client about the browser that opens the popup, *)
(* although the list and the info are looked at under two locks.           *)
THEOREM LookupFindsOpener == Spec => []LookupFindsTheOpener
<1>1. IInv => LookupFindsTheOpener
  BY DEF IInv, Looking, LookupFindsTheOpener
<1> QED BY <1>1, AlwaysIInv, PTL

(* DestroyAllBrowsers removes what is in the list, finds infos without a   *)
(* browser to be popups', and leaves no browser alive.                     *)
THEOREM ShutdownIsComplete == Spec => []ShutdownReachesEveryBrowser
<1>1. ASSUME IInv  PROVE ShutdownReachesEveryBrowser
  <2> USE NoneAssumption, InfosAssumption DEF IInv
  <2>1. ASSUME NEW n \in list, info[n].browser = None  PROVE info[n].popup
    <3>1. n \in Id /\ n \in 1 .. lastId
      BY <1>1 DEF TypeOK, Numbered
    <3>2. \A b \in Browser : infoOf[b] # n
      <4>1. SUFFICES ASSUME NEW b \in Browser, infoOf[b] = n  PROVE FALSE
        OBVIOUS
      <4>2. n # 0
        BY <3>1 DEF Id
      <4>3. browser[b] \in {"live", "destroyed"}
        BY <1>1, <4>1, <4>2 DEF Infos
      <4>4. browser[b] # "live"
        BY <1>1, <2>1, <4>1 DEF Infos
      <4>5. browser[b] # "destroyed"
        BY <1>1, <4>1 DEF Infos
      <4> QED BY <4>3, <4>4, <4>5
    <3> QED BY <1>1, <3>1, <3>2 DEF Infos
  <2>2. \A b \in Browser : browser[b] = "live" => infoOf[b] \in list
    BY <1>1 DEF Infos
  <2>3. /\ shutdown.at = "sweep" => shutdown.left \subseteq list
        /\ shutdown.at = "over" => \A b \in Browser : browser[b] # "live"
    BY <1>1 DEF Sweeping
  <2> QED BY <2>1, <2>2, <2>3 DEF ShutdownReachesEveryBrowser
<1> QED BY <1>1, AlwaysIInv, PTL
=============================================================================
