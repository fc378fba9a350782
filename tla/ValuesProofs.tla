----------------------------- MODULE ValuesProofs -----------------------------
(***************************************************************************)
(* The trees of values, their objects and their controllers agree, for any *)
(* number of addresses, objects and threads: every action is followed      *)
(* through what it does to a memory p of values, the objects ob and the    *)
(* controllers k.                                                          *)
(***************************************************************************)
EXTENDS Values, FiniteSetTheorems, TLAPS

(* Every value is below one that is contained in no other.                 *)
Forest(p) ==
  /\ \A a \in Address : p[a] \in Address => p[p[a]] # "free"
  /\ \A a \in Address : p[a] # "free" => \E b \in Address : p[b] = "top" /\ a \in Below(p, {b})

(* A tree has one controller that owns it, with the object of the owner.   *)
Owned(p, ob, k) ==
  /\ \A c \in Object : k[c].owner # None =>
       /\ p[k[c].owner] = "top" /\ ob[c].mode = "owner"
       /\ ob[c].value = k[c].owner /\ ob[c].controller = c
  /\ \A c, d \in Object : k[c].owner # None /\ k[c].owner = k[d].owner => c = d
  /\ \A a \in Address : p[a] = "top" => \E c \in Object : k[c].owner = a

(* An object that is attached has a value in the tree its controller is    *)
(* for: the top, or one the controller refers to it for.                   *)
InItsTree(p, ob, k) ==
  \A o \in Object : ob[o].controller # None =>
    LET own == k[ob[o].controller] IN
    /\ own.owner # None /\ ob[o].value \in Below(p, {own.owner})
    /\ \/ ob[o].mode = "owner" /\ ob[o].controller = o /\ own.owner = ob[o].value
       \/ /\ ob[o].mode = "reference" /\ ob[o].value \in DOMAIN own.references
          /\ own.references[ob[o].value] = o

(* The controller knows all that the value of a reference is inside of.    *)
DependsOnAll(p, ob, k) ==
  \A o \in Object : ob[o].controller # None /\ ob[o].mode = "reference" =>
    \A a \in Address :
      a # k[ob[o].controller].owner /\ ob[o].value \in Below(p, {a})
        => <<p[a], a>> \in k[ob[o].controller].dependencies

(* No controller refers to an object that owns a tree.                     *)
OwnersNotReferred(ob, k) ==
  \A c \in Object : \A o \in AllObjects(k[c]) : ob[o].mode = "reference"

Trees(p, ob, k) ==
  /\ Forest(p) /\ Owned(p, ob, k) /\ InItsTree(p, ob, k) /\ DependsOnAll(p, ob, k)
  /\ OwnersNotReferred(ob, k)

(* The object of a call is there, and if it is attached, then where it was *)
(* when the call began; a call that stores has the lock, and its source is *)
(* held by the client.                                                     *)
CallKnown(t) ==
  LET call == threads[t] IN
  /\ call.at = "none" => call = Idle
  /\ call.at # "none" =>
       /\ call.self # None /\ call.controller # None
       /\ objects[call.self].state # "gone"
       /\ Attached(call.self) => objects[call.self].controller = call.controller
  /\ call.at \notin {"none", "lock"} =>
       /\ call.source # None /\ call.from # None /\ lock[call.controller] = t
       /\ objects[call.self].state = "held" /\ objects[call.source].state = "held"
       /\ Attached(call.source) => objects[call.source].controller = call.from
  /\ call.at = "lock" => call.source = None /\ call.from = None

(* No other call uses an object that dies.                                 *)
DyingAlone ==
  \A t, u \in Thread :
    threads[t].self # None /\ objects[threads[t].self].state = "dying" /\ u # t
      => threads[t].self \notin {threads[u].self, threads[u].source}

(* The types the lemmas about memories need.                               *)
Typed(ob, k) ==
  \A x \in Object : IsController(k[x]) /\ ob[x].controller \in Object \cup {None}

(* Objects that lost their controller; the others did not change, but for  *)
(* their states.                                                           *)
Loses(ob, ob2, O) ==
  \A o \in Object :
    /\ o \notin O => /\ ob2[o].mode = ob[o].mode /\ ob2[o].value = ob[o].value
                     /\ ob2[o].controller = ob[o].controller
    /\ o \in O => ob2[o].controller = None /\ ob2[o].mode \in {ob[o].mode, "reference"}

(* The controller of c loses the references in S, and not more of its      *)
(* dependencies than those of what is in D.                                *)
Prunes(k, k2, c, S, D) ==
  /\ \A x \in Object : x # c => k2[x] = k[x]
  /\ k2[c].owner = k[c].owner
  /\ DOMAIN k2[c].references = DOMAIN k[c].references \ S
  /\ \A a \in DOMAIN k2[c].references : k2[c].references[a] = k[c].references[a]
  /\ {d \in k[c].dependencies : d[1] \notin D} \subseteq k2[c].dependencies

(* A memory with more values, in which the old ones did not move.          *)
Extends(p, q) ==
  /\ q \in [Address -> Address \cup {"free", "top"}] /\ Forest(q)
  /\ \A a \in Address : p[a] # "free" => q[a] = p[a]

(* The tree of x has nothing in common with that of c.                     *)
Apart(p, ob, k, c, x) ==
  /\ k[x].owner \in Address /\ p[k[x].owner] = "top" /\ k[x].owner \notin Below(p, {k[c].owner})
  /\ x \notin AllObjects(k[c])
  /\ Below(p, {k[x].owner}) \cap Below(p, {k[c].owner}) = {}
  /\ ob[x].mode = "owner" /\ ob[x].value = k[x].owner /\ ob[x].controller = x

(* The object o keeps its controller, which is not that of c.              *)
Stays(p, ob, k, ob2, c, o) ==
  LET own == k[ob[o].controller] IN
  /\ ob2[o].controller = ob[o].controller /\ ob2[o].mode = ob[o].mode /\ ob2[o].value = ob[o].value
  /\ ob[o].controller \in Object /\ ob[o].controller # c
  /\ own.owner # None /\ ob[o].value \in Below(p, {own.owner})
  /\ \/ ob[o].mode = "owner" /\ ob[o].controller = o /\ own.owner = ob[o].value
     \/ /\ ob[o].mode = "reference" /\ ob[o].value \in DOMAIN own.references
        /\ own.references[ob[o].value] = o
  /\ ob[o].value \in Address /\ ob[o].value \notin Below(p, {k[c].owner})

(* The tree of v is moved into the value at |to|.                          *)
Moves(p, q, v, to) == q = [p EXCEPT ![v] = to]

(* The controller of c takes what that of d has, and d has nothing left.   *)
Takes(k, k2, c, d) ==
  /\ \A x \in Object \ {c, d} : k2[x] = k[x]
  /\ k2[d] = Empty /\ k2[c].owner = k[c].owner
  /\ DOMAIN k2[c].references = DOMAIN k[c].references \cup DOMAIN k[d].references
  /\ \A a \in DOMAIN k2[c].references :
       k2[c].references[a] = IF a \in DOMAIN k[c].references THEN k[c].references[a]
                                                              ELSE k[d].references[a]
  /\ k[c].dependencies \subseteq k2[c].dependencies

(* The controllers after TakeFrom.                                         *)
Handed(t, m, k) ==
  k = [controllers EXCEPT ![threads[t].controller] = m.own, ![threads[t].from] = m.from]

(* What the calls rely on.                                                 *)
Calls == (\A t \in Thread : CallKnown(t)) /\ DyingAlone

(* An object that is gone has no value.                                    *)
GoneAreDetached == \A o \in Object : objects[o].state = "gone" => objects[o].controller = None

(* The inductive invariant.                                                *)
IInv == TypeOK /\ Trees(parent, objects, controllers) /\ GoneAreDetached /\ Calls

(* The parts of TypeOK.                                                    *)
ObjectsTyped(ob) ==
  ob \in [Object -> ObjectState] /\ \A o \in Object : ob[o].value = None <=> ob[o].controller = None

(* The controllers have theirs.                                            *)
ControllersTyped(k) == DOMAIN k = Object /\ \A c \in Object : IsController(k[c])

(* The object o is replaced.                                               *)
Gains(ob, ob2, o, new) == \A x \in Object : ob2[x] = IF x = o THEN new ELSE ob[x]

-----------------------------------------------------------------------------
(* What can be reached is the least set that holds S and is closed.        *)
LEMMA ReachedLeast ==
  ASSUME NEW R, NEW S, NEW T \in SUBSET Address, S \subseteq T,
         \A d \in R : d[1] \in T => d[2] \in T
  PROVE  Reached(R, S) \subseteq T
BY DEF Reached

(* It is a set of addresses that has S and is closed under the pairs.      *)
LEMMA ReachedParts ==
  ASSUME NEW R, NEW S
  PROVE  /\ Reached(R, S) \subseteq Address
         /\ S \cap Address \subseteq Reached(R, S)
         /\ \A d \in R : d[1] \in Reached(R, S) /\ d[2] \in Address => d[2] \in Reached(R, S)
<1>1. Reached(R, S) \subseteq Address /\ S \cap Address \subseteq Reached(R, S)
  BY DEF Reached
<1>2. ASSUME NEW d \in R, d[1] \in Reached(R, S), d[2] \in Address
      PROVE  d[2] \in Reached(R, S)
  <2> SUFFICES ASSUME NEW T \in SUBSET Address, S \subseteq T, d[2] \notin T
               PROVE  \E e \in R : e[1] \in T /\ e[2] \notin T
    BY <1>2 DEF Reached
  <2>1. CASE d[1] \in T
    BY <2>1
  <2>2. CASE d[1] \notin T
    BY <1>2, <2>2 DEF Reached
  <2> QED BY <2>1, <2>2
<1> QED BY <1>1, <1>2

(* The same of what is below S: the least set with S and its children.     *)
LEMMA BelowLeast ==
  ASSUME NEW p, NEW S, NEW T \in SUBSET Address, S \subseteq T,
         \A a \in Address : p[a] \in T => a \in T
  PROVE  Below(p, S) \subseteq T
<1> DEFINE R == {<<p[a], a>> : a \in Address}
<1>1. \A d \in R : d[1] \in T => d[2] \in T
  OBVIOUS
<1>2. Below(p, S) = Reached(R, S)
  BY DEF Below
<1> HIDE DEF R
<1> QED BY <1>1, <1>2, ReachedLeast

LEMMA BelowParts ==
  ASSUME NEW p, NEW S
  PROVE  /\ Below(p, S) \subseteq Address
         /\ S \cap Address \subseteq Below(p, S)
         /\ \A a \in Address : p[a] \in Below(p, S) => a \in Below(p, S)
<1> DEFINE R == {<<p[a], a>> : a \in Address}
<1>1. \A a \in Address : \E d \in R : d[1] = p[a] /\ d[2] = a
  <2> TAKE a \in Address
  <2>1. <<p[a], a>> \in R
    OBVIOUS
  <2> QED BY <2>1
<1>2. Below(p, S) = Reached(R, S)
  BY DEF Below
<1> HIDE DEF R
<1> QED BY <1>1, <1>2, ReachedParts

(* What is below S and not in it is in a value that is below S.            *)
LEMMA BelowParent ==
  ASSUME NEW p, NEW S \in SUBSET Address, NEW a \in Below(p, S), a \notin S
  PROVE  p[a] \in Below(p, S)
<1> SUFFICES ASSUME p[a] \notin Below(p, S) PROVE FALSE
  OBVIOUS
<1> DEFINE T == Below(p, S) \ {a}
<1>1. T \in SUBSET Address /\ S \subseteq T
  BY BelowParts
<1>2. \A b \in Address : p[b] \in T => b \in T
  BY BelowParts
<1>3. Below(p, S) \subseteq T
  <2> HIDE DEF T
  <2> QED BY <1>1, <1>2, BelowLeast
<1> QED BY <1>3

LEMMA BelowMonotone ==
  ASSUME NEW p, NEW S \in SUBSET Address, NEW U \in SUBSET Address, S \subseteq Below(p, U)
  PROVE  Below(p, S) \subseteq Below(p, U)
BY BelowParts, BelowLeast

LEMMA BelowNothing ==
  ASSUME NEW p
  PROVE  Below(p, {}) = {}
<1>1. \A a \in Address : p[a] \in {} => a \in {}
  OBVIOUS
<1> QED BY <1>1, BelowLeast

(* Where one tree ends and the other begins.                               *)
LEMMA TopsApart ==
  ASSUME NEW p, NEW b \in Address, NEW c \in Address, p[b] = "top", p[c] = "top", b # c
  PROVE  Below(p, {b}) \cap Below(p, {c}) = {}
<1>0. "top" \notin Address
  BY NoneAssumption
<1>1. b \notin Below(p, {c})
  BY <1>0, BelowParent, BelowParts
<1> DEFINE T == Below(p, {b}) \ Below(p, {c})
<1>2. T \in SUBSET Address /\ {b} \subseteq T
  BY <1>1, BelowParts
<1>3. ASSUME NEW a \in Address, p[a] \in T PROVE a \in T
  <2>1. a \in Below(p, {b}) /\ a # c
    BY <1>0, <1>3, BelowParts
  <2>2. a \notin Below(p, {c})
    BY <1>3, <2>1, BelowParent
  <2> QED BY <2>1, <2>2
<1>4. Below(p, {b}) \subseteq T
  <2> HIDE DEF T
  <2> QED BY <1>2, <1>3, BelowLeast
<1> QED BY <1>4

-----------------------------------------------------------------------------
(* Forests.                                                                *)
LEMMA ForestParts ==
  ASSUME NEW p \in [Address -> Address \cup {"free", "top"}], Forest(p)
  PROVE  /\ \A a \in Address : p[a] # "free" /\ p[a] # "top" <=> p[a] \in Address
         /\ \A a \in Address, S \in SUBSET Address :
              a \in Below(p, S) /\ (\A s \in S : p[s] # "free") => p[a] # "free"
         /\ \A a \in Address : p[a] = "top" => p[a] \notin Address
         /\ \A a \in Address : p[a] = "free" => p[a] \notin Address
<1>1. "free" \notin Address /\ "top" \notin Address
  BY NoneAssumption
<1>2. ASSUME NEW a \in Address, NEW S \in SUBSET Address, a \in Below(p, S),
             \A s \in S : p[s] # "free"
      PROVE  p[a] # "free"
  BY <1>1, <1>2, BelowParent, BelowParts
<1> QED BY <1>1, <1>2

(* No value is inside of itself.                                           *)
LEMMA Acyclic ==
  ASSUME NEW p \in [Address -> Address \cup {"free", "top"}], Forest(p),
         NEW v \in Address, p[v] # "free"
  PROVE  v \notin Below(p, Children(p, v))
<1>1. "top" \notin Address
  BY NoneAssumption
<1> DEFINE T == {x \in Address : x \notin Below(p, Children(p, x))}
<1>2. \A x \in Address : Children(p, x) \in SUBSET Address
  BY DEF Children
<1>3. PICK b \in Address : p[b] = "top" /\ v \in Below(p, {b})
  BY DEF Forest
<1>4. b \in T
  BY <1>1, <1>2, <1>3, BelowParent, BelowParts DEF Children
<1>5. ASSUME NEW w \in Address, p[w] \in T PROVE w \in T
  <2> SUFFICES ASSUME w \in Below(p, Children(p, w)) PROVE FALSE
    BY DEF T
  <2> DEFINE u == p[w]
  <2>1. u \in Address /\ u \notin Below(p, Children(p, u)) /\ w \in Children(p, u)
    BY <1>5 DEF Children
  <2>2. CASE w \in Children(p, w)
    <3>1. p[w] = w
      BY <2>2 DEF Children
    <3> QED BY <2>1, <3>1
  <2>3. CASE w \notin Children(p, w)
    <3>1. u \in Below(p, Children(p, w))
      BY <1>2, <2>3, BelowParent
    <3>2. Children(p, w) \subseteq Below(p, Children(p, u))
      <4>1. w \in Below(p, Children(p, u))
        BY <1>2, <2>1, BelowParts
      <4> QED BY <4>1, BelowParts DEF Children
    <3>3. Below(p, Children(p, w)) \subseteq Below(p, Children(p, u))
      BY <1>2, <2>1, <3>2, BelowMonotone
    <3> QED BY <2>1, <3>1, <3>3
  <2> QED BY <2>2, <2>3
<1>6. Below(p, {b}) \subseteq T
  <2>1. T \in SUBSET Address /\ {b} \subseteq T
    BY <1>4
  <2> HIDE DEF T
  <2> QED BY <1>5, <2>1, BelowLeast
<1> QED BY <1>3, <1>6

LEMMA FreedParts ==
  ASSUME NEW p \in [Address -> Address \cup {"free", "top"}], NEW S \in SUBSET Address
  PROVE  /\ Freed(p, S) \in [Address -> Address \cup {"free", "top"}]
         /\ \A a \in Address : a \in Below(p, S) => Freed(p, S)[a] = "free"
         /\ \A a \in Address : a \notin Below(p, S) => Freed(p, S)[a] = p[a]
BY DEF Freed

(* What is left of a tree when the one below S is freed.                   *)
LEMMA FreedBelow ==
  ASSUME NEW p \in [Address -> Address \cup {"free", "top"}], Forest(p),
         NEW S \in SUBSET Address, NEW U \in SUBSET Address
  PROVE  /\ Below(p, U) \ Below(p, S) \subseteq Below(Freed(p, S), U)
         /\ \A a \in Address : a \notin Below(p, S) /\ a \in Below(Freed(p, S), U) => a \in Below(p, U)
<1> DEFINE q == Freed(p, S)
<1>1. "free" \notin Address
  BY NoneAssumption
<1>2. /\ \A a \in Address : a \in Below(p, S) => q[a] = "free"
      /\ \A a \in Address : a \notin Below(p, S) => q[a] = p[a]
  BY FreedParts
<1> HIDE DEF q
<1>3. Below(p, U) \subseteq Below(q, U) \cup Below(p, S)
  <2> DEFINE T == Below(q, U) \cup Below(p, S)
  <2>1. T \in SUBSET Address /\ U \subseteq T
    BY BelowParts
  <2>2. ASSUME NEW a \in Address, p[a] \in T PROVE a \in T
    BY <1>2, <2>2, BelowParts
  <2> HIDE DEF T
  <2>3. Below(p, U) \subseteq T
    BY <2>1, <2>2, BelowLeast
  <2> QED BY <2>3 DEF T
<1>4. Below(q, U) \subseteq Below(p, U)
  <2>1. ASSUME NEW a \in Address, q[a] \in Below(p, U) PROVE a \in Below(p, U)
    BY <1>1, <1>2, <2>1, BelowParts
  <2> QED BY <2>1, BelowParts, BelowLeast
<1> QED BY <1>3, <1>4 DEF q

LEMMA FreedIsForest ==
  ASSUME NEW p \in [Address -> Address \cup {"free", "top"}], Forest(p), NEW S \in SUBSET Address
  PROVE  Forest(Freed(p, S))
<1> DEFINE q == Freed(p, S)
<1>1. "free" \notin Address
  BY NoneAssumption
<1>2. /\ \A a \in Address : a \in Below(p, S) => q[a] = "free"
      /\ \A a \in Address : a \notin Below(p, S) => q[a] = p[a]
  BY FreedParts
<1>3. \A U \in SUBSET Address : Below(p, U) \ Below(p, S) \subseteq Below(q, U)
  BY FreedBelow
<1> HIDE DEF q
<1>4. ASSUME NEW a \in Address, q[a] \in Address PROVE q[q[a]] # "free"
  <2>1. a \notin Below(p, S) /\ q[a] = p[a]
    BY <1>1, <1>2, <1>4
  <2>2. p[a] \notin Below(p, S) /\ p[p[a]] # "free"
    BY <1>4, <2>1, BelowParts DEF Forest
  <2> QED BY <1>2, <1>4, <2>1, <2>2
<1>5. ASSUME NEW a \in Address, q[a] # "free"
      PROVE  \E b \in Address : q[b] = "top" /\ a \in Below(q, {b})
  <2>1. a \notin Below(p, S) /\ p[a] # "free"
    BY <1>2, <1>5
  <2>2. PICK b \in Address : p[b] = "top" /\ a \in Below(p, {b})
    BY <2>1 DEF Forest
  <2>3. b \notin Below(p, S)
    <3>1. ASSUME b \in Below(p, S) PROVE Below(p, {b}) \subseteq Below(p, S)
      BY <3>1, BelowMonotone
    <3> QED BY <2>1, <2>2, <3>1
  <2> QED BY <1>2, <1>3, <2>1, <2>2, <2>3
<1> QED BY <1>4, <1>5 DEF Forest, q

-----------------------------------------------------------------------------
(* What depends on each other, as the controller knows it.                 *)
LEMMA DependentsParts ==
  ASSUME NEW k, IsController(k), NEW v
  PROVE  /\ Dependents(k, v) \subseteq Address
         /\ \A d \in k.dependencies : d[1] = v \/ d[1] \in Dependents(k, v) => d[2] \in Dependents(k, v)
<1> DEFINE S == {d[2] : d \in {d \in k.dependencies : d[1] = v}}
<1>1. Dependents(k, v) = Reached(k.dependencies, S)
  BY DEF Dependents
<1>2. \A d \in k.dependencies : d[2] \in Address /\ (d[1] = v => d[2] \in S)
  BY DEF IsController
<1> HIDE DEF S
<1> QED BY <1>1, <1>2, ReachedParts

(* A value with an object is found by its dependencies on what is above.   *)
LEMMA DependentFound ==
  ASSUME NEW p \in [Address -> Address \cup {"free", "top"}], NEW x \in Address, NEW U \in SUBSET Address,
         NEW S, \A y \in Address : p[y] \in Address \cap S /\ x \in Below(p, {y}) => y \in S,
         U \subseteq S, x \in Below(p, U)
  PROVE  x \in S
<1> DEFINE T == {y \in Address : x \in Below(p, {y}) => y \in S}
<1>1. T \in SUBSET Address /\ U \subseteq T
  OBVIOUS
<1>2. ASSUME NEW y \in Address, p[y] \in T PROVE y \in T
  <2> SUFFICES ASSUME x \in Below(p, {y}) PROVE y \in S
    OBVIOUS
  <2>1. Below(p, {y}) \subseteq Below(p, {p[y]})
    BY <1>2, BelowParts, BelowMonotone
  <2>2. p[y] \in Address \cap S
    BY <1>2, <2>1
  <2> QED BY <2>2
<1>3. Below(p, U) \subseteq T
  <2> HIDE DEF T
  <2> QED BY <1>1, <1>2, BelowLeast
<1> QED BY <1>3, BelowParts

LEMMA FreedNothing ==
  ASSUME NEW p \in [Address -> Address \cup {"free", "top"}]
  PROVE  Freed(p, {}) = p
BY BelowNothing DEF Freed

(* Without() is a pruning.                                                 *)
LEMMA WithoutPrunes ==
  ASSUME NEW k, NEW c \in Object, DOMAIN k = Object, \A x \in Object : IsController(k[x]),
         NEW S, NEW D
  PROVE  Prunes(k, [k EXCEPT ![c] = Without(k[c], S, D)], c, S, D)
<1>1. DOMAIN k[c] = {"owner", "references", "dependencies"}
  BY DEF IsController
<1>2. /\ Without(k[c], S, D).owner = k[c].owner
      /\ Without(k[c], S, D).references = [a \in DOMAIN k[c].references \ S |-> k[c].references[a]]
      /\ Without(k[c], S, D).dependencies = {d \in k[c].dependencies : d[1] \notin D}
  BY <1>1 DEF Without
<1> DEFINE w == Without(k[c], S, D)
<1> HIDE DEF w
<1>3. [k EXCEPT ![c] = w][c] = w /\ \A x \in Object : x # c => [k EXCEPT ![c] = w][x] = k[x]
  OBVIOUS
<1> QED BY <1>2, <1>3 DEF Prunes, w

(* The values of R and what is below are freed, and one controller loses   *)
(* references: those it should, and more of its dependencies only where    *)
(* nobody needs them.                                                      *)
LEMMA PruneTrees ==
  ASSUME NEW p \in [Address -> Address \cup {"free", "top"}], NEW ob, NEW k, Trees(p, ob, k),
         Typed(ob, k),
         NEW c \in Object, NEW R \in SUBSET Address, NEW S, NEW D,
         \A a \in R : a \in Below(p, {k[c].owner}) /\ p[a] \in Address,
         R # {} => k[c].owner # None,
         \A o \in Object :
           /\ ob[o].controller = c /\ ob[o].mode = "reference"
           => /\ ob[o].value \in Below(p, R) => ob[o].value \in S
              /\ ob[o].value \notin S =>
                   \A y \in Address : y # k[c].owner /\ ob[o].value \in Below(p, {y}) => p[y] \notin D,
         NEW ob2, NEW O \in SUBSET Object, Loses(ob, ob2, O), ObjectsOf(k[c], S) \subseteq O,
         \A x \in O : k[x].owner = None,
         NEW k2, Prunes(k, k2, c, S, D)
  PROVE  Trees(Freed(p, R), ob2, k2)
<1>t. \A x \in Object : IsController(k[x]) /\ ob[x].controller \in Object \cup {None}
  BY DEF Typed
<1> USE <1>t
<1> DEFINE q == Freed(p, R)
<1>0. "top" \notin Address /\ "free" \notin Address
  BY NoneAssumption
<1>1. Forest(p) /\ Owned(p, ob, k) /\ InItsTree(p, ob, k) /\ DependsOnAll(p, ob, k) /\ OwnersNotReferred(ob, k)
  BY DEF Trees
<1>2. /\ \A a \in Address : a \in Below(p, R) => q[a] = "free"
      /\ \A a \in Address : a \notin Below(p, R) => q[a] = p[a]
  BY FreedParts
<1>3. \A U \in SUBSET Address : /\ Below(p, U) \ Below(p, R) \subseteq Below(q, U)
        /\ \A a \in Address : a \notin Below(p, R) /\ a \in Below(q, U) => a \in Below(p, U)
  BY <1>1, FreedBelow
<1>4. Forest(q)
  BY <1>1, FreedIsForest
<1> HIDE DEF q
<1>5. \A a \in Address : p[a] = "top" => a \notin Below(p, R)
  BY <1>0, BelowParent, BelowParts
<1>6. \A x \in Object : k2[x].owner = k[x].owner /\ IsController(k[x])
  BY DEF Prunes
<1>7. Owned(q, ob2, k2)
  <2>1. ASSUME NEW x \in Object, k2[x].owner # None
        PROVE  /\ q[k2[x].owner] = "top" /\ ob2[x].mode = "owner"
               /\ ob2[x].value = k2[x].owner /\ ob2[x].controller = x
    <3>1. k[x].owner \in Address /\ x \notin O /\ p[k[x].owner] = "top"
      BY <1>1, <1>6, <2>1 DEF Owned, IsController
    <3>2. ob[x].mode = "owner" /\ ob[x].value = k[x].owner /\ ob[x].controller = x
      BY <1>1, <1>6, <2>1 DEF Owned
    <3> QED BY <1>2, <1>5, <1>6, <3>1, <3>2 DEF Loses
  <2>2. \A a \in Address : q[a] = "top" => \E x \in Object : k2[x].owner = a
    BY <1>1, <1>2, <1>6 DEF Owned
  <2>3. \A x, y \in Object : k2[x].owner # None /\ k2[x].owner = k2[y].owner => x = y
    BY <1>1, <1>6 DEF Owned
  <2> QED BY <2>1, <2>2, <2>3 DEF Owned
(* An object that keeps its controller is none of those that were found,   *)
(* and its value is still there.                                           *)
<1>8. ASSUME NEW o \in Object, ob2[o].controller # None
      PROVE  /\ o \notin O /\ ob2[o].controller = ob[o].controller /\ ob2[o].mode = ob[o].mode
             /\ ob2[o].value = ob[o].value
             /\ ob[o].controller = c /\ ob[o].mode = "reference" => ob[o].value \notin S
             /\ ob[o].value \in Address /\ ob[o].value \notin Below(p, R)
  <2>1. /\ o \notin O /\ ob2[o].controller = ob[o].controller /\ ob2[o].mode = ob[o].mode
        /\ ob2[o].value = ob[o].value
    BY <1>8 DEF Loses
  <2>2. ASSUME ob[o].controller = c, ob[o].mode = "reference" PROVE ob[o].value \notin S
    <3>1. ob[o].value \in DOMAIN k[c].references /\ k[c].references[ob[o].value] = o
      BY <1>1, <1>8, <2>1, <2>2 DEF InItsTree
    <3> QED BY <2>1, <3>1 DEF ObjectsOf
  <2> DEFINE z == ob[o].value
             e == ob[o].controller
  <2>3. k[e].owner # None /\ z \in Below(p, {k[e].owner})
    BY <1>1, <1>8, <2>1 DEF InItsTree
  <2>4. z \in Address
    BY <2>3, BelowParts
  <2>5. ASSUME z \in Below(p, R) PROVE FALSE
    <3>1. R # {}
      BY <2>5, BelowNothing
    <3>2. k[c].owner \in Address /\ p[k[c].owner] = "top"
      BY <1>1, <1>6, <3>1 DEF Owned, IsController
    <3>3. z \in Below(p, {k[c].owner})
      <4>1. R \subseteq Below(p, {k[c].owner}) /\ {k[c].owner} \in SUBSET Address
        BY <3>2
      <4>2. Below(p, R) \subseteq Below(p, {k[c].owner})
        BY <4>1, BelowMonotone
      <4> QED BY <2>5, <4>2
    <3>4. e \in Object
      BY <1>8, <2>1
    <3>5. k[e].owner \in Address /\ p[k[e].owner] = "top"
      BY <1>1, <1>6, <2>3, <3>4 DEF Owned, IsController
    <3>6. k[e].owner = k[c].owner
      BY <2>3, <3>2, <3>3, <3>5, TopsApart
    <3>7. e = c
      BY <1>1, <2>3, <3>4, <3>6 DEF Owned
    <3>8. CASE ob[o].mode = "reference"
      BY <2>2, <2>5, <3>7, <3>8
    <3>9. CASE ob[o].mode = "owner"
      BY <1>1, <1>5, <1>8, <2>1, <2>4, <2>5, <3>5, <3>9 DEF InItsTree
    <3> QED BY <1>1, <1>8, <2>1, <3>8, <3>9 DEF InItsTree
  <2> QED BY <2>1, <2>2, <2>4, <2>5
<1>9. InItsTree(q, ob2, k2)
  <2> SUFFICES ASSUME NEW o \in Object, ob2[o].controller # None
               PROVE  LET own == k2[ob2[o].controller] IN
                      /\ own.owner # None /\ ob2[o].value \in Below(q, {own.owner})
                      /\ \/ ob2[o].mode = "owner" /\ ob2[o].controller = o /\ own.owner = ob2[o].value
                         \/ /\ ob2[o].mode = "reference" /\ ob2[o].value \in DOMAIN own.references
                            /\ own.references[ob2[o].value] = o
    BY DEF InItsTree
  <2> DEFINE e == ob[o].controller
             z == ob[o].value
  <2>1. /\ ob2[o].controller = e /\ ob2[o].mode = ob[o].mode /\ ob2[o].value = z /\ e \in Object
        /\ e = c /\ ob[o].mode = "reference" => z \notin S
        /\ z \in Address /\ z \notin Below(p, R)
    BY <1>8
  <2>2. /\ k[e].owner # None /\ z \in Below(p, {k[e].owner})
        /\ \/ ob[o].mode = "owner" /\ e = o /\ k[e].owner = z
           \/ /\ ob[o].mode = "reference" /\ z \in DOMAIN k[e].references
              /\ k[e].references[z] = o
    BY <1>1, <2>1 DEF InItsTree
  <2> HIDE DEF e, z
  <2>3. k2[e].owner = k[e].owner /\ k[e].owner \in Address
    BY <1>6, <2>1, <2>2 DEF IsController
  <2>4. z \in Below(q, {k2[e].owner})
    BY <1>3, <2>1, <2>2, <2>3
  <2>5. ASSUME ob[o].mode = "reference"
        PROVE  z \in DOMAIN k2[e].references /\ k2[e].references[z] = o
    <3>1. CASE e = c
      BY <2>1, <2>2, <2>5, <3>1 DEF Prunes
    <3>2. CASE e # c
      BY <2>1, <2>2, <2>5, <3>2 DEF Prunes
    <3> QED BY <3>1, <3>2
  <2> QED BY <2>1, <2>2, <2>3, <2>4, <2>5
<1>10. DependsOnAll(q, ob2, k2)
  <2> SUFFICES ASSUME NEW o \in Object, ob2[o].controller # None, ob2[o].mode = "reference",
                      NEW a \in Address, a # k2[ob2[o].controller].owner,
                      ob2[o].value \in Below(q, {a})
               PROVE  <<q[a], a>> \in k2[ob2[o].controller].dependencies
    BY DEF DependsOnAll
  <2> DEFINE e == ob[o].controller
             z == ob[o].value
  <2>1. /\ ob2[o].controller = e /\ ob[o].mode = "reference" /\ ob2[o].value = z /\ e \in Object
        /\ e = c => z \notin S
        /\ z \in Address /\ z \notin Below(p, R)
    BY <1>8
  <2>2. z \in Below(p, {a}) /\ a # k[e].owner
    BY <1>3, <1>6, <2>1
  <2>3. <<p[a], a>> \in k[e].dependencies
    BY <1>1, <2>1, <2>2 DEF DependsOnAll
  <2>4. a \notin Below(p, R)
    <3>1. a \in Below(p, R) => Below(p, {a}) \subseteq Below(p, R)
      BY BelowMonotone
    <3> QED BY <2>1, <2>2, <3>1
  <2>5. q[a] = p[a]
    BY <1>2, <2>4
  <2>6. e = c => p[a] \notin D
    BY <2>1, <2>2
  <2> HIDE DEF e, z
  <2>7. CASE e = c
    <3>1. <<p[a], a>> \in {d \in k[c].dependencies : d[1] \notin D}
      BY <2>3, <2>6, <2>7
    <3> QED BY <2>1, <2>5, <2>7, <3>1 DEF Prunes
  <2>8. CASE e # c
    BY <2>1, <2>3, <2>5, <2>8 DEF Prunes
  <2> QED BY <2>7, <2>8
<1>11. OwnersNotReferred(ob2, k2)
  <2> SUFFICES ASSUME NEW x \in Object, NEW o \in AllObjects(k2[x]) PROVE ob2[o].mode = "reference"
    BY DEF OwnersNotReferred
  <2>1. PICK a \in Address \cap DOMAIN k2[x].references : o = k2[x].references[a]
    BY DEF AllObjects, ObjectsOf
  <2>2. a \in DOMAIN k[x].references /\ o = k[x].references[a]
    BY <2>1 DEF Prunes
  <2>3. o \in AllObjects(k[x]) /\ o \in Object
    BY <1>6, <2>1, <2>2 DEF AllObjects, ObjectsOf, IsController
  <2>4. ob[o].mode = "reference"
    BY <1>1, <2>3 DEF OwnersNotReferred
  <2> QED BY <2>3, <2>4 DEF Loses
<1> QED BY <1>4, <1>7, <1>9, <1>10, <1>11 DEF Trees, q

(* An object that a controller refers to owns no tree.                     *)
LEMMA OwnersAreOwners ==
  ASSUME NEW p, NEW ob, NEW k, Trees(p, ob, k), NEW c \in Object, NEW S, NEW x \in ObjectsOf(k[c], S),
         IsController(k[c])
  PROVE  x \in Object /\ k[x].owner = None
<1>1. x \in AllObjects(k[c]) /\ x \in Object
  BY DEF AllObjects, ObjectsOf, IsController
<1>2. ob[x].mode = "reference"
  BY <1>1 DEF Trees, OwnersNotReferred
<1> QED BY <1>1, <1>2 DEF Trees, Owned

(* RemoveInternal, of values inside the tree of a controller.              *)
LEMMA RemoveTrees ==
  ASSUME NEW p \in [Address -> Address \cup {"free", "top"}], NEW ob, NEW k, Trees(p, ob, k),
         Typed(ob, k),
         NEW c \in Object, k[c].owner # None, NEW R \in SUBSET Address,
         \A a \in R : a \in Below(p, {k[c].owner}) /\ p[a] \in Address,
         NEW ob2, NEW S, S = RemovedWith(k[c], R), Loses(ob, ob2, ObjectsOf(k[c], S)),
         NEW k2, Prunes(k, k2, c, S, S)
  PROVE  Trees(Freed(p, R), ob2, k2)
<1>t. \A x \in Object : IsController(k[x]) /\ ob[x].controller \in Object \cup {None}
  BY DEF Typed
<1> USE <1>t
<1> DEFINE O == ObjectsOf(k[c], S)
<1>1. O \in SUBSET Object /\ \A x \in O : k[x].owner = None
  BY OwnersAreOwners
<1>2. k[c].owner \in Address /\ p[k[c].owner] = "top"
  BY DEF IsController, Trees, Owned
<1>3. R \subseteq S /\ \A d \in k[c].dependencies : d[1] \in S => d[2] \in S
  <2>1. \A a \in R : \A d \in k[c].dependencies :
          d[1] = a \/ d[1] \in Dependents(k[c], a) => d[2] \in Dependents(k[c], a)
    BY DependentsParts
  <2>2. \A x : x \in S <=> x \in R \/ \E a \in R : x \in Dependents(k[c], a)
    BY DEF RemovedWith
  <2> QED BY <2>1, <2>2
<1>4. S \subseteq Address
  BY DependentsParts DEF RemovedWith
<1>5. ASSUME NEW o \in Object, ob[o].controller = c, ob[o].mode = "reference"
      PROVE  /\ ob[o].value \in Below(p, R) => ob[o].value \in S
             /\ ob[o].value \notin S =>
                  \A y \in Address : y # k[c].owner /\ ob[o].value \in Below(p, {y}) => p[y] \notin S
  <2> DEFINE z == ob[o].value
  <2>0. c # None
    BY NoneAssumption
  <2>1. z \in Address
    BY <1>2, <1>5, <2>0, BelowParts DEF Trees, InItsTree
  <2>2. \A y \in Address : y # k[c].owner /\ z \in Below(p, {y}) => <<p[y], y>> \in k[c].dependencies
    BY <1>5, <2>0 DEF Trees, DependsOnAll
  <2> HIDE DEF z
  <2>5. \A d \in k[c].dependencies : d[1] \in S => d[2] \in S
    BY <1>3
  <2>6. ASSUME NEW U \in SUBSET Address, U \subseteq S, z \in Below(p, U) PROVE z \in S
    <3>1. \A y \in Address : p[y] \in Address \cap S /\ z \in Below(p, {y}) => y \in S
      <4> SUFFICES ASSUME NEW y \in Address, p[y] \in Address \cap S, z \in Below(p, {y})
                   PROVE  y \in S
        OBVIOUS
      <4>1. y # k[c].owner
        BY <1>2, NoneAssumption
      <4>2. <<p[y], y>> \in k[c].dependencies
        BY <2>2, <4>1
      <4> QED BY <2>5, <4>2
    <3> QED BY <2>1, <2>6, <3>1, DependentFound
  <2>3. ASSUME z \in Below(p, R) PROVE z \in S
    BY <1>3, <2>3, <2>6
  <2>4. ASSUME z \notin S, NEW y \in Address, y # k[c].owner, z \in Below(p, {y}), p[y] \in S
        PROVE  FALSE
    <3>1. y \in S
      <4>1. <<p[y], y>> \in k[c].dependencies
        BY <2>2, <2>4
      <4> QED BY <1>3, <2>4, <4>1
    <3>2. {y} \subseteq S /\ {y} \in SUBSET Address
      BY <3>1
    <3> QED BY <2>4, <2>6, <3>2
  <2> QED BY <2>3, <2>4 DEF z
<1> HIDE DEF O
<1>6. Loses(ob, ob2, O) /\ ObjectsOf(k[c], S) \subseteq O
  BY DEF O
<1> QED BY <1>1, <1>5, <1>6, PruneTrees

(* Clear.                                                                  *)
LEMMA ClearTrees ==
  ASSUME NEW p \in [Address -> Address \cup {"free", "top"}], NEW ob, NEW k, Trees(p, ob, k),
         Typed(ob, k),
         NEW c \in Object, k[c].owner # None, NEW v \in Below(p, {k[c].owner}),
         NEW ob2, NEW S, S = Dependents(k[c], v), Loses(ob, ob2, ObjectsOf(k[c], S)),
         NEW k2, Prunes(k, k2, c, S, S \cup {v})
  PROVE  Trees(Freed(p, Children(p, v)), ob2, k2)
<1>t. \A x \in Object : IsController(k[x]) /\ ob[x].controller \in Object \cup {None}
  BY DEF Typed
<1> USE <1>t
<1> DEFINE O == ObjectsOf(k[c], S)
           R == Children(p, v)
<1>0. v \in Address
  BY BelowParts
<1>1. O \in SUBSET Object /\ \A x \in O : k[x].owner = None
  BY OwnersAreOwners
<1>2. k[c].owner \in Address /\ p[k[c].owner] = "top"
  BY DEF IsController, Trees, Owned
<1>3. /\ \A d \in k[c].dependencies : d[1] \in S \cup {v} => d[2] \in S
      /\ S \subseteq Address
  BY DependentsParts
<1>4. R \in SUBSET Address /\ \A a \in R : a \in Below(p, {k[c].owner}) /\ p[a] \in Address
  BY <1>0, BelowParts DEF Children
<1>5. v \notin Below(p, R) /\ R \subseteq Below(p, {v})
  <2>1. p[v] # "free"
    <3>1. \A s \in {k[c].owner} : p[s] # "free"
      BY <1>2
    <3>2. {k[c].owner} \in SUBSET Address
      BY <1>2
    <3> QED BY <1>0, <3>1, <3>2, ForestParts DEF Trees
  <2>2. v \notin Below(p, R)
    BY <1>0, <2>1, Acyclic DEF Trees
  <2> QED BY <1>0, <2>2, BelowParts DEF Children
<1>6. Below(p, R) \subseteq Below(p, {v})
  BY <1>0, <1>4, <1>5, BelowMonotone
<1> HIDE DEF R
<1>7. ASSUME NEW o \in Object, ob[o].controller = c, ob[o].mode = "reference"
      PROVE  /\ ob[o].value \in Below(p, R) => ob[o].value \in S
             /\ ob[o].value \notin S =>
                  \A y \in Address : y # k[c].owner /\ ob[o].value \in Below(p, {y}) => p[y] \notin S \cup {v}
  <2> DEFINE z == ob[o].value
  <2>0. c # None
    BY NoneAssumption
  <2>1. z \in Address
    BY <1>2, <1>7, <2>0, BelowParts DEF Trees, InItsTree
  <2>2. \A y \in Address : y # k[c].owner /\ z \in Below(p, {y}) => <<p[y], y>> \in k[c].dependencies
    BY <1>7, <2>0 DEF Trees, DependsOnAll
  <2> HIDE DEF z
  <2>5. ASSUME NEW y \in Address, p[y] \in Address \cap (S \cup {v}), z \in Below(p, {y})
        PROVE  y \in S
    <3>1. y # k[c].owner
      BY <1>2, <2>5, NoneAssumption
    <3>2. <<p[y], y>> \in k[c].dependencies
      BY <2>2, <2>5, <3>1
    <3> QED BY <1>3, <2>5, <3>2
  <2>3. ASSUME z \in Below(p, R) PROVE z \in S
    <3>1. z \in Below(p, {v}) /\ z # v
      BY <1>5, <1>6, <2>3
    <3>2. /\ {v} \in SUBSET Address /\ {v} \subseteq S \cup {v}
          /\ \A d \in k[c].dependencies : d[1] \in S \cup {v} => d[2] \in S \cup {v}
      BY <1>0, <1>3
    <3>3. z \in S \cup {v}
      <4> DEFINE V == S \cup {v}
      <4>1. {v} \in SUBSET Address /\ {v} \subseteq V
        BY <3>2
      <4>2. \A y \in Address : p[y] \in Address \cap V /\ z \in Below(p, {y}) => y \in V
        BY <2>5
      <4> HIDE DEF V
      <4>3. z \in V
        BY <2>1, <3>1, <4>1, <4>2, DependentFound
      <4> QED BY <4>3 DEF V
    <3> QED BY <3>1, <3>3
  <2>4. ASSUME z \notin S, NEW y \in Address, y # k[c].owner, z \in Below(p, {y}), p[y] \in S \cup {v}
        PROVE  FALSE
    <3>1. p[y] \in Address
      BY <1>0, <1>3, <2>4
    <3>2. y \in S
      BY <2>4, <2>5, <3>1
    <3>3. {y} \subseteq S /\ {y} \in SUBSET Address
      BY <3>2
    <3>4. z \in S
      BY <2>1, <2>4, <2>5, <3>3, DependentFound
    <3> QED BY <2>4, <3>4
  <2> QED BY <2>3, <2>4 DEF z
<1> HIDE DEF O
<1>8. Loses(ob, ob2, O) /\ ObjectsOf(k[c], S) \subseteq O
  BY DEF O
<1>9. Trees(Freed(p, R), ob2, k2)
  BY <1>1, <1>4, <1>7, <1>8, PruneTrees
<1> QED BY <1>9 DEF R

(* Objects that own nothing are detached, or gone.                         *)
LEMMA LoseTrees ==
  ASSUME NEW p \in [Address -> Address \cup {"free", "top"}], NEW ob, NEW k, Trees(p, ob, k),
         Typed(ob, k),
         NEW ob2, NEW O \in SUBSET Object, Loses(ob, ob2, O), \A x \in O : k[x].owner = None
  PROVE  Trees(p, ob2, k)
<1>t. \A x \in Object : IsController(k[x]) /\ ob[x].controller \in Object \cup {None}
  BY DEF Typed
<1> USE <1>t
<1>1. Freed(p, {}) = p
  BY FreedNothing
<1>2. CASE Object = {}
  BY <1>2 DEF Trees, Owned, InItsTree, DependsOnAll, OwnersNotReferred
<1>3. ASSUME NEW c \in Object PROVE Trees(p, ob2, k)
  <2>1. Prunes(k, k, c, {}, {})
    BY DEF Prunes
  <2>2. ObjectsOf(k[c], {}) \subseteq O
    BY DEF ObjectsOf
  <2> DEFINE R == {}
  <2>3. R \in SUBSET Address /\ R = {}
    OBVIOUS
  <2>4. /\ \A a \in R : a \in Below(p, {k[c].owner}) /\ p[a] \in Address
        /\ \A o \in Object :
              /\ ob[o].controller = c /\ ob[o].mode = "reference"
              => /\ ob[o].value \in Below(p, R) => ob[o].value \in R
                 /\ ob[o].value \notin R =>
                      \A y \in Address : y # k[c].owner /\ ob[o].value \in Below(p, {y}) => p[y] \notin R
    BY BelowNothing
  <2>5. Prunes(k, k, c, R, R) /\ ObjectsOf(k[c], R) \subseteq O
    BY <2>1, <2>2
  <2> HIDE DEF R
  <2>6. Trees(Freed(p, R), ob2, k)
    BY <2>3, <2>4, <2>5, PruneTrees
  <2> QED BY <1>1, <2>3, <2>6
<1> QED BY <1>2, <1>3

(* The trees of two controllers have nothing in common.                    *)
LEMMA OthersApart ==
  ASSUME NEW p \in [Address -> Address \cup {"free", "top"}], NEW ob, NEW k, Trees(p, ob, k),
         Typed(ob, k),
         NEW c \in Object, k[c].owner # None, NEW x \in Object, x # c, k[x].owner # None
  PROVE  Apart(p, ob, k, c, x)
<1>t. \A y \in Object : IsController(k[y]) /\ ob[y].controller \in Object \cup {None}
  BY DEF Typed
<1> USE <1>t
<1>1. /\ k[x].owner \in Address /\ p[k[x].owner] = "top" /\ k[x].owner # k[c].owner
      /\ k[c].owner \in Address /\ p[k[c].owner] = "top"
      /\ ob[x].mode = "owner" /\ ob[x].value = k[x].owner /\ ob[x].controller = x
  BY DEF Trees, Owned, IsController
<1>2. Below(p, {k[x].owner}) \cap Below(p, {k[c].owner}) = {}
  BY <1>1, TopsApart
<1>3. k[x].owner \in Below(p, {k[x].owner})
  BY <1>1, BelowParts
<1>4. x \notin AllObjects(k[c])
  BY <1>1 DEF Trees, OwnersNotReferred
<1> QED BY <1>1, <1>2, <1>3, <1>4 DEF Apart

(* When all objects of a tree are detached, what is still attached belongs *)
(* to another one.                                                         *)
LEMMA StillAttached ==
  ASSUME NEW p \in [Address -> Address \cup {"free", "top"}], NEW ob, NEW k, Trees(p, ob, k),
         Typed(ob, k),
         NEW c \in Object, k[c].owner # None,
         NEW ob2, Loses(ob, ob2, AllObjects(k[c]) \cup {c}),
         NEW o \in Object, ob2[o].controller # None
  PROVE  Stays(p, ob, k, ob2, c, o)
<1>t. \A x \in Object : IsController(k[x]) /\ ob[x].controller \in Object \cup {None}
  BY DEF Typed
<1> USE <1>t
<1> DEFINE O == AllObjects(k[c]) \cup {c}
           e == ob[o].controller
           z == ob[o].value
<1>1. o \notin O /\ ob2[o].controller = e /\ ob2[o].mode = ob[o].mode /\ ob2[o].value = z
  BY DEF Loses
<1>2. e \in Object /\ e # None
  BY <1>1
<1>3. /\ k[e].owner # None /\ z \in Below(p, {k[e].owner})
      /\ \/ ob[o].mode = "owner" /\ e = o /\ k[e].owner = z
         \/ /\ ob[o].mode = "reference" /\ z \in DOMAIN k[e].references
            /\ k[e].references[z] = o
  BY <1>2 DEF Trees, InItsTree
<1>4. e # c
  BY <1>1, <1>3 DEF AllObjects, ObjectsOf, IsController
<1>5. Apart(p, ob, k, c, e)
  BY <1>2, <1>3, <1>4, OthersApart
<1> HIDE DEF e, z
<1>6. z \in Address /\ z \notin Below(p, {k[c].owner})
  <2>1. z \in Address
    BY <1>3, BelowParts
  <2> QED BY <1>3, <1>5, <2>1 DEF Apart
<1> QED BY <1>1, <1>2, <1>3, <1>4, <1>6 DEF e, z, Stays

(* Remove(owner) in the destructor of an owner.                            *)
LEMMA DropTrees ==
  ASSUME NEW p \in [Address -> Address \cup {"free", "top"}], NEW ob, NEW k, Trees(p, ob, k),
         Typed(ob, k),
         NEW c \in Object, k[c].owner # None,
         NEW ob2, Loses(ob, ob2, AllObjects(k[c]) \cup {c}),
         NEW k2, \A x \in Object : k2[x] = IF x = c THEN Empty ELSE k[x]
  PROVE  Trees(Freed(p, {k[c].owner}), ob2, k2)
<1>t. \A x \in Object : IsController(k[x]) /\ ob[x].controller \in Object \cup {None}
  BY DEF Typed
<1> USE <1>t
<1> DEFINE v == k[c].owner
           R == {v}
           q == Freed(p, R)
           O == AllObjects(k[c]) \cup {c}
<1>0. "top" \notin Address /\ "free" \notin Address
  BY NoneAssumption
<1>1. Forest(p) /\ Owned(p, ob, k) /\ InItsTree(p, ob, k) /\ DependsOnAll(p, ob, k) /\ OwnersNotReferred(ob, k)
  BY DEF Trees
<1>2. v \in Address /\ p[v] = "top" /\ R \in SUBSET Address
  BY <1>1 DEF Owned, IsController
<1>3. Empty.owner = None /\ DOMAIN Empty.references = {}
  BY DEF Empty, NoReferences
<1> HIDE DEF R, v
<1>4. /\ \A a \in Address : a \in Below(p, R) => q[a] = "free"
      /\ \A a \in Address : a \notin Below(p, R) => q[a] = p[a]
  BY <1>2, FreedParts
<1>5. \A U \in SUBSET Address : /\ Below(p, U) \ Below(p, R) \subseteq Below(q, U)
        /\ \A a \in Address : a \notin Below(p, R) /\ a \in Below(q, U) => a \in Below(p, U)
  BY <1>1, <1>2, FreedBelow
<1>6. Forest(q)
  BY <1>1, <1>2, FreedIsForest
<1> HIDE DEF q
<1>7. v \in Below(p, R)
  BY <1>2, BelowParts DEF R
<1>8. ASSUME NEW x \in Object, x # c, k[x].owner # None
      PROVE  /\ k[x].owner \in Address /\ p[k[x].owner] = "top" /\ k[x].owner \notin Below(p, R) /\ x \notin O
             /\ Below(p, {k[x].owner}) \cap Below(p, R) = {}
             /\ ob[x].mode = "owner" /\ ob[x].value = k[x].owner /\ ob[x].controller = x
  <2>1. Apart(p, ob, k, c, x)
    BY <1>8, OthersApart
  <2> QED BY <1>8, <2>1 DEF R, v, Apart
<1>9. Owned(q, ob2, k2)
  <2>1. ASSUME NEW x \in Object, k2[x].owner # None
        PROVE  /\ q[k2[x].owner] = "top" /\ ob2[x].mode = "owner"
               /\ ob2[x].value = k2[x].owner /\ ob2[x].controller = x
    <3>1. x # c /\ k2[x] = k[x]
      BY <1>3, <2>1
    <3>2. /\ k[x].owner \in Address /\ p[k[x].owner] = "top" /\ k[x].owner \notin Below(p, R)
          /\ x \notin O /\ ob[x].mode = "owner" /\ ob[x].value = k[x].owner /\ ob[x].controller = x
      BY <1>8, <2>1, <3>1
    <3>3. q[k[x].owner] = "top"
      BY <1>4, <3>2
    <3> QED BY <3>1, <3>2, <3>3 DEF Loses
  <2>2. ASSUME NEW a \in Address, q[a] = "top" PROVE \E x \in Object : k2[x].owner = a
    <3>1. a \notin Below(p, R) /\ p[a] = "top" /\ a # v
      BY <1>4, <1>7, <2>2
    <3>2. PICK x \in Object : k[x].owner = a
      BY <1>1, <3>1 DEF Owned
    <3>3. x # c
      BY <3>1, <3>2 DEF v
    <3> QED BY <3>2, <3>3
  <2>3. \A x, y \in Object : k2[x].owner # None /\ k2[x].owner = k2[y].owner => x = y
    BY <1>1, <1>3 DEF Owned
  <2> QED BY <2>1, <2>2, <2>3 DEF Owned
(* What is still attached belongs to another tree.                         *)
<1>10. ASSUME NEW o \in Object, ob2[o].controller # None
       PROVE  /\ ob2[o].controller = ob[o].controller /\ ob2[o].mode = ob[o].mode
              /\ ob2[o].value = ob[o].value
              /\ ob[o].controller \in Object /\ ob[o].controller # c
              /\ ob[o].value \in Address /\ ob[o].value \notin Below(p, R)
  <2>1. Stays(p, ob, k, ob2, c, o)
    BY <1>10, StillAttached
  <2> QED BY <2>1 DEF R, v, Stays
<1> HIDE DEF O
<1>11. InItsTree(q, ob2, k2)
  <2> SUFFICES ASSUME NEW o \in Object, ob2[o].controller # None
               PROVE  LET own == k2[ob2[o].controller] IN
                      /\ own.owner # None /\ ob2[o].value \in Below(q, {own.owner})
                      /\ \/ ob2[o].mode = "owner" /\ ob2[o].controller = o /\ own.owner = ob2[o].value
                         \/ /\ ob2[o].mode = "reference" /\ ob2[o].value \in DOMAIN own.references
                            /\ own.references[ob2[o].value] = o
    BY DEF InItsTree
  <2> DEFINE e == ob[o].controller
             z == ob[o].value
  <2>1. /\ ob2[o].controller = e /\ ob2[o].mode = ob[o].mode /\ ob2[o].value = z
        /\ e \in Object /\ e # c /\ z \in Address /\ z \notin Below(p, R) /\ k2[e] = k[e]
    BY <1>10
  <2>2. /\ k[e].owner # None /\ z \in Below(p, {k[e].owner})
        /\ \/ ob[o].mode = "owner" /\ e = o /\ k[e].owner = z
           \/ /\ ob[o].mode = "reference" /\ z \in DOMAIN k[e].references
              /\ k[e].references[z] = o
    BY <1>1, <2>1 DEF InItsTree
  <2> HIDE DEF e, z
  <2>3. z \in Below(q, {k[e].owner})
    <3>1. {k[e].owner} \in SUBSET Address
      BY <2>1, <2>2 DEF IsController
    <3>2. z \in Below(p, {k[e].owner}) \ Below(p, R)
      BY <2>1, <2>2
    <3> QED BY <1>5, <3>1, <3>2
  <2> QED BY <2>1, <2>2, <2>3
<1>12. DependsOnAll(q, ob2, k2)
  <2> SUFFICES ASSUME NEW o \in Object, ob2[o].controller # None, ob2[o].mode = "reference",
                      NEW a \in Address, a # k2[ob2[o].controller].owner,
                      ob2[o].value \in Below(q, {a})
               PROVE  <<q[a], a>> \in k2[ob2[o].controller].dependencies
    BY DEF DependsOnAll
  <2> DEFINE e == ob[o].controller
             z == ob[o].value
  <2>1. /\ ob2[o].controller = e /\ ob[o].mode = "reference" /\ ob2[o].value = z
        /\ e \in Object /\ e # c /\ z \in Address /\ z \notin Below(p, R) /\ k2[e] = k[e]
    BY <1>10
  <2>2. z \in Below(p, {a}) /\ a # k[e].owner
    BY <1>5, <2>1
  <2>3. <<p[a], a>> \in k[e].dependencies
    BY <1>1, <2>1, <2>2 DEF DependsOnAll
  <2>4. a \notin Below(p, R)
    <3>1. a \in Below(p, R) => Below(p, {a}) \subseteq Below(p, R)
      BY <1>2, BelowMonotone
    <3> QED BY <2>1, <2>2, <3>1
  <2> QED BY <1>4, <2>1, <2>3, <2>4
<1>13. OwnersNotReferred(ob2, k2)
  <2> SUFFICES ASSUME NEW x \in Object, NEW o \in AllObjects(k2[x]) PROVE ob2[o].mode = "reference"
    BY DEF OwnersNotReferred
  <2>1. x # c
    BY <1>3 DEF AllObjects, ObjectsOf
  <2>2. o \in AllObjects(k[x]) /\ o \in Object
    BY <2>1 DEF AllObjects, ObjectsOf, IsController
  <2>3. ob[o].mode = "reference"
    BY <1>1, <2>2 DEF OwnersNotReferred
  <2> QED BY <2>2, <2>3 DEF Loses
<1>14. Trees(q, ob2, k2)
  BY <1>6, <1>9, <1>11, <1>12, <1>13 DEF Trees
<1> QED BY <1>14 DEF q, R, v

-----------------------------------------------------------------------------
(* New values.                                                             *)
LEMMA ExtendsBelow ==
  ASSUME NEW p \in [Address -> Address \cup {"free", "top"}], Forest(p), NEW q, Extends(p, q),
         NEW U \in SUBSET Address
  PROVE  /\ Below(p, U) \subseteq Below(q, U)
         /\ \A a \in Address : p[a] # "free" /\ a \in Below(q, U) => a \in Below(p, U)
<1>0. "top" \notin Address /\ "free" \notin Address
  BY NoneAssumption
<1>1. Below(p, U) \subseteq Below(q, U)
  <2>1. \A a \in Address : p[a] \in Below(q, U) => a \in Below(q, U)
    BY <1>0, BelowParts DEF Extends
  <2> QED BY <2>1, BelowParts, BelowLeast
<1>2. Below(q, U) \subseteq Below(p, U) \cup Free(p)
  <2> DEFINE T == Below(p, U) \cup Free(p)
  <2>1. T \in SUBSET Address /\ U \subseteq T
    BY BelowParts DEF Free
  <2>2. ASSUME NEW a \in Address, q[a] \in T PROVE a \in T
    <3>1. CASE p[a] = "free"
      BY <3>1 DEF Free
    <3>2. CASE p[a] # "free"
      <4>1. q[a] = p[a] /\ p[a] \in Address
        BY <2>2, <3>2, BelowParts DEF Extends, Free
      <4>2. p[a] \notin Free(p)
        BY <4>1 DEF Forest, Free
      <4> QED BY <2>2, <4>1, <4>2, BelowParts
    <3> QED BY <3>1, <3>2
  <2> HIDE DEF T
  <2>3. Below(q, U) \subseteq T
    BY <2>1, <2>2, BelowLeast
  <2> QED BY <2>3 DEF T
<1> QED BY <1>1, <1>2 DEF Free

(* The values of attached objects are not free, so nothing changes for     *)
(* them.                                                                   *)
LEMMA ExtendsKeeps ==
  ASSUME NEW p \in [Address -> Address \cup {"free", "top"}], NEW ob, NEW k, Trees(p, ob, k),
         NEW q, Extends(p, q), NEW o \in Object, ob[o].controller # None,
         Typed(ob, k)
  PROVE  LET own == k[ob[o].controller] IN
         /\ ob[o].value \in Below(q, {own.owner})
         /\ ob[o].mode = "reference" =>
              \A a \in Address : a # own.owner /\ ob[o].value \in Below(q, {a})
                                 => <<q[a], a>> \in own.dependencies
<1>t. \A x \in Object : IsController(k[x]) /\ ob[x].controller \in Object \cup {None}
  BY DEF Typed
<1> USE <1>t
<1> DEFINE e == ob[o].controller
           z == ob[o].value
<1>1. /\ k[e].owner \in Address /\ p[k[e].owner] = "top" /\ z \in Below(p, {k[e].owner}) /\ Forest(p)
  BY DEF Trees, InItsTree, Owned, IsController
<1>2. z \in Address /\ p[z] # "free"
  <2>1. {k[e].owner} \in SUBSET Address /\ \A s \in {k[e].owner} : p[s] # "free"
    BY <1>1
  <2> QED BY <1>1, <2>1, BelowParts, ForestParts
<1>3. z \in Below(q, {k[e].owner})
  BY <1>1, ExtendsBelow
<1>4. ASSUME ob[o].mode = "reference", NEW a \in Address, a # k[e].owner, z \in Below(q, {a})
      PROVE  <<q[a], a>> \in k[e].dependencies
  <2>1. z \in Below(p, {a})
    BY <1>1, <1>2, <1>4, ExtendsBelow
  <2>2. <<p[a], a>> \in k[e].dependencies
    BY <1>4, <2>1 DEF Trees, DependsOnAll
  <2>3. q[a] = p[a]
    <3>1. p[a] \in Address
      BY <1>1, <2>2 DEF IsController, Trees
    <3>2. "free" \notin Address
      BY NoneAssumption
    <3> QED BY <3>1, <3>2 DEF Extends
  <2> QED BY <2>2, <2>3
<1> QED BY <1>3, <1>4

(* New values inside of what is there.                                     *)
LEMMA ExtendsTrees ==
  ASSUME NEW p \in [Address -> Address \cup {"free", "top"}], NEW ob, NEW k, Trees(p, ob, k),
         Typed(ob, k),
         NEW q, Extends(p, q), \A a \in Address : p[a] = "free" => q[a] # "top"
  PROVE  Trees(q, ob, k)
<1>t. \A x \in Object : IsController(k[x]) /\ ob[x].controller \in Object \cup {None}
  BY DEF Typed
<1> USE <1>t
<1>1. Forest(q) /\ OwnersNotReferred(ob, k)
  BY DEF Trees, Extends
<1>2. Owned(q, ob, k)
  <2>1. ASSUME NEW c \in Object, k[c].owner # None PROVE q[k[c].owner] = "top"
    <3>1. k[c].owner \in Address /\ p[k[c].owner] = "top"
      BY <2>1 DEF IsController, Trees, Owned
    <3> QED BY <3>1 DEF Extends
  <2>2. \A a \in Address : q[a] = "top" => p[a] = "top"
    BY DEF Extends
  <2> QED BY <2>1, <2>2 DEF Trees, Owned
<1>3. InItsTree(q, ob, k) /\ DependsOnAll(q, ob, k)
  BY ExtendsKeeps DEF Trees, InItsTree, DependsOnAll
<1> QED BY <1>1, <1>2, <1>3 DEF Trees

(* A new tree with the object that owns it.                                *)
LEMMA NewTopTrees ==
  ASSUME NEW p \in [Address -> Address \cup {"free", "top"}], NEW ob, NEW k, Trees(p, ob, k),
         Typed(ob, k),
         NEW q, Extends(p, q),
         NEW a \in Address, p[a] = "free", q[a] = "top",
         \A x \in Address : p[x] = "free" /\ q[x] = "top" => x = a,
         NEW c \in Object, ob[c].controller = None, \A x \in Object : c \notin AllObjects(k[x]),
         NEW ob2, Gains(ob, ob2, c, New("owner", a, c)),
         NEW k2, \A x \in Object : x # c => k2[x] = k[x],
         k2[c].owner = a, k2[c].references = NoReferences
  PROVE  Trees(q, ob2, k2)
<1>g. \A x \in Object : ob2[x] = IF x = c THEN New("owner", a, c) ELSE ob[x]
  BY DEF Gains
<1> USE <1>g
<1>t. \A x \in Object : IsController(k[x]) /\ ob[x].controller \in Object \cup {None}
  BY DEF Typed
<1> USE <1>t
<1>0. a # None /\ c # None
  BY NoneAssumption
<1>1. Forest(p) /\ Owned(p, ob, k) /\ InItsTree(p, ob, k) /\ DependsOnAll(p, ob, k) /\ OwnersNotReferred(ob, k)
  BY DEF Trees
<1>2. Forest(q) /\ \A x \in Address : p[x] # "free" => q[x] = p[x]
  BY DEF Extends
<1>3. k[c].owner = None
  BY <1>0, <1>1 DEF Owned
<1>11. \A o \in Object : ob[o].controller # None =>
         /\ ob[o].value \in Below(q, {k[ob[o].controller].owner})
         /\ ob[o].mode = "reference" =>
              \A y \in Address : y # k[ob[o].controller].owner /\ ob[o].value \in Below(q, {y})
                                 => <<q[y], y>> \in k[ob[o].controller].dependencies
  BY ExtendsKeeps
<1>4. ob2[c].mode = "owner" /\ ob2[c].value = a /\ ob2[c].controller = c
  BY DEF New
<1>5. ASSUME NEW x \in Object, k[x].owner # None
      PROVE  /\ x # c /\ k2[x] = k[x] /\ ob2[x] = ob[x] /\ k[x].owner \in Address
             /\ p[k[x].owner] = "top" /\ q[k[x].owner] = "top" /\ k[x].owner # a
  BY <1>1, <1>2, <1>3, <1>5 DEF Owned, IsController
<1>6. Owned(q, ob2, k2)
  <2>1. ASSUME NEW x \in Object, k2[x].owner # None
        PROVE  /\ q[k2[x].owner] = "top" /\ ob2[x].mode = "owner"
               /\ ob2[x].value = k2[x].owner /\ ob2[x].controller = x
    BY <1>1, <1>4, <1>5, <2>1 DEF Owned
  <2>2. ASSUME NEW y \in Address, q[y] = "top" PROVE \E x \in Object : k2[x].owner = y
    <3>1. CASE y = a
      BY <3>1
    <3>2. CASE y # a
      <4>1. p[y] = "top"
        BY <1>2, <2>2, <3>2
      <4>2. PICK x \in Object : k[x].owner = y
        BY <1>1, <4>1 DEF Owned
      <4>3. y # None
        BY NoneAssumption
      <4> QED BY <1>5, <4>2, <4>3
    <3> QED BY <3>1, <3>2
  <2>3. ASSUME NEW x \in Object, NEW y \in Object, k2[x].owner # None, k2[x].owner = k2[y].owner
        PROVE  x = y
    <3>1. CASE x # c /\ y # c
      BY <1>1, <2>3, <3>1 DEF Owned
    <3>2. CASE x = c /\ y # c
      BY <1>5, <2>3, <3>2
    <3>3. CASE x # c /\ y = c
      BY <1>5, <2>3, <3>3
    <3> QED BY <3>1, <3>2, <3>3
  <2> QED BY <2>1, <2>2, <2>3 DEF Owned
<1>7. ASSUME NEW o \in Object, o # c, ob2[o].controller # None
      PROVE  /\ ob2[o] = ob[o] /\ ob[o].controller \in Object /\ k2[ob[o].controller] = k[ob[o].controller]
             /\ k[ob[o].controller].owner # None
             /\ \/ ob[o].mode = "owner" /\ ob[o].controller = o /\ k[ob[o].controller].owner = ob[o].value
                \/ /\ ob[o].mode = "reference" /\ ob[o].value \in DOMAIN k[ob[o].controller].references
                   /\ k[ob[o].controller].references[ob[o].value] = o
  <2>1. ob2[o] = ob[o] /\ ob[o].controller \in Object
    BY <1>7
  <2>2. /\ k[ob[o].controller].owner # None
        /\ \/ ob[o].mode = "owner" /\ ob[o].controller = o /\ k[ob[o].controller].owner = ob[o].value
           \/ /\ ob[o].mode = "reference" /\ ob[o].value \in DOMAIN k[ob[o].controller].references
              /\ k[ob[o].controller].references[ob[o].value] = o
    BY <1>1, <1>7, <2>1 DEF InItsTree
  <2> QED BY <1>5, <2>1, <2>2
<1>8. InItsTree(q, ob2, k2)
  <2> SUFFICES ASSUME NEW o \in Object, ob2[o].controller # None
               PROVE  LET own == k2[ob2[o].controller] IN
                      /\ own.owner # None /\ ob2[o].value \in Below(q, {own.owner})
                      /\ \/ ob2[o].mode = "owner" /\ ob2[o].controller = o /\ own.owner = ob2[o].value
                         \/ /\ ob2[o].mode = "reference" /\ ob2[o].value \in DOMAIN own.references
                            /\ own.references[ob2[o].value] = o
    BY DEF InItsTree
  <2>1. CASE o = c
    BY <1>0, <1>4, <2>1, BelowParts
  <2>2. CASE o # c
    <3>1. ob2[o] = ob[o] /\ k2[ob[o].controller] = k[ob[o].controller] /\ ob[o].controller # None
      BY <1>7, <2>2
    <3>2. ob[o].value \in Below(q, {k[ob[o].controller].owner})
      BY <1>11, <3>1
    <3> QED BY <1>7, <2>2, <3>1, <3>2
  <2> QED BY <2>1, <2>2
<1>9. DependsOnAll(q, ob2, k2)
  <2> SUFFICES ASSUME NEW o \in Object, ob2[o].controller # None, ob2[o].mode = "reference",
                      NEW y \in Address, y # k2[ob2[o].controller].owner,
                      ob2[o].value \in Below(q, {y})
               PROVE  <<q[y], y>> \in k2[ob2[o].controller].dependencies
    BY DEF DependsOnAll
  <2>1. o # c
    BY <1>4
  <2>2. ob2[o] = ob[o] /\ k2[ob[o].controller] = k[ob[o].controller] /\ ob[o].controller # None
    BY <1>7, <2>1
  <2> QED BY <1>11, <2>2
<1>10. OwnersNotReferred(ob2, k2)
  <2> SUFFICES ASSUME NEW x \in Object, NEW o \in AllObjects(k2[x]) PROVE ob2[o].mode = "reference"
    BY DEF OwnersNotReferred
  <2>1. x # c
    BY DEF AllObjects, ObjectsOf, NoReferences
  <2>2. o \in AllObjects(k[x]) /\ o \in Object /\ o # c
    BY <2>1 DEF AllObjects, ObjectsOf, IsController
  <2> QED BY <1>1, <2>2 DEF OwnersNotReferred
<1> QED BY <1>2, <1>6, <1>8, <1>9, <1>10 DEF Trees

LEMMA CreateExtends ==
  ASSUME NEW p \in [Address -> Address \cup {"free", "top"}], Forest(p), NEW a \in Address, p[a] = "free"
  PROVE  Extends(p, [p EXCEPT ![a] = "top"])
<1> DEFINE q == [p EXCEPT ![a] = "top"]
<1>0. "top" \notin Address /\ "free" \notin Address
  BY NoneAssumption
<1>1. /\ q \in [Address -> Address \cup {"free", "top"}] /\ q[a] = "top"
      /\ \A x \in Address : x # a => q[x] = p[x]
  OBVIOUS
<1> HIDE DEF q
<1>2. ASSUME NEW x \in Address, q[x] \in Address PROVE q[q[x]] # "free"
  <2>1. x # a /\ q[x] = p[x] /\ p[p[x]] # "free"
    BY <1>0, <1>1, <1>2 DEF Forest
  <2> QED BY <1>1, <1>2, <2>1
<1>3. ASSUME NEW x \in Address, q[x] # "free"
      PROVE  \E b \in Address : q[b] = "top" /\ x \in Below(q, {b})
  <2>1. CASE x = a
    BY <1>1, <2>1, BelowParts
  <2>2. CASE x # a
    <3>1. PICK b \in Address : p[b] = "top" /\ x \in Below(p, {b})
      BY <1>1, <1>3, <2>2 DEF Forest
    <3>2. \A y \in Address : p[y] \in Below(q, {b}) => y \in Below(q, {b})
      <4>1. \A y \in Address : p[y] \in Below(q, {b}) => p[y] \in Address
        BY BelowParts
      <4> QED BY <1>0, <1>1, <4>1, BelowParts
    <3>3. Below(p, {b}) \subseteq Below(q, {b})
      BY <3>2, BelowParts, BelowLeast
    <3> QED BY <1>1, <3>1, <3>3
  <2> QED BY <2>1, <2>2
<1>4. Forest(q)
  BY <1>2, <1>3 DEF Forest
<1>5. Extends(p, q)
  BY <1>1, <1>4 DEF Extends
<1> QED BY <1>5 DEF q

(* DeepCopy.                                                               *)
LEMMA CopyExtends ==
  ASSUME NEW p \in [Address -> Address \cup {"free", "top"}], Forest(p),
         NEW v \in Address, p[v] # "free",
         NEW to \in Address \cup {"top"}, to \in Address => p[to] # "free",
         NEW q \in DeepCopies(p, v, to)
  PROVE  /\ Extends(p, q)
         /\ \E a \in Address : /\ p[a] = "free" /\ q[a] = to
              /\ \A x \in Address : p[x] = "free" /\ x # a => q[x] # "top"
<1>0. "top" \notin Address /\ "free" \notin Address
  BY NoneAssumption
<1> DEFINE S == Below(p, {v})
<1>1. PICK f \in [S -> Free(p)] :
        /\ \A s, u \in S : f[s] = f[u] => s = u
        /\ q = [b \in Address |->
                  IF b = f[v] THEN to
                  ELSE IF \E s \in S : f[s] = b THEN f[p[CHOOSE s \in S : f[s] = b]] ELSE p[b]]
  BY DEF DeepCopies
<1>2. S \in SUBSET Address /\ v \in S
  BY BelowParts
<1>3. \A s \in S : s # v => p[s] \in S
  BY BelowParent
<1>4. \A y \in Address : p[y] \in S => y \in S
  BY BelowParts
<1> HIDE DEF S
<1>5. \A s \in S : f[s] \in Address /\ p[f[s]] = "free"
  BY <1>1 DEF Free
<1>6. q[f[v]] = to
  BY <1>1, <1>2, <1>5
<1>7. ASSUME NEW s \in S, s # v PROVE q[f[s]] = f[p[s]]
  <2>1. f[s] # f[v]
    BY <1>1, <1>2, <1>7
  <2>2. (CHOOSE u \in S : f[u] = f[s]) = s
    BY <1>1
  <2> QED BY <1>1, <1>5, <2>1, <2>2
<1>8. \A b \in Address : (\A s \in S : f[s] # b) => q[b] = p[b]
  BY <1>1, <1>2
<1>9. \A b \in Address : p[b] # "free" => q[b] = p[b]
  BY <1>5, <1>8
<1>10. q \in [Address -> Address \cup {"free", "top"}]
  <2>1. ASSUME NEW b \in Address PROVE q[b] \in Address \cup {"free", "top"}
    <3>1. CASE \E s \in S : f[s] = b
      BY <1>3, <1>5, <1>6, <1>7, <3>1
    <3>2. CASE \A s \in S : f[s] # b
      BY <1>8, <3>2
    <3> QED BY <3>1, <3>2
  <2> QED BY <1>1, <2>1
<1>11. ASSUME NEW b \in Address, q[b] \in Address PROVE q[q[b]] # "free"
  <2>1. CASE \A s \in S : f[s] # b
    BY <1>8, <1>9, <1>11, <2>1 DEF Forest
  <2>2. CASE b = f[v]
    BY <1>0, <1>6, <1>9, <1>11, <2>2
  <2>3. ASSUME NEW s \in S, s # v, b = f[s] PROVE q[q[b]] # "free"
    <3>1. p[s] \in S /\ q[b] = f[p[s]]
      BY <1>3, <1>7, <2>3
    <3>2. CASE p[s] = v
      BY <1>0, <1>6, <3>1, <3>2
    <3>3. CASE p[s] # v
      BY <1>0, <1>3, <1>5, <1>7, <3>1, <3>3
    <3> QED BY <3>2, <3>3
  <2> QED BY <2>1, <2>2, <2>3
<1>12. \A U \in SUBSET Address : Below(p, U) \subseteq Below(q, U)
  <2> TAKE U \in SUBSET Address
  <2>1. \A y \in Address : p[y] \in Below(q, U) => y \in Below(q, U)
    <3>1. \A y \in Address : p[y] \in Below(q, U) => p[y] \in Address
      BY BelowParts
    <3> QED BY <1>0, <1>9, <3>1, BelowParts
  <2> QED BY <2>1, BelowParts, BelowLeast
(* The copies are below the place the first one was put at.                *)
<1>13. ASSUME NEW b \in Address, f[v] \in Below(q, {b}), NEW s \in S PROVE f[s] \in Below(q, {b})
  <2> DEFINE T == {y \in Address : y \in S => f[y] \in Below(q, {b})}
  <2>1. T \in SUBSET Address /\ {v} \subseteq T
    BY <1>13
  <2>2. ASSUME NEW y \in Address, p[y] \in T PROVE y \in T
    <3> SUFFICES ASSUME y \in S PROVE f[y] \in Below(q, {b})
      OBVIOUS
    <3>1. CASE y = v
      BY <1>13, <3>1
    <3>2. CASE y # v
      <4>1. p[y] \in S /\ q[f[y]] = f[p[y]] /\ f[p[y]] \in Below(q, {b}) /\ f[y] \in Address
        BY <1>3, <1>5, <1>7, <2>2, <3>2
      <4> QED BY <4>1, BelowParts
    <3> QED BY <3>1, <3>2
  <2> HIDE DEF T
  <2>3. Below(p, {v}) \subseteq T
    BY <2>1, <2>2, BelowLeast
  <2>4. s \in T
    BY <2>3 DEF S
  <2> QED BY <2>4 DEF T
<1>14. ASSUME NEW a \in Address, q[a] # "free"
       PROVE  \E b \in Address : q[b] = "top" /\ a \in Below(q, {b})
  <2>1. CASE p[a] # "free"
    <3>1. PICK b \in Address : p[b] = "top" /\ a \in Below(p, {b})
      BY <2>1 DEF Forest
    <3>2. q[b] = "top" /\ a \in Below(q, {b})
      BY <1>9, <1>12, <3>1
    <3> QED BY <3>2
  <2>2. CASE p[a] = "free"
    <3>1. PICK s \in S : a = f[s]
      BY <1>8, <1>14, <2>2
    <3>2. f[v] \in Address
      BY <1>2, <1>5
    <3>3. CASE to = "top"
      <4>1. f[v] \in Below(q, {f[v]})
        BY <3>2, BelowParts
      <4>2. a \in Below(q, {f[v]})
        BY <1>13, <3>1, <3>2, <4>1
      <4> QED BY <1>6, <3>2, <3>3, <4>2
    <3>4. CASE to \in Address
      <4>1. PICK b \in Address : p[b] = "top" /\ to \in Below(p, {b})
        BY <3>4 DEF Forest
      <4>2. q[b] = "top" /\ to \in Below(q, {b})
        BY <1>9, <1>12, <4>1
      <4>3. f[v] \in Below(q, {b})
        BY <1>6, <3>2, <4>2, BelowParts
      <4> QED BY <1>13, <3>1, <4>2, <4>3
    <3> QED BY <3>3, <3>4
  <2> QED BY <2>1, <2>2
<1>15. Extends(p, q)
  BY <1>9, <1>10, <1>11, <1>14 DEF Extends, Forest
<1>16. /\ f[v] \in Address /\ p[f[v]] = "free" /\ q[f[v]] = to
       /\ \A x \in Address : p[x] = "free" /\ x # f[v] => q[x] # "top"
  <2>1. ASSUME NEW x \in Address, p[x] = "free", x # f[v] PROVE q[x] # "top"
    <3>1. CASE \A s \in S : f[s] # x
      BY <1>8, <2>1, <3>1
    <3>2. ASSUME NEW s \in S, f[s] = x PROVE q[x] # "top"
      <4>1. s # v
        BY <2>1, <3>2
      <4>2. q[x] = f[p[s]] /\ p[s] \in S
        BY <1>3, <1>7, <3>2, <4>1
      <4> QED BY <1>0, <1>5, <4>2
    <3> QED BY <3>1, <3>2
  <2> QED BY <1>2, <1>5, <1>6, <2>1
<1> QED BY <1>15, <1>16

-----------------------------------------------------------------------------
LEMMA WithReferenceParts ==
  ASSUME NEW k, IsController(k), NEW a, NEW o, NEW v
  PROVE  LET w == WithReference(k, a, o, v) IN
         /\ w.owner = k.owner
         /\ w.references = [b \in DOMAIN k.references \cup {a} |-> IF b = a THEN o ELSE k.references[b]]
         /\ w.dependencies = k.dependencies \cup {<<v, a>>}
         /\ DOMAIN w = DOMAIN k
BY DEF WithReference, IsController

(* GetOrCreateRef, for a value that has no object yet.                     *)
LEMMA NewReferenceTrees ==
  ASSUME NEW p \in [Address -> Address \cup {"free", "top"}], NEW ob, NEW k, Trees(p, ob, k),
         Typed(ob, k),
         NEW s \in Object, NEW c \in Object, ob[s].controller = c,
         NEW a \in Children(p, ob[s].value), a \notin DOMAIN k[c].references,
         NEW o \in Object, ob[o].controller = None, \A x \in Object : o \notin AllObjects(k[x]),
         NEW ob2, Gains(ob, ob2, o, New("reference", a, c)),
         NEW k2, \A x \in Object : k2[x] = IF x = c THEN WithReference(k[c], a, o, ob[s].value) ELSE k[x]
  PROVE  Trees(p, ob2, k2)
<1>g. \A x \in Object : ob2[x] = IF x = o THEN New("reference", a, c) ELSE ob[x]
  BY DEF Gains
<1> USE <1>g
<1>t. \A x \in Object : IsController(k[x]) /\ ob[x].controller \in Object \cup {None}
  BY DEF Typed
<1> USE <1>t
<1> DEFINE v == ob[s].value
<1>0. /\ "top" \notin Address /\ \A x \in Object : x # None
      /\ a \in Address /\ p[a] = v
  BY NoneAssumption DEF Children
<1>1. Forest(p) /\ Owned(p, ob, k) /\ InItsTree(p, ob, k) /\ DependsOnAll(p, ob, k) /\ OwnersNotReferred(ob, k)
  BY DEF Trees
<1>2. /\ k2[c].owner = k[c].owner
      /\ DOMAIN k2[c].references = DOMAIN k[c].references \cup {a}
      /\ k2[c].references[a] = o
      /\ \A b \in DOMAIN k[c].references : k2[c].references[b] = k[c].references[b]
      /\ k2[c].dependencies = k[c].dependencies \cup {<<v, a>>}
  <2> DEFINE w == WithReference(k[c], a, o, v)
  <2>1. k2[c] = w
    OBVIOUS
  <2>2. /\ w.owner = k[c].owner
        /\ w.references = [b \in DOMAIN k[c].references \cup {a} |-> IF b = a THEN o ELSE k[c].references[b]]
        /\ w.dependencies = k[c].dependencies \cup {<<v, a>>}
    BY WithReferenceParts
  <2> HIDE DEF w
  <2> QED BY <2>1, <2>2
<1>3. ob2[o].mode = "reference" /\ ob2[o].value = a /\ ob2[o].controller = c
  BY DEF New
<1>4. /\ \A x \in Object : x # c => k2[x] = k[x]
      /\ \A x \in Object : x # o => ob2[x] = ob[x]
      /\ \A x \in Object : k2[x].owner = k[x].owner
  BY <1>2
<1>5. /\ k[c].owner \in Address /\ p[k[c].owner] = "top" /\ v \in Below(p, {k[c].owner})
      /\ k[c].owner # None
      /\ v = k[c].owner \/ ob[s].mode = "reference"
  <2>1. /\ k[c].owner # None /\ v \in Below(p, {k[c].owner})
        /\ v = k[c].owner \/ ob[s].mode = "reference"
    BY <1>0, <1>1 DEF InItsTree
  <2> QED BY <1>1, <2>1 DEF Owned, IsController
<1> HIDE DEF v
<1>6. Owned(p, ob2, k2)
  <2>1. \A x \in Object : k[x].owner # None => x # o
    BY <1>0, <1>1 DEF Owned
  <2> QED BY <1>1, <1>4, <2>1 DEF Owned
<1>7. ASSUME NEW x \in Object, x # o, ob2[x].controller # None
      PROVE  /\ ob2[x] = ob[x] /\ ob[x].controller \in Object /\ ob[x].controller # None
             /\ k2[ob[x].controller].owner = k[ob[x].controller].owner
             /\ \A b \in DOMAIN k[ob[x].controller].references :
                  /\ b \in DOMAIN k2[ob[x].controller].references
                  /\ k2[ob[x].controller].references[b] = k[ob[x].controller].references[b]
             /\ k[ob[x].controller].dependencies \subseteq k2[ob[x].controller].dependencies
  <2>1. ob2[x] = ob[x] /\ ob[x].controller \in Object /\ ob[x].controller # None
    BY <1>4, <1>7
  <2>2. CASE ob[x].controller = c
    BY <1>2, <2>1, <2>2
  <2>3. CASE ob[x].controller # c
    BY <1>4, <2>1, <2>3
  <2> QED BY <2>1, <2>2, <2>3
<1>8. InItsTree(p, ob2, k2)
  <2> SUFFICES ASSUME NEW x \in Object, ob2[x].controller # None
               PROVE  LET own == k2[ob2[x].controller] IN
                      /\ own.owner # None /\ ob2[x].value \in Below(p, {own.owner})
                      /\ \/ ob2[x].mode = "owner" /\ ob2[x].controller = x /\ own.owner = ob2[x].value
                         \/ /\ ob2[x].mode = "reference" /\ ob2[x].value \in DOMAIN own.references
                            /\ own.references[ob2[x].value] = x
    BY DEF InItsTree
  <2>1. CASE x = o
    <3>1. a \in Below(p, {k[c].owner})
      BY <1>0, <1>5, BelowParts
    <3>2. ob2[x].controller = c /\ ob2[x].value = a /\ ob2[x].mode = "reference"
      BY <1>3, <2>1
    <3>3. /\ k2[c].owner # None /\ a \in Below(p, {k2[c].owner})
          /\ a \in DOMAIN k2[c].references /\ k2[c].references[a] = x
      BY <1>2, <1>5, <2>1, <3>1
    <3> QED BY <3>2, <3>3
  <2>2. CASE x # o
    <3> DEFINE e == ob[x].controller
    <3>1. /\ k[e].owner # None /\ ob[x].value \in Below(p, {k[e].owner})
          /\ \/ ob[x].mode = "owner" /\ e = x /\ k[e].owner = ob[x].value
             \/ /\ ob[x].mode = "reference" /\ ob[x].value \in DOMAIN k[e].references
                /\ k[e].references[ob[x].value] = x
      BY <1>1, <1>7, <2>2 DEF InItsTree
    <3>2. /\ ob2[x] = ob[x] /\ k2[e].owner = k[e].owner
          /\ \A b \in DOMAIN k[e].references :
               b \in DOMAIN k2[e].references /\ k2[e].references[b] = k[e].references[b]
      BY <1>7, <2>2
    <3> HIDE DEF e
    <3>3. ob2[x].controller = e
      BY <3>2 DEF e
    <3> QED BY <3>1, <3>2, <3>3
  <2> QED BY <2>1, <2>2
<1>9. DependsOnAll(p, ob2, k2)
  <2> SUFFICES ASSUME NEW x \in Object, ob2[x].controller # None, ob2[x].mode = "reference",
                      NEW y \in Address, y # k2[ob2[x].controller].owner,
                      ob2[x].value \in Below(p, {y})
               PROVE  <<p[y], y>> \in k2[ob2[x].controller].dependencies
    BY DEF DependsOnAll
  <2>1. CASE x = o
    <3>1. a \in Below(p, {y}) /\ y # k[c].owner
      BY <1>2, <1>3, <2>1
    <3>2. CASE y = a
      BY <1>0, <1>2, <1>3, <2>1, <3>2
    <3>3. CASE y # a
      <4>1. v \in Below(p, {y})
        BY <1>0, <3>1, <3>3, BelowParent
      <4>2. v # k[c].owner
        <5>1. ASSUME v = k[c].owner PROVE FALSE
          <6>1. p[v] \in Below(p, {y}) /\ p[v] = "top"
            BY <1>5, <3>1, <4>1, <5>1, BelowParent
          <6> QED BY <1>0, <6>1, BelowParts
        <5> QED BY <5>1
      <4>3. <<p[y], y>> \in k[c].dependencies
        BY <1>0, <1>1, <1>5, <3>1, <4>1, <4>2 DEF DependsOnAll, v
      <4> QED BY <1>2, <1>3, <2>1, <4>3
    <3> QED BY <3>2, <3>3
  <2>2. CASE x # o
    <3>1. ob2[x] = ob[x] /\ ob[x].controller # None /\ ob[x].controller \in Object
          /\ y # k[ob[x].controller].owner
      BY <1>7, <2>2
    <3>2. <<p[y], y>> \in k[ob[x].controller].dependencies
      BY <1>1, <3>1 DEF DependsOnAll
    <3> QED BY <1>7, <2>2, <3>1, <3>2
  <2> QED BY <2>1, <2>2
<1>10. OwnersNotReferred(ob2, k2)
  <2> SUFFICES ASSUME NEW x \in Object, NEW u \in AllObjects(k2[x]) PROVE ob2[u].mode = "reference"
    BY DEF OwnersNotReferred
  <2>1. CASE u = o
    BY <1>3, <2>1
  <2>2. CASE u # o
    <3>1. PICK b \in Address \cap DOMAIN k2[x].references : u = k2[x].references[b]
      BY DEF AllObjects, ObjectsOf
    <3>2. b \in DOMAIN k[x].references /\ u = k[x].references[b]
      BY <1>2, <1>4, <2>2, <3>1
    <3>3. u \in AllObjects(k[x]) /\ u \in Object
      BY <3>1, <3>2 DEF AllObjects, ObjectsOf, IsController
    <3> QED BY <1>1, <1>4, <2>2, <3>3 DEF OwnersNotReferred
  <2> QED BY <2>1, <2>2
<1> QED BY <1>1, <1>6, <1>8, <1>9, <1>10 DEF Trees

(* A tree with no other use is put below a value of another.               *)
LEMMA MoveTrees ==
  ASSUME NEW p \in [Address -> Address \cup {"free", "top"}], NEW ob, NEW k, Trees(p, ob, k),
         Typed(ob, k),
         NEW c \in Object, k[c].owner # None, NEW to \in Below(p, {k[c].owner}),
         NEW d \in Object, d # c, k[d].owner # None,
         NEW ob2, Loses(ob, ob2, AllObjects(k[d]) \cup {d}),
         NEW k2, Takes(k, k2, c, d), NEW q, Moves(p, q, k[d].owner, to)
  PROVE  Trees(q, ob2, k2)
<1>k. /\ \A x \in Object \ {c, d} : k2[x] = k[x]
      /\ k2[d] = Empty /\ k2[c].owner = k[c].owner
      /\ DOMAIN k2[c].references = DOMAIN k[c].references \cup DOMAIN k[d].references
      /\ \A a \in DOMAIN k2[c].references :
           k2[c].references[a] = IF a \in DOMAIN k[c].references THEN k[c].references[a]
                                                                  ELSE k[d].references[a]
      /\ k[c].dependencies \subseteq k2[c].dependencies
  BY DEF Takes
<1>q. q = [p EXCEPT ![k[d].owner] = to]
  BY DEF Moves
<1>t. \A x \in Object : IsController(k[x]) /\ ob[x].controller \in Object \cup {None}
  BY DEF Typed
<1> DEFINE v == k[d].owner
           W == Below(p, {v})
<1>0. "top" \notin Address /\ "free" \notin Address /\ Empty.owner = None /\ DOMAIN Empty.references = {}
  BY NoneAssumption DEF Empty, NoReferences
<1>1. Forest(p) /\ Owned(p, ob, k) /\ InItsTree(p, ob, k) /\ DependsOnAll(p, ob, k) /\ OwnersNotReferred(ob, k)
  BY DEF Trees
<1>2. v \in Address /\ p[v] = "top" /\ k[c].owner \in Address /\ p[k[c].owner] = "top" /\ v # k[c].owner
  BY <1>1, <1>t DEF Owned, IsController
<1>3. /\ to \in Address /\ p[to] # "free" /\ to \notin W /\ v \in W /\ to # v
      /\ W \subseteq Address
  <2>1. to \in Address /\ v \in W /\ W \subseteq Address
    BY <1>2, BelowParts
  <2>2. p[to] # "free"
    <3>1. {k[c].owner} \in SUBSET Address /\ \A s \in {k[c].owner} : p[s] # "free"
      BY <1>2
    <3> QED BY <1>1, <2>1, <3>1, ForestParts
  <2>3. Below(p, {v}) \cap Below(p, {k[c].owner}) = {}
    BY <1>2, TopsApart
  <2> QED BY <2>1, <2>2, <2>3
<1>4. /\ q \in [Address -> Address \cup {"free", "top"}] /\ q[v] = to
      /\ \A a \in Address : a # v => q[a] = p[a]
  BY <1>q, <1>2, <1>3
<1>5. \A o \in Object : ob2[o].controller # None => Stays(p, ob, k, ob2, d, o)
  <2> TAKE o \in Object
  <2> HAVE ob2[o].controller # None
  <2> QED BY StillAttached
<1>6. \A x \in Object : x # d /\ k[x].owner # None => Apart(p, ob, k, d, x)
  <2> TAKE x \in Object
  <2> HAVE x # d /\ k[x].owner # None
  <2> QED BY OthersApart
<1> HIDE DEF v
<1>7. \A U \in SUBSET Address : Below(p, U) \subseteq Below(q, U)
  <2> TAKE U \in SUBSET Address
  <2>1. \A y \in Address : p[y] \in Below(q, U) => y \in Below(q, U)
    <3>1. \A y \in Address : p[y] \in Below(q, U) => p[y] \in Address
      BY BelowParts
    <3> QED BY <1>0, <1>2, <1>4, <3>1, BelowParts
  <2> QED BY <2>1, BelowParts, BelowLeast
<1>8. ASSUME NEW U \in SUBSET Address PROVE Below(q, U) \subseteq Below(p, U) \cup W
  <2> DEFINE T == Below(p, U) \cup W
  <2>1. T \in SUBSET Address /\ U \subseteq T
    BY <1>3, BelowParts
  <2>2. ASSUME NEW y \in Address, q[y] \in T PROVE y \in T
    <3>1. CASE y = v
      BY <1>3, <3>1
    <3>2. CASE y # v
      BY <1>4, <2>2, <3>2, BelowParts
    <3> QED BY <3>1, <3>2
  <2> HIDE DEF T
  <2>3. Below(q, U) \subseteq T
    BY <2>1, <2>2, BelowLeast
  <2> QED BY <2>3 DEF T
<1>9. Forest(q)
  <2>1. ASSUME NEW a \in Address, q[a] \in Address PROVE q[q[a]] # "free"
    <3>1. CASE a = v
      BY <1>3, <1>4, <3>1
    <3>2. CASE a # v
      <4>1. q[a] = p[a] /\ p[p[a]] # "free"
        BY <1>1, <1>4, <2>1, <3>2 DEF Forest
      <4> QED BY <1>0, <1>3, <1>4, <2>1, <4>1
    <3> QED BY <3>1, <3>2
  <2>2. ASSUME NEW a \in Address, q[a] # "free"
        PROVE  \E b \in Address : q[b] = "top" /\ a \in Below(q, {b})
    <3>1. p[a] # "free"
      BY <1>2, <1>4, <2>2
    <3>2. PICK b \in Address : p[b] = "top" /\ a \in Below(p, {b})
      BY <1>1, <3>1 DEF Forest
    <3>3. CASE b # v
      BY <1>4, <1>7, <3>2, <3>3
    <3>4. CASE b = v
      <4>1. to \in Below(q, {k[c].owner}) /\ {k[c].owner} \in SUBSET Address
        BY <1>2, <1>7
      <4>2. v \in Below(q, {k[c].owner})
        BY <1>2, <1>4, <4>1, BelowParts
      <4>3. Below(q, {v}) \subseteq Below(q, {k[c].owner})
        BY <1>2, <4>1, <4>2, BelowMonotone
      <4>4. a \in Below(q, {v})
        BY <1>2, <1>7, <3>2, <3>4
      <4> QED BY <1>2, <1>4, <4>3, <4>4
    <3> QED BY <3>3, <3>4
  <2> QED BY <2>1, <2>2 DEF Forest
<1>10. \A x \in Object : k2[x].owner = IF x = d THEN None ELSE k[x].owner
  BY <1>k, <1>0
<1>11. Owned(q, ob2, k2)
  <2>1. ASSUME NEW x \in Object, k2[x].owner # None
        PROVE  /\ q[k2[x].owner] = "top" /\ ob2[x].mode = "owner"
               /\ ob2[x].value = k2[x].owner /\ ob2[x].controller = x
    <3>1. x # d /\ k2[x].owner = k[x].owner /\ k[x].owner # None
      BY <1>10, <2>1
    <3>2. Apart(p, ob, k, d, x)
      BY <1>6, <3>1
    <3>3. k[x].owner # v
      BY <1>3, <3>2 DEF Apart, v
    <3>4. q[k[x].owner] = "top"
      BY <1>4, <3>2, <3>3 DEF Apart
    <3> QED BY <3>1, <3>2, <3>4 DEF Loses, Apart
  <2>2. ASSUME NEW a \in Address, q[a] = "top" PROVE \E x \in Object : k2[x].owner = a
    <3>1. a # v /\ p[a] = "top"
      BY <1>0, <1>3, <1>4, <2>2
    <3>2. PICK x \in Object : k[x].owner = a
      BY <1>1, <3>1 DEF Owned
    <3>3. x # d
      BY <3>1, <3>2 DEF v
    <3> QED BY <1>10, <3>2, <3>3
  <2>3. ASSUME NEW x \in Object, NEW y \in Object, k2[x].owner # None, k2[x].owner = k2[y].owner
        PROVE  x = y
    <3>1. k[x].owner # None /\ k[x].owner = k[y].owner
      BY <1>10, <2>3
    <3> QED BY <1>1, <3>1 DEF Owned
  <2> QED BY <2>1, <2>2, <2>3 DEF Owned
<1>12. ASSUME NEW o \in Object, ob2[o].controller # None
       PROVE  /\ ob2[o].controller = ob[o].controller /\ ob2[o].mode = ob[o].mode /\ ob2[o].value = ob[o].value
              /\ ob[o].controller \in Object
              /\ k2[ob[o].controller].owner = k[ob[o].controller].owner
              /\ k[ob[o].controller].owner \in Address
              /\ \A a \in DOMAIN k[ob[o].controller].references :
                   /\ a \in DOMAIN k2[ob[o].controller].references
                   /\ k2[ob[o].controller].references[a] = k[ob[o].controller].references[a]
              /\ k[ob[o].controller].dependencies \subseteq k2[ob[o].controller].dependencies
  <2> DEFINE e == ob[o].controller
  <2>1. /\ ob2[o].controller = e /\ ob2[o].mode = ob[o].mode /\ ob2[o].value = ob[o].value
        /\ e \in Object /\ e # d /\ k[e].owner # None
    BY <1>5, <1>12 DEF Stays
  <2> HIDE DEF e
  <2>2. k[e].owner \in Address
    BY <1>t, <2>1 DEF IsController
  <2>3. /\ k2[e].owner = k[e].owner
        /\ \A a \in DOMAIN k[e].references :
             a \in DOMAIN k2[e].references /\ k2[e].references[a] = k[e].references[a]
        /\ k[e].dependencies \subseteq k2[e].dependencies
    <3>1. CASE e = c
      BY <1>k, <3>1
    <3>2. CASE e # c
      BY <1>k, <2>1, <3>2
    <3> QED BY <3>1, <3>2
  <2> QED BY <2>1, <2>2, <2>3 DEF e
<1>13. InItsTree(q, ob2, k2)
  <2> SUFFICES ASSUME NEW o \in Object, ob2[o].controller # None
               PROVE  LET own == k2[ob2[o].controller] IN
                      /\ own.owner # None /\ ob2[o].value \in Below(q, {own.owner})
                      /\ \/ ob2[o].mode = "owner" /\ ob2[o].controller = o /\ own.owner = ob2[o].value
                         \/ /\ ob2[o].mode = "reference" /\ ob2[o].value \in DOMAIN own.references
                            /\ own.references[ob2[o].value] = o
    BY DEF InItsTree
  <2> DEFINE e == ob[o].controller
             z == ob[o].value
  <2>1. /\ ob2[o].controller = e /\ ob2[o].mode = ob[o].mode /\ ob2[o].value = z
        /\ k2[e].owner = k[e].owner /\ k[e].owner \in Address
        /\ \A a \in DOMAIN k[e].references :
             a \in DOMAIN k2[e].references /\ k2[e].references[a] = k[e].references[a]
    BY <1>12
  <2>2. /\ k[e].owner # None /\ z \in Below(p, {k[e].owner})
        /\ \/ ob[o].mode = "owner" /\ e = o /\ k[e].owner = z
           \/ /\ ob[o].mode = "reference" /\ z \in DOMAIN k[e].references
              /\ k[e].references[z] = o
    BY <1>5 DEF Stays
  <2> HIDE DEF e, z
  <2>3. {k[e].owner} \in SUBSET Address
    BY <2>1
  <2>4. z \in Below(q, {k2[e].owner})
    BY <1>7, <2>1, <2>2, <2>3
  <2> QED BY <2>1, <2>2, <2>4
<1>14. DependsOnAll(q, ob2, k2)
  <2> SUFFICES ASSUME NEW o \in Object, ob2[o].controller # None, ob2[o].mode = "reference",
                      NEW a \in Address, a # k2[ob2[o].controller].owner,
                      ob2[o].value \in Below(q, {a})
               PROVE  <<q[a], a>> \in k2[ob2[o].controller].dependencies
    BY DEF DependsOnAll
  <2> DEFINE e == ob[o].controller
             z == ob[o].value
  <2>1. /\ ob2[o].controller = e /\ ob2[o].mode = ob[o].mode /\ ob2[o].value = z
        /\ k2[e].owner = k[e].owner /\ e \in Object
        /\ k[e].dependencies \subseteq k2[e].dependencies
    BY <1>12
  <2>2. z \notin W
    BY <1>5 DEF Stays, v
  <2>3. z \in Below(p, {a})
    BY <1>8, <2>1, <2>2
  <2>4. <<p[a], a>> \in k[e].dependencies
    BY <1>1, <2>1, <2>3 DEF DependsOnAll
  <2>5. a # v
    <3>1. p[a] \in Address
      BY <1>t, <2>1, <2>4 DEF IsController
    <3> QED BY <1>0, <1>2, <3>1
  <2> QED BY <1>4, <2>1, <2>4, <2>5
<1>15. OwnersNotReferred(ob2, k2)
  <2> SUFFICES ASSUME NEW x \in Object, NEW u \in AllObjects(k2[x]) PROVE ob2[u].mode = "reference"
    BY DEF OwnersNotReferred
  <2>1. PICK b \in Address \cap DOMAIN k2[x].references : u = k2[x].references[b]
    BY DEF AllObjects, ObjectsOf
  <2>2. x # d
    BY <1>k, <1>0, <2>1
  <2>3. \E y \in Object : b \in DOMAIN k[y].references /\ u = k[y].references[b]
    <3>1. CASE x = c
      BY <1>k, <2>1, <3>1
    <3>2. CASE x # c
      BY <1>k, <2>1, <2>2, <3>2
    <3> QED BY <3>1, <3>2
  <2>4. PICK y \in Object : b \in DOMAIN k[y].references /\ u = k[y].references[b]
    BY <2>3
  <2>5. u \in AllObjects(k[y]) /\ u \in Object
    BY <1>t, <2>1, <2>4 DEF AllObjects, ObjectsOf, IsController
  <2> QED BY <1>1, <2>5 DEF OwnersNotReferred, Loses
<1>16. Trees(q, ob2, k2)
  BY <1>9, <1>11, <1>13, <1>14, <1>15 DEF Trees
<1> QED BY <1>16 DEF v

-----------------------------------------------------------------------------
(* The operators of the model.                                             *)
LEMMA TypedParts ==
  ASSUME NEW ob, NEW k, ObjectsTyped(ob), ControllersTyped(k)
  PROVE  Typed(ob, k)
BY DEF ObjectsTyped, ControllersTyped, Typed, ObjectState

LEMMA DetachedParts ==
  ASSUME ObjectsTyped(objects), NEW S
  PROVE  /\ ObjectsTyped(Detached(S)) /\ Loses(objects, Detached(S), S)
         /\ \A o \in Object : /\ Detached(S)[o].state = objects[o].state
                              /\ Detached(S)[o].controller \in {None, objects[o].controller}
<1>1. ASSUME NEW o \in Object
      PROVE  /\ Detached(S)[o] \in ObjectState
             /\ o \notin S => Detached(S)[o] = objects[o]
             /\ o \in S => Detached(S)[o].value = None /\ Detached(S)[o].controller = None
             /\ Detached(S)[o].state = objects[o].state /\ Detached(S)[o].mode = objects[o].mode
  BY DEF Detached, ObjectsTyped, ObjectState
<1>2. DOMAIN Detached(S) = Object /\ Detached(S) = [o \in Object |-> Detached(S)[o]]
  BY DEF Detached
<1>3. ObjectsTyped(Detached(S))
  BY <1>1, <1>2 DEF ObjectsTyped
<1>4. Loses(objects, Detached(S), S)
  BY <1>1 DEF Loses
<1> QED BY <1>1, <1>3, <1>4

LEMMA NewParts ==
  ASSUME NEW mode \in {"reference", "owner"}, NEW a \in Address, NEW c \in Object
  PROVE  /\ New(mode, a, c) \in ObjectState /\ New(mode, a, c).state = "held"
         /\ New(mode, a, c).mode = mode /\ New(mode, a, c).value = a
         /\ New(mode, a, c).controller = c /\ a # None /\ c # None
BY NoneAssumption DEF New, ObjectState

LEMMA GoneParts ==
  Gone \in ObjectState /\ Gone.value = None /\ Gone.controller = None /\ Gone.mode = "reference"
BY DEF Gone, ObjectState

LEMMA EmptyParts ==
  /\ IsController(Empty)
  /\ \A a \in Address : LET w == [Empty EXCEPT !.owner = a] IN
       IsController(w) /\ w.owner = a /\ w.references = NoReferences
<1>1. /\ DOMAIN Empty = {"owner", "references", "dependencies"} /\ Empty.owner = None
      /\ Empty.references = NoReferences /\ Empty.dependencies = {}
      /\ DOMAIN NoReferences = {} /\ NoReferences \in [{} -> Object]
  BY DEF Empty, NoReferences
<1>2. IsController(Empty)
  BY <1>1 DEF IsController
<1>3. ASSUME NEW a \in Address
      PROVE  LET w == [Empty EXCEPT !.owner = a] IN
             IsController(w) /\ w.owner = a /\ w.references = NoReferences
  <2> DEFINE w == [Empty EXCEPT !.owner = a]
  <2>1. /\ DOMAIN w = {"owner", "references", "dependencies"} /\ w.owner = a
        /\ w.references = NoReferences /\ w.dependencies = {}
    BY <1>1
  <2> HIDE DEF w
  <2>2. IsController(w)
    BY <1>1, <2>1 DEF IsController
  <2> QED BY <2>1, <2>2 DEF w
<1> QED BY <1>2, <1>3

LEMMA WithoutTyped ==
  ASSUME NEW k, IsController(k), NEW S, NEW D
  PROVE  IsController(Without(k, S, D))
<1> DEFINE w == Without(k, S, D)
<1>1. /\ DOMAIN w = {"owner", "references", "dependencies"} /\ w.owner = k.owner
      /\ w.references = [a \in DOMAIN k.references \ S |-> k.references[a]]
      /\ w.dependencies = {d \in k.dependencies : d[1] \notin D}
  BY DEF Without, IsController
<1> HIDE DEF w
<1>2. IsController(w)
  BY <1>1 DEF IsController
<1> QED BY <1>2 DEF w

LEMMA WithReferenceTyped ==
  ASSUME NEW k, IsController(k), NEW a \in Address, NEW o \in Object, NEW v \in Address
  PROVE  IsController(WithReference(k, a, o, v))
<1> DEFINE w == WithReference(k, a, o, v)
<1>1. /\ w.owner = k.owner
      /\ w.references = [b \in DOMAIN k.references \cup {a} |-> IF b = a THEN o ELSE k.references[b]]
      /\ w.dependencies = k.dependencies \cup {<<v, a>>}
      /\ DOMAIN w = DOMAIN k
  BY WithReferenceParts
<1> HIDE DEF w
<1>2. IsController(w)
  BY <1>1 DEF IsController
<1> QED BY <1>2 DEF w

(* TakeFrom adds, and keeps what was there.                                *)
LEMMA TakeFromParts ==
  ASSUME NEW k, IsController(k), NEW other, IsController(other)
  PROVE  LET w == TakeFrom(k, other) IN
         /\ IsController(w) /\ w.owner = k.owner
         /\ DOMAIN w.references = DOMAIN k.references \cup DOMAIN other.references
         /\ \A a \in DOMAIN w.references :
              w.references[a] = IF a \in DOMAIN k.references THEN k.references[a] ELSE other.references[a]
         /\ k.dependencies \subseteq w.dependencies
<1> DEFINE w == TakeFrom(k, other)
<1>1. /\ DOMAIN w = {"owner", "references", "dependencies"} /\ w.owner = k.owner
      /\ w.references = [a \in DOMAIN k.references \cup DOMAIN other.references |->
                           IF a \in DOMAIN k.references THEN k.references[a] ELSE other.references[a]]
      /\ w.dependencies = k.dependencies \cup other.dependencies
  BY DEF TakeFrom, IsController
<1> HIDE DEF w
<1>2. IsController(w)
  BY <1>1 DEF IsController
<1> QED BY <1>1, <1>2 DEF w

-----------------------------------------------------------------------------
(* What the invariant says of a thread at work.                            *)
LEMMA Typing ==
  ASSUME TypeOK
  PROVE  /\ parent \in [Address -> Address \cup {"free", "top"}]
         /\ ObjectsTyped(objects) /\ ControllersTyped(controllers) /\ Typed(objects, controllers)
         /\ \A o \in Object : Attached(o) <=> objects[o].controller # None
<1>1. ObjectsTyped(objects) /\ ControllersTyped(controllers)
  BY DEF TypeOK, ObjectsTyped, ControllersTyped
<1> QED BY <1>1, TypedParts DEF TypeOK, Attached

(* An object that is attached, its controller and the value.               *)
LEMMA AttachedFacts ==
  ASSUME IInv, NEW s \in Object, objects[s].controller # None
  PROVE  LET c == objects[s].controller
             v == objects[s].value IN
         /\ c \in Object /\ controllers[c].owner \in Address /\ controllers[c].owner # None
         /\ parent[controllers[c].owner] = "top"
         /\ v \in Address /\ v \in Below(parent, {controllers[c].owner}) /\ parent[v] # "free"
         /\ \/ objects[s].mode = "owner" /\ c = s /\ controllers[c].owner = v
            \/ /\ objects[s].mode = "reference" /\ v \in DOMAIN controllers[c].references
               /\ controllers[c].references[v] = s
<1> DEFINE c == objects[s].controller
           v == objects[s].value
<1>1. c \in Object
  BY Typing DEF Typed, IInv
<1>2. /\ controllers[c].owner # None /\ v \in Below(parent, {controllers[c].owner})
      /\ \/ objects[s].mode = "owner" /\ c = s /\ controllers[c].owner = v
         \/ /\ objects[s].mode = "reference" /\ v \in DOMAIN controllers[c].references
            /\ controllers[c].references[v] = s
  BY DEF IInv, Trees, InItsTree
<1>3. controllers[c].owner \in Address /\ parent[controllers[c].owner] = "top"
  BY <1>1, <1>2 DEF IInv, Trees, Owned, TypeOK, IsController
<1>4. v \in Address /\ parent[v] # "free"
  <2>1. {controllers[c].owner} \in SUBSET Address /\ \A x \in {controllers[c].owner} : parent[x] # "free"
    BY <1>3
  <2> QED BY <1>2, <2>1, BelowParts, ForestParts, Typing DEF IInv, Trees
<1> QED BY <1>1, <1>2, <1>3, <1>4

(* A call whose object is attached.                                        *)
LEMMA CallFacts ==
  ASSUME IInv, NEW t \in Thread, threads[t].at # "none", Attached(threads[t].self)
  PROVE  LET s == threads[t].self
             c == threads[t].controller
             v == objects[s].value IN
         /\ s \in Object /\ c \in Object /\ Self(t) = objects[s] /\ Own(t) = controllers[c]
         /\ objects[s].controller = c /\ objects[s].controller # None
         /\ controllers[c].owner \in Address /\ controllers[c].owner # None
         /\ parent[controllers[c].owner] = "top"
         /\ v \in Address /\ v \in Below(parent, {controllers[c].owner}) /\ parent[v] # "free"
         /\ \/ objects[s].mode = "owner" /\ c = s /\ controllers[c].owner = v
            \/ /\ objects[s].mode = "reference" /\ v \in DOMAIN controllers[c].references
               /\ controllers[c].references[v] = s
<1> DEFINE s == threads[t].self
           c == threads[t].controller
<1>1. threads[t] \in Call
  BY DEF IInv, TypeOK
<1>2. s \in Object /\ c \in Object /\ objects[s].controller = c /\ objects[s].controller # None
  BY <1>1, NoneAssumption DEF IInv, Calls, CallKnown, Call, Attached
<1>3. Self(t) = objects[s] /\ Own(t) = controllers[c]
  BY DEF Self, Own
<1>4. LET d == objects[s].controller
          v == objects[s].value IN
         /\ d \in Object /\ controllers[d].owner \in Address /\ controllers[d].owner # None
         /\ parent[controllers[d].owner] = "top"
         /\ v \in Address /\ v \in Below(parent, {controllers[d].owner}) /\ parent[v] # "free"
         /\ \/ objects[s].mode = "owner" /\ d = s /\ controllers[d].owner = v
            \/ /\ objects[s].mode = "reference" /\ v \in DOMAIN controllers[d].references
               /\ controllers[d].references[v] = s
  <2>1. s \in Object /\ objects[s].controller # None
    BY <1>2
  <2> HIDE DEF s
  <2> QED BY <2>1, AttachedFacts
<1> QED BY <1>2, <1>3, <1>4

(* The same of a call that works.                                          *)
LEMMA WorksFacts ==
  ASSUME IInv, NEW t \in Thread, NEW state, Works(t, state)
  PROVE  LET s == threads[t].self
             c == threads[t].controller
             v == objects[s].value IN
         /\ s \in Object /\ c \in Object /\ Self(t) = objects[s] /\ Own(t) = controllers[c]
         /\ objects[s].controller = c /\ objects[s].state = state
         /\ controllers[c].owner \in Address /\ controllers[c].owner # None
         /\ parent[controllers[c].owner] = "top"
         /\ v \in Address /\ v \in Below(parent, {controllers[c].owner}) /\ parent[v] # "free"
         /\ \/ objects[s].mode = "owner" /\ c = s /\ controllers[c].owner = v
            \/ /\ objects[s].mode = "reference" /\ v \in DOMAIN controllers[c].references
               /\ controllers[c].references[v] = s
<1>1. threads[t].at = "lock" /\ Attached(threads[t].self) /\ objects[threads[t].self].state = state
  BY DEF Works, Enter
<1> QED BY <1>1, CallFacts

(* Calls of other threads: nobody else changes what they know of their     *)
(* objects, except that one may be detached.                               *)
LEMMA CallsKept ==
  ASSUME TypeOK, Calls, NEW t \in Thread,
         threads' = threads \/ Return(t),
         \A u \in Thread : threads' = threads \/ u # t =>
           /\ \A o \in {threads[u].self, threads[u].source} \ {None} :
                /\ objects'[o].state = objects[o].state
                /\ objects'[o].controller \in {None, objects[o].controller}
           /\ threads[u].at \notin {"none", "lock"} =>
                lock'[threads[u].controller] = lock[threads[u].controller]
  PROVE  Calls'
<1>1. \A u \in Thread : threads[u] \in Call
  BY DEF TypeOK
<1>2. \A u \in Thread : \/ threads'[u] = Idle
                        \/ threads'[u] = threads[u] /\ (threads' = threads \/ u # t)
  BY DEF Return, TypeOK
<1>3. /\ Idle.at = "none" /\ Idle.self = None /\ Idle.source = None
  BY DEF Idle
<1>4. ASSUME NEW u \in Thread PROVE CallKnown(u)'
  <2>1. CASE threads'[u] = Idle
    BY <1>3, <2>1 DEF CallKnown
  <2>2. CASE threads'[u] = threads[u] /\ (threads' = threads \/ u # t)
    <3>1. CallKnown(u)
      BY DEF Calls
    <3>2. CASE threads[u].at = "none"
      BY <2>2, <3>1, <3>2 DEF CallKnown
    <3>3. CASE threads[u].at = "lock"
      <4>1. /\ objects'[threads[u].self].state = objects[threads[u].self].state
            /\ objects'[threads[u].self].controller \in {None, objects[threads[u].self].controller}
        BY <2>2, <3>1, <3>3 DEF CallKnown
      <4> QED BY <2>2, <3>1, <3>3, <4>1 DEF CallKnown, Attached
    <3>4. CASE threads[u].at \notin {"none", "lock"}
      <4>1. /\ objects'[threads[u].self].state = objects[threads[u].self].state
            /\ objects'[threads[u].self].controller \in {None, objects[threads[u].self].controller}
            /\ objects'[threads[u].source].state = objects[threads[u].source].state
            /\ objects'[threads[u].source].controller \in {None, objects[threads[u].source].controller}
            /\ lock'[threads[u].controller] = lock[threads[u].controller]
        BY <2>2, <3>1, <3>4 DEF CallKnown
      <4> QED BY <2>2, <3>1, <3>4, <4>1 DEF CallKnown, Attached
    <3> QED BY <3>2, <3>3, <3>4
  <2> QED BY <1>2, <2>1, <2>2
<1>5. DyingAlone'
  <2> SUFFICES ASSUME NEW u \in Thread, NEW w \in Thread, threads'[u].self # None,
                      objects'[threads'[u].self].state = "dying", w # u
               PROVE  threads'[u].self \notin {threads'[w].self, threads'[w].source}
    BY DEF DyingAlone
  <2>1. threads'[u] = threads[u] /\ (threads' = threads \/ u # t)
    BY <1>2, <1>3
  <2>2. objects[threads[u].self].state = "dying"
    BY <2>1
  <2>3. threads[u].self \notin {threads[w].self, threads[w].source}
    BY <2>1, <2>2 DEF Calls, DyingAlone
  <2> QED BY <1>2, <1>3, <2>1, <2>3
<1> QED BY <1>4, <1>5 DEF Calls

(* An object that is gone is not used by a call.                           *)
LEMMA UsedAreThere ==
  ASSUME TypeOK, Calls, NEW u \in Thread, NEW o \in {threads[u].self, threads[u].source}, o # None
  PROVE  o \in Object /\ objects[o].state # "gone"
<1>1. CallKnown(u) /\ threads[u] \in Call
  BY DEF TypeOK, Calls
<1>2. CASE threads[u].at = "none"
  BY <1>1, <1>2 DEF CallKnown, Idle
<1>3. CASE threads[u].at = "lock"
  BY <1>1, <1>3 DEF CallKnown, Call
<1>4. CASE threads[u].at \notin {"none", "lock"}
  BY <1>1, <1>4 DEF CallKnown, Call
<1> QED BY <1>2, <1>3, <1>4

-----------------------------------------------------------------------------
(* Each action.                                                            *)
LEMMA Conclude ==
  ASSUME parent' \in [Address -> Address \cup {"free", "top"}],
         ObjectsTyped(objects'), ControllersTyped(controllers'),
         lock' \in [Object -> Thread \cup {None}], threads' \in [Thread -> Call],
         fault' \in {None, "detached object", "freed object", "no value"},
         Trees(parent', objects', controllers'), GoneAreDetached', Calls'
  PROVE  IInv'
BY DEF IInv, TypeOK, ObjectsTyped, ControllersTyped

LEMMA Returned ==
  ASSUME TypeOK, NEW t \in Thread, threads' = threads \/ Return(t)
  PROVE  threads' \in [Thread -> Call]
<1>1. Idle \in Call
  BY DEF Idle, Call
<1> QED BY <1>1 DEF TypeOK, Return

(* An object that is not in use.                                           *)
LEMMA UnusedParts ==
  ASSUME IInv, NEW o \in Object, Unused(o)
  PROVE  /\ objects[o].controller = None
         /\ \A x \in Object : o \notin AllObjects(controllers[x])
         /\ \A u \in Thread : o \notin {threads[u].self, threads[u].source}
<1>1. o # None
  BY NoneAssumption
<1>2. objects[o].state = "gone"
  BY DEF Unused
<1>3. \A u \in Thread : o \notin {threads[u].self, threads[u].source}
  BY <1>1, <1>2, UsedAreThere DEF IInv
<1> QED BY <1>2, <1>3 DEF Unused, IInv, GoneAreDetached

(* An object that was not in use is taken.                                 *)
LEMMA NewObject ==
  ASSUME IInv, NEW t \in Thread, NEW o \in Object, Unused(o),
         NEW new \in ObjectState, new.state = "held", new.value # None, new.controller # None,
         objects' = [objects EXCEPT ![o] = new],
         lock' = lock, threads' = threads \/ Return(t)
  PROVE  /\ ObjectsTyped(objects') /\ GoneAreDetached' /\ Calls'
         /\ Gains(objects, objects', o, new)
<1>1. ObjectsTyped(objects) /\ TypeOK /\ Calls /\ GoneAreDetached
  BY Typing DEF IInv
<1>2. \A x \in Object : objects'[x] = IF x = o THEN new ELSE objects[x]
  BY <1>1 DEF ObjectsTyped
<1>3. ObjectsTyped(objects') /\ GoneAreDetached'
  BY <1>1, <1>2 DEF ObjectsTyped, GoneAreDetached
<1>4. \A u \in Thread : o \notin {threads[u].self, threads[u].source}
  BY UnusedParts
<1>5. \A u \in Thread : \A x \in {threads[u].self, threads[u].source} \ {None} :
        objects'[x] = objects[x]
  <2> TAKE u \in Thread
  <2> TAKE x \in {threads[u].self, threads[u].source} \ {None}
  <2>1. x \in Object
    BY <1>1, UsedAreThere
  <2> QED BY <1>2, <1>4, <2>1
<1>6. Calls'
  BY <1>1, <1>5, CallsKept
<1> QED BY <1>2, <1>3, <1>6 DEF Gains

(* OnControlRemoved of the objects in S.                                   *)
LEMMA DetachObjects ==
  ASSUME IInv, NEW t \in Thread, NEW S, objects' = Detached(S),
         lock' = lock, threads' = threads \/ Return(t)
  PROVE  ObjectsTyped(objects') /\ GoneAreDetached' /\ Calls' /\ Loses(objects, objects', S)
<1>1. ObjectsTyped(objects) /\ TypeOK /\ Calls /\ GoneAreDetached
  BY Typing DEF IInv
<1>2. /\ ObjectsTyped(objects') /\ Loses(objects, objects', S)
      /\ \A o \in Object : /\ objects'[o].state = objects[o].state
                           /\ objects'[o].controller \in {None, objects[o].controller}
  BY <1>1, DetachedParts
<1>3. GoneAreDetached'
  BY <1>1, <1>2 DEF GoneAreDetached
<1>4. \A u \in Thread : \A x \in {threads[u].self, threads[u].source} \ {None} :
        /\ objects'[x].state = objects[x].state
        /\ objects'[x].controller \in {None, objects[x].controller}
  BY <1>1, <1>2, UsedAreThere
<1>5. Calls'
  BY <1>1, <1>4, CallsKept
<1> QED BY <1>2, <1>3, <1>5

(* Nothing happens to the memory.                                          *)
LEMMA MemoryKept ==
  ASSUME IInv, UNCHANGED memory
  PROVE  /\ parent' \in [Address -> Address \cup {"free", "top"}]
         /\ ObjectsTyped(objects') /\ ControllersTyped(controllers')
         /\ Trees(parent', objects', controllers') /\ GoneAreDetached'
<1>1. parent' = parent /\ objects' = objects /\ controllers' = controllers
  BY DEF memory
<1>2. GoneAreDetached'
  BY <1>1 DEF IInv, GoneAreDetached
<1> QED BY <1>1, <1>2, Typing DEF IInv

LEMMA CreateStep ==
  ASSUME IInv, NEW t \in Thread, NEW o \in Object, Create(t, o)
  PROVE  IInv'
<1>1. PICK a \in Free(parent) :
        /\ parent' = [parent EXCEPT ![a] = "top"]
        /\ objects' = [objects EXCEPT ![o] = New("owner", a, o)]
        /\ controllers' = [controllers EXCEPT ![o] = [Empty EXCEPT !.owner = a]]
  BY DEF Create
<1>2. /\ a \in Address /\ parent[a] = "free" /\ Unused(o) /\ TypeOK
      /\ lock' = lock /\ threads' = threads /\ fault' = fault
  BY DEF Create, Free, IInv
<1>3. /\ parent \in [Address -> Address \cup {"free", "top"}] /\ Typed(objects, controllers)
      /\ ControllersTyped(controllers) /\ Trees(parent, objects, controllers)
  BY <1>2, Typing DEF IInv
<1>4. /\ ObjectsTyped(objects') /\ GoneAreDetached' /\ Calls'
      /\ Gains(objects, objects', o, New("owner", a, o))
  <2> DEFINE new == New("owner", a, o)
  <2>1. new \in ObjectState /\ new.state = "held" /\ new.value # None /\ new.controller # None
    BY <1>2, NewParts
  <2>2. objects' = [objects EXCEPT ![o] = new] /\ lock' = lock /\ threads' = threads /\ Unused(o)
    BY <1>1, <1>2
  <2> HIDE DEF new
  <2>3. ObjectsTyped(objects') /\ GoneAreDetached' /\ Calls' /\ Gains(objects, objects', o, new)
    BY <2>1, <2>2, NewObject
  <2> QED BY <2>3 DEF new
<1> DEFINE w == [Empty EXCEPT !.owner = a]
<1>5. IsController(w) /\ w.owner = a /\ w.references = NoReferences
  BY <1>2, EmptyParts
<1> HIDE DEF w
<1>6. /\ ControllersTyped(controllers') /\ controllers'[o] = w
      /\ \A x \in Object : x # o => controllers'[x] = controllers[x]
  BY <1>1, <1>3, <1>5 DEF ControllersTyped, w
<1>7. Extends(parent, parent')
  BY <1>1, <1>2, <1>3, CreateExtends DEF Trees
<1>8. /\ parent' \in [Address -> Address \cup {"free", "top"}] /\ parent'[a] = "top"
      /\ \A x \in Address : parent[x] = "free" /\ parent'[x] = "top" => x = a
  BY <1>1, <1>2, <1>3
<1>9. /\ objects[o].controller = None
      /\ \A x \in Object : o \notin AllObjects(controllers[x])
  BY <1>2, UnusedParts
<1>10. controllers'[o].owner = a /\ controllers'[o].references = NoReferences
  BY <1>5, <1>6
<1>11. Trees(parent', objects', controllers')
  BY <1>2, <1>3, <1>4, <1>6, <1>7, <1>8, <1>9, <1>10, NewTopTrees
<1> QED BY <1>2, <1>4, <1>6, <1>8, <1>11, Conclude DEF TypeOK

(* A call begins, of an object that is held, or now dies when no call uses *)
(* it.                                                                     *)
LEMMA BeginCalls ==
  ASSUME IInv, NEW t \in Thread, NEW o \in Object, Begin(t, o), lock' = lock,
         \A x \in Object : x # o => objects'[x] = objects[x],
         objects'[o].controller = objects[o].controller,
         \/ objects'[o].state = "held"
         \/ /\ objects'[o].state = "dying"
            /\ \A u \in Thread : o \notin {threads[u].self, threads[u].source}
  PROVE  Calls' /\ threads' \in [Thread -> Call]
<1> DEFINE call == [Idle EXCEPT !.at = "lock", !.self = o, !.controller = objects[o].controller]
<1>1. /\ objects[o].state = "held" /\ objects[o].controller # None /\ objects[o].controller \in Object
      /\ o # None /\ TypeOK /\ Calls
  <2>1. objects[o].controller \in Object \cup {None}
    BY DEF IInv, TypeOK, ObjectState
  <2> QED BY <2>1, NoneAssumption DEF Begin, Attached, IInv
<1>2. threads' = [threads EXCEPT ![t] = call]
  BY DEF Begin
<1>3. /\ threads' \in [Thread -> Call] /\ threads'[t] = call
      /\ \A u \in Thread : u # t => threads'[u] = threads[u]
  <2>1. Idle \in Call
    BY DEF Idle, Call
  <2>2. call \in Call
    BY <1>1, <2>1 DEF Call
  <2> QED BY <1>1, <1>2, <2>2 DEF TypeOK
<1>4. /\ call.at = "lock" /\ call.self = o /\ call.controller = objects[o].controller
      /\ call.source = None /\ call.from = None
  BY DEF Idle
<1> HIDE DEF call
<1>5. \A u \in Thread : u # t => \A x \in {threads[u].self, threads[u].source} \ {None} :
        objects'[x].state = objects[x].state /\ objects'[x].controller = objects[x].controller
  <2> TAKE u \in Thread
  <2> HAVE u # t
  <2> TAKE x \in {threads[u].self, threads[u].source} \ {None}
  <2>1. x \in Object
    BY <1>1, UsedAreThere
  <2> QED BY <1>1, <2>1
<1>6. ASSUME NEW u \in Thread, u # t PROVE CallKnown(u)'
  <2>1. CallKnown(u) /\ threads'[u] = threads[u]
    BY <1>1, <1>3, <1>6 DEF Calls
  <2>2. CASE threads[u].at = "none"
    BY <2>1, <2>2 DEF CallKnown
  <2>3. CASE threads[u].at = "lock"
    <3>1. /\ objects'[threads[u].self].state = objects[threads[u].self].state
          /\ objects'[threads[u].self].controller = objects[threads[u].self].controller
      BY <1>5, <1>6, <2>1, <2>3 DEF CallKnown
    <3> QED BY <2>1, <2>3, <3>1 DEF CallKnown, Attached
  <2>4. CASE threads[u].at \notin {"none", "lock"}
    <3>1. /\ objects'[threads[u].self].state = objects[threads[u].self].state
          /\ objects'[threads[u].self].controller = objects[threads[u].self].controller
          /\ objects'[threads[u].source].state = objects[threads[u].source].state
          /\ objects'[threads[u].source].controller = objects[threads[u].source].controller
      BY <1>5, <1>6, <2>1, <2>4 DEF CallKnown
    <3> QED BY <2>1, <2>4, <3>1 DEF CallKnown, Attached
  <2> QED BY <2>2, <2>3, <2>4
<1>7. CallKnown(t)'
  BY <1>1, <1>3, <1>4 DEF CallKnown, Attached
<1>8. DyingAlone'
  <2> SUFFICES ASSUME NEW u \in Thread, NEW w \in Thread, threads'[u].self # None,
                      objects'[threads'[u].self].state = "dying", w # u
               PROVE  threads'[u].self \notin {threads'[w].self, threads'[w].source}
    BY DEF DyingAlone
  <2>1. CASE u = t
    BY <1>3, <1>4, <2>1
  <2>2. CASE u # t
    <3>1. /\ threads'[u] = threads[u] /\ objects[threads[u].self].state = "dying"
          /\ threads[u].self # None /\ threads[u].self # o
      BY <1>1, <1>3, <1>5, <2>2
    <3>2. threads[u].self \notin {threads[w].self, threads[w].source}
      BY <1>1, <3>1 DEF Calls, DyingAlone
    <3>3. CASE w = t
      BY <1>3, <1>4, <3>1, <3>3
    <3>4. CASE w # t
      BY <1>3, <3>1, <3>2, <3>4
    <3> QED BY <3>3, <3>4
  <2> QED BY <2>1, <2>2
<1>9. \A u \in Thread : CallKnown(u)'
  BY <1>6, <1>7
<1> QED BY <1>3, <1>8, <1>9 DEF Calls

LEMMA MethodStep ==
  ASSUME IInv, NEW t \in Thread, NEW o \in Object, Method(t, o)
  PROVE  IInv'
<1>1. Begin(t, o) /\ UNCHANGED memory /\ objects' = objects /\ lock' = lock /\ fault' = fault
  BY DEF Method, memory
<1>2. Calls' /\ threads' \in [Thread -> Call]
  <2>1. objects'[o].state = "held"
    BY <1>1 DEF Begin
  <2> QED BY <1>1, <2>1, BeginCalls
<1> QED BY <1>1, <1>2, MemoryKept, Conclude DEF IInv, TypeOK

(* The object is gone, or dies when it gets the lock.                      *)
LEMMA ReleaseStep ==
  ASSUME IInv, NEW t \in Thread, NEW o \in Object, Release(t, o)
  PROVE  IInv'
<1>1. /\ objects[o].state = "held" /\ \A u \in Thread : o \notin {threads[u].self, threads[u].source}
      /\ parent' = parent /\ controllers' = controllers /\ lock' = lock /\ fault' = fault
  BY DEF Release
<1>2. /\ TypeOK /\ Calls /\ GoneAreDetached /\ Trees(parent, objects, controllers)
      /\ parent \in [Address -> Address \cup {"free", "top"}]
      /\ ObjectsTyped(objects) /\ ControllersTyped(controllers) /\ Typed(objects, controllers)
  BY Typing DEF IInv
<1>3. CASE ~Attached(o) /\ objects' = [objects EXCEPT ![o] = Gone] /\ UNCHANGED threads
  <2>1. /\ \A x \in Object : objects'[x] = IF x = o THEN Gone ELSE objects[x]
        /\ ObjectsTyped(objects')
    BY <1>2, <1>3, GoneParts DEF ObjectsTyped
  <2>2. Loses(objects, objects', {o})
    BY <2>1, GoneParts DEF Loses
  <2>3. controllers[o].owner = None
    BY <1>2, <1>3, NoneAssumption DEF Trees, Owned, Attached
  <2>4. Trees(parent, objects', controllers)
    <3>1. {o} \in SUBSET Object /\ \A x \in {o} : controllers[x].owner = None
      BY <2>3
    <3> QED BY <1>2, <2>2, <3>1, LoseTrees
  <2>5. GoneAreDetached'
    BY <1>2, <2>1, GoneParts DEF GoneAreDetached
  <2>6. \A u \in Thread : \A x \in {threads[u].self, threads[u].source} \ {None} :
          objects'[x] = objects[x]
    <3> TAKE u \in Thread
    <3> TAKE x \in {threads[u].self, threads[u].source} \ {None}
    <3>1. x \in Object
      BY <1>2, UsedAreThere
    <3> QED BY <1>1, <2>1, <3>1
  <2>7. Calls'
    BY <1>1, <1>2, <1>3, <2>6, CallsKept
  <2> QED BY <1>1, <1>2, <1>3, <2>1, <2>4, <2>5, <2>7, Conclude DEF TypeOK
<1>4. CASE Begin(t, o) /\ objects' = [objects EXCEPT ![o].state = "dying"]
  <2>1. /\ \A x \in Object : x # o => objects'[x] = objects[x]
        /\ objects'[o].state = "dying" /\ objects'[o].controller = objects[o].controller
        /\ objects'[o].value = objects[o].value /\ objects'[o].mode = objects[o].mode
        /\ ObjectsTyped(objects')
    BY <1>2, <1>4 DEF ObjectsTyped, ObjectState
  <2>2. Loses(objects, objects', {})
    BY <2>1 DEF Loses
  <2>3. Trees(parent, objects', controllers)
    <3>1. {} \in SUBSET Object /\ \A x \in {} : controllers[x].owner = None
      OBVIOUS
    <3> QED BY <1>2, <2>2, <3>1, LoseTrees
  <2>4. GoneAreDetached'
    BY <1>2, <2>1 DEF GoneAreDetached
  <2>5. Calls' /\ threads' \in [Thread -> Call]
    BY <1>1, <1>4, <2>1, BeginCalls
  <2> QED BY <1>1, <1>2, <2>1, <2>3, <2>4, <2>5, Conclude DEF TypeOK
<1> QED BY <1>3, <1>4 DEF Release

LEMMA UseDetachedStep ==
  ASSUME IInv, NEW t \in Thread, UseDetached(t)
  PROVE  IInv'
<1>1. /\ UNCHANGED memory /\ objects' = objects /\ lock' = lock /\ threads' = threads
      /\ fault' = "detached object"
  BY DEF UseDetached, memory
<1>2. Calls'
  BY <1>1, CallsKept DEF IInv
<1> QED BY <1>1, <1>2, MemoryKept, Conclude DEF IInv, TypeOK

LEMMA UseStep ==
  ASSUME IInv, NEW t \in Thread, Use(t)
  PROVE  IInv'
<1>1. /\ UNCHANGED memory /\ objects' = objects /\ lock' = lock /\ Return(t) /\ fault' = fault
  BY DEF Use, Works, memory
<1>2. Calls' /\ threads' \in [Thread -> Call]
  BY <1>1, CallsKept, Returned DEF IInv
<1> QED BY <1>1, <1>2, MemoryKept, Conclude DEF IInv, TypeOK


(* What a call that returns leaves of the types.                           *)
LEMMA ReturnTyped ==
  ASSUME TypeOK, NEW t \in Thread, NEW state, Works(t, state)
  PROVE  /\ Return(t) /\ lock' = lock /\ lock' \in [Object -> Thread \cup {None}]
         /\ threads' \in [Thread -> Call] /\ threads' # threads
<1>1. Return(t) /\ lock' = lock /\ threads[t].at = "lock"
  BY DEF Works, Enter
<1>2. threads'[t] = Idle
  BY <1>1 DEF Return, TypeOK
<1>3. Idle.at = "none"
  BY DEF Idle
<1> QED BY <1>1, <1>2, <1>3, Returned DEF TypeOK

(* There is an object for the value, or a new one is made and known.       *)
LEMMA GetStep ==
  ASSUME IInv, NEW t \in Thread, Get(t)
  PROVE  IInv'
<1>1. Works(t, "held") /\ parent' = parent
  BY DEF Get
<1> DEFINE s == threads[t].self
           c == threads[t].controller
           v == objects[s].value
<1>2. /\ s \in Object /\ c \in Object /\ Self(t) = objects[s] /\ Own(t) = controllers[c]
      /\ objects[s].controller = c /\ v \in Address
  BY <1>1, WorksFacts
<1>3. /\ Return(t) /\ lock' = lock /\ lock' \in [Object -> Thread \cup {None}]
      /\ threads' \in [Thread -> Call]
  BY <1>1, ReturnTyped DEF IInv
<1>4. /\ parent \in [Address -> Address \cup {"free", "top"}] /\ Typed(objects, controllers)
      /\ ControllersTyped(controllers) /\ Trees(parent, objects, controllers) /\ TypeOK /\ Calls
  BY Typing DEF IInv
<1>5. PICK a \in Children(parent, Self(t).value) :
       \/ /\ LET o == Own(t).references[a] IN
             fault' = IF objects[o].state = "held" THEN None ELSE "freed object"
          /\ UNCHANGED <<objects, controllers>>
       \/ /\ a \notin DOMAIN Own(t).references
          /\ \E o \in Object :
               /\ Unused(o)
               /\ objects' = [objects EXCEPT ![o] = New("reference", a, threads[t].controller)]
               /\ controllers' = WithOwn(t, WithReference(Own(t), a, o, Self(t).value))
          /\ UNCHANGED fault
  BY DEF Get
<1>6. CASE /\ LET o == Own(t).references[a] IN
              fault' = IF objects[o].state = "held" THEN None ELSE "freed object"
           /\ UNCHANGED <<objects, controllers>>
  <2>1. UNCHANGED memory /\ objects' = objects
    BY <1>1, <1>6 DEF memory
  <2>2. Calls'
    BY <1>3, <1>4, <2>1, CallsKept
  <2>3. fault' \in {None, "freed object"}
    BY <1>6
  <2> QED BY <1>3, <2>1, <2>2, <2>3, MemoryKept, Conclude
<1>7. ASSUME a \notin DOMAIN Own(t).references, NEW o \in Object, Unused(o),
             objects' = [objects EXCEPT ![o] = New("reference", a, threads[t].controller)],
             controllers' = WithOwn(t, WithReference(Own(t), a, o, Self(t).value)),
             fault' = fault
      PROVE  IInv'
  <2>1. a \in Children(parent, v) /\ a \in Address /\ a \notin DOMAIN controllers[c].references
    BY <1>2, <1>5, <1>7 DEF Children
  <2>2. /\ ObjectsTyped(objects') /\ GoneAreDetached' /\ Calls'
        /\ Gains(objects, objects', o, New("reference", a, c))
    <3> DEFINE new == New("reference", a, c)
    <3>1. new \in ObjectState /\ new.state = "held" /\ new.value # None /\ new.controller # None
      BY <1>2, <2>1, NewParts
    <3>2. objects' = [objects EXCEPT ![o] = new]
      BY <1>7
    <3> HIDE DEF new
    <3>3. ObjectsTyped(objects') /\ GoneAreDetached' /\ Calls' /\ Gains(objects, objects', o, new)
      BY <1>3, <1>7, <3>1, <3>2, NewObject
    <3> QED BY <3>3 DEF new
  <2>3. controllers' = [controllers EXCEPT ![c] = WithReference(controllers[c], a, o, v)]
    BY <1>2, <1>7 DEF WithOwn
  <2>4. \A x \in Object :
          controllers'[x] = IF x = c THEN WithReference(controllers[c], a, o, v) ELSE controllers[x]
    BY <1>4, <2>3 DEF ControllersTyped
  <2>5. ControllersTyped(controllers')
    <3>1. IsController(WithReference(controllers[c], a, o, v))
      BY <1>2, <1>4, <2>1, WithReferenceTyped DEF ControllersTyped
    <3>2. DOMAIN controllers' = Object
      BY <1>4, <2>3 DEF ControllersTyped
    <3> QED BY <1>4, <2>4, <3>1, <3>2 DEF ControllersTyped
  <2>6. objects[o].controller = None /\ \A x \in Object : o \notin AllObjects(controllers[x])
    BY <1>7, UnusedParts
  <2> HIDE DEF s, c, v
  <2>7. Trees(parent, objects', controllers')
    <3>1. objects[s].value = v
      BY DEF v
    <3> QED BY <1>2, <1>4, <2>1, <2>2, <2>4, <2>6, <3>1, NewReferenceTrees
  <2> QED BY <1>1, <1>3, <1>4, <1>7, <2>2, <2>5, <2>7, Conclude DEF TypeOK
<1> QED BY <1>5, <1>6, <1>7

(* The thread's controller loses references.                               *)
LEMMA OwnPruned ==
  ASSUME IInv, NEW t \in Thread, NEW c \in Object, threads[t].controller = c,
         NEW S, NEW D, controllers' = WithOwn(t, Without(Own(t), S, D))
  PROVE  ControllersTyped(controllers') /\ Prunes(controllers, controllers', c, S, D)
<1>1. ControllersTyped(controllers)
  BY Typing DEF IInv
<1>2. controllers' = [controllers EXCEPT ![c] = Without(controllers[c], S, D)]
  BY DEF WithOwn, Own
<1>3. IsController(Without(controllers[c], S, D))
  BY <1>1, WithoutTyped DEF ControllersTyped
<1>4. ControllersTyped(controllers')
  BY <1>1, <1>2, <1>3 DEF ControllersTyped
<1>5. Prunes(controllers, controllers', c, S, D)
  <2>1. DOMAIN controllers = Object /\ \A x \in Object : IsController(controllers[x])
    BY <1>1 DEF ControllersTyped
  <2>2. Prunes(controllers, [controllers EXCEPT ![c] = Without(controllers[c], S, D)], c, S, D)
    BY <2>1, WithoutPrunes
  <2> QED BY <1>2, <2>2
<1> QED BY <1>4, <1>5

LEMMA FreedTyped ==
  ASSUME TypeOK, NEW S \in SUBSET Address, parent' = Freed(parent, S)
  PROVE  parent' \in [Address -> Address \cup {"free", "top"}]
BY FreedParts DEF TypeOK

(* A value is removed, with the references to it and to what is below.     *)
LEMMA RemoveMemory ==
  ASSUME IInv, NEW t \in Thread, threads[t].at # "none", Attached(threads[t].self),
         NEW a \in Children(parent, Self(t).value),
         NEW S, S = RemovedWith(Own(t), {a}),
         objects' = Detached(ObjectsOf(Own(t), S)),
         controllers' = WithOwn(t, Without(Own(t), S, S)),
         parent' = Freed(parent, {a})
  PROVE  /\ parent' \in [Address -> Address \cup {"free", "top"}]
         /\ ControllersTyped(controllers')
         /\ Trees(parent', objects', controllers')
<1> DEFINE c == threads[t].controller
           v == objects[threads[t].self].value
<1>1. /\ c \in Object /\ Self(t).value = v /\ Own(t) = controllers[c]
      /\ v \in Address /\ v \in Below(parent, {controllers[c].owner}) /\ controllers[c].owner # None
  BY CallFacts
<1>2. /\ parent \in [Address -> Address \cup {"free", "top"}] /\ Typed(objects, controllers)
      /\ Trees(parent, objects, controllers) /\ TypeOK /\ ObjectsTyped(objects)
  BY Typing DEF IInv
<1>3. /\ {a} \in SUBSET Address
      /\ \A x \in {a} : x \in Below(parent, {controllers[c].owner}) /\ parent[x] \in Address
  BY <1>1, BelowParts DEF Children
<1>4. threads[t].controller = c /\ S = RemovedWith(controllers[c], {a})
  BY <1>1
<1> HIDE DEF c, v
<1>5. Loses(objects, objects', ObjectsOf(controllers[c], S))
  BY <1>1, <1>2, DetachedParts
<1>6. ControllersTyped(controllers') /\ Prunes(controllers, controllers', c, S, S)
  BY <1>1, <1>4, OwnPruned
<1>7. Trees(parent', objects', controllers')
  BY <1>1, <1>2, <1>3, <1>4, <1>5, <1>6, RemoveTrees
<1>8. parent' \in [Address -> Address \cup {"free", "top"}]
  BY <1>2, <1>3, FreedTyped
<1> QED BY <1>6, <1>7, <1>8

LEMMA RemoveStep ==
  ASSUME IInv, NEW t \in Thread, Remove(t)
  PROVE  IInv'
<1>1. Works(t, "held")
  BY DEF Remove
<1>2. threads[t].at # "none" /\ Attached(threads[t].self)
  BY <1>1 DEF Works, Enter
<1>3. /\ Return(t) /\ lock' = lock /\ lock' \in [Object -> Thread \cup {None}]
      /\ threads' \in [Thread -> Call]
  BY <1>1, ReturnTyped DEF IInv
<1>4. PICK a \in Children(parent, Self(t).value) :
       LET S == RemovedWith(Own(t), {a}) IN
       /\ Notify(ObjectsOf(Own(t), S))
       /\ controllers' = WithOwn(t, Without(Own(t), S, S))
       /\ parent' = Freed(parent, {a})
  BY DEF Remove
<1> DEFINE S == RemovedWith(Own(t), {a})
<1>5. /\ objects' = Detached(ObjectsOf(Own(t), S)) /\ S = RemovedWith(Own(t), {a})
      /\ controllers' = WithOwn(t, Without(Own(t), S, S))
      /\ parent' = Freed(parent, {a}) /\ fault' \in {None, "freed object"}
  BY <1>4 DEF Notify
<1> HIDE DEF S
<1>6. ObjectsTyped(objects') /\ GoneAreDetached' /\ Calls'
  BY <1>3, <1>5, DetachObjects
<1>7. /\ parent' \in [Address -> Address \cup {"free", "top"}]
      /\ ControllersTyped(controllers') /\ Trees(parent', objects', controllers')
  BY <1>2, <1>5, RemoveMemory
<1> QED BY <1>3, <1>5, <1>6, <1>7, Conclude

LEMMA ClearStep ==
  ASSUME IInv, NEW t \in Thread, Clear(t)
  PROVE  IInv'
<1>1. Works(t, "held")
  BY DEF Clear
<1> DEFINE s == threads[t].self
           c == threads[t].controller
           v == objects[s].value
           S == Dependents(controllers[c], v)
<1>2. /\ s \in Object /\ c \in Object /\ Self(t) = objects[s] /\ Own(t) = controllers[c]
      /\ v \in Address /\ v \in Below(parent, {controllers[c].owner}) /\ controllers[c].owner # None
  BY <1>1, WorksFacts
<1>3. /\ Return(t) /\ lock' = lock /\ lock' \in [Object -> Thread \cup {None}]
      /\ threads' \in [Thread -> Call]
  BY <1>1, ReturnTyped DEF IInv
<1>4. /\ parent \in [Address -> Address \cup {"free", "top"}] /\ Typed(objects, controllers)
      /\ Trees(parent, objects, controllers) /\ TypeOK
  BY Typing DEF IInv
<1>5. /\ NotifyAndUse(ObjectsOf(Own(t), S), threads[t].self)
      /\ controllers' = WithOwn(t, Without(Own(t), S, S \cup {v}))
      /\ parent' = Freed(parent, Children(parent, v))
  BY <1>2 DEF Clear
<1>6. /\ objects' = Detached(ObjectsOf(controllers[c], S))
      /\ fault' \in {None, "freed object", "detached object"}
  BY <1>2, <1>5 DEF NotifyAndUse
<1>7. Children(parent, v) \in SUBSET Address
  BY DEF Children
<1>8. S = Dependents(controllers[c], v) /\ threads[t].controller = c
  OBVIOUS
<1> HIDE DEF s, c, v, S
<1>9. /\ ObjectsTyped(objects') /\ GoneAreDetached' /\ Calls'
      /\ Loses(objects, objects', ObjectsOf(controllers[c], S))
  BY <1>3, <1>6, DetachObjects
<1>10. ControllersTyped(controllers') /\ Prunes(controllers, controllers', c, S, S \cup {v})
  BY <1>2, <1>5, <1>8, OwnPruned
<1>11. Trees(parent', objects', controllers')
  BY <1>2, <1>4, <1>5, <1>8, <1>9, <1>10, ClearTrees
<1>12. parent' \in [Address -> Address \cup {"free", "top"}]
  BY <1>4, <1>5, <1>7, FreedTyped
<1> QED BY <1>3, <1>6, <1>9, <1>10, <1>11, <1>12, Conclude

(* A new tree with an object that owns it.                                 *)
LEMMA CopyStep ==
  ASSUME IInv, NEW t \in Thread, Copy(t)
  PROVE  IInv'
<1>1. Works(t, "held") /\ fault' = fault
  BY DEF Copy
<1> DEFINE s == threads[t].self
           v == objects[s].value
<1>2. Self(t) = objects[s] /\ v \in Address /\ parent[v] # "free"
  BY <1>1, WorksFacts
<1>3. /\ Return(t) /\ lock' = lock /\ lock' \in [Object -> Thread \cup {None}]
      /\ threads' \in [Thread -> Call]
  BY <1>1, ReturnTyped DEF IInv
<1>4. /\ parent \in [Address -> Address \cup {"free", "top"}] /\ Typed(objects, controllers)
      /\ ControllersTyped(controllers) /\ Trees(parent, objects, controllers) /\ TypeOK
      /\ Forest(parent)
  BY Typing DEF IInv, Trees
<1>5. PICK o \in Object, p \in DeepCopies(parent, v, "top"), a \in Free(parent) :
        /\ Unused(o) /\ parent' = p /\ p[a] = "top"
        /\ objects' = [objects EXCEPT ![o] = New("owner", a, o)]
        /\ controllers' = [controllers EXCEPT ![o] = [Empty EXCEPT !.owner = a]]
  BY <1>2 DEF Copy
<1>6. a \in Address /\ parent[a] = "free"
  BY DEF Free
<1> HIDE DEF s, v
<1>7. /\ Extends(parent, p)
      /\ \E b \in Address : /\ parent[b] = "free" /\ p[b] = "top"
           /\ \A x \in Address : parent[x] = "free" /\ x # b => p[x] # "top"
  <2>1. "top" \in Address \cup {"top"} /\ ("top" \in Address => parent["top"] # "free")
    BY NoneAssumption
  <2> QED BY <1>2, <1>4, <2>1, CopyExtends
<1>8. /\ parent' \in [Address -> Address \cup {"free", "top"}] /\ parent'[a] = "top"
      /\ \A x \in Address : parent[x] = "free" /\ parent'[x] = "top" => x = a
  BY <1>5, <1>6, <1>7 DEF Extends
<1>9. /\ ObjectsTyped(objects') /\ GoneAreDetached' /\ Calls'
      /\ Gains(objects, objects', o, New("owner", a, o))
  <2> DEFINE new == New("owner", a, o)
  <2>1. new \in ObjectState /\ new.state = "held" /\ new.value # None /\ new.controller # None
    BY <1>6, NewParts
  <2>2. objects' = [objects EXCEPT ![o] = new] /\ Unused(o)
    BY <1>5
  <2> HIDE DEF new
  <2>3. ObjectsTyped(objects') /\ GoneAreDetached' /\ Calls' /\ Gains(objects, objects', o, new)
    BY <1>3, <2>1, <2>2, NewObject
  <2> QED BY <2>3 DEF new
<1> DEFINE w == [Empty EXCEPT !.owner = a]
<1>10. IsController(w) /\ w.owner = a /\ w.references = NoReferences
  BY <1>6, EmptyParts
<1> HIDE DEF w
<1>11. /\ ControllersTyped(controllers') /\ controllers'[o] = w
       /\ \A x \in Object : x # o => controllers'[x] = controllers[x]
  BY <1>4, <1>5, <1>10 DEF ControllersTyped, w
<1>12. /\ objects[o].controller = None
       /\ \A x \in Object : o \notin AllObjects(controllers[x])
  BY <1>5, UnusedParts
<1>13. controllers'[o].owner = a /\ controllers'[o].references = NoReferences
  BY <1>10, <1>11
<1>14. Trees(parent', objects', controllers')
  <2>1. Extends(parent, parent')
    BY <1>5, <1>7
  <2> QED BY <1>4, <1>6, <1>8, <1>9, <1>11, <1>12, <1>13, <2>1, NewTopTrees
<1> QED BY <1>1, <1>3, <1>4, <1>8, <1>9, <1>11, <1>14, Conclude DEF TypeOK

(* A call goes on to wait for the lock of the source: it has the lock of   *)
(* its own controller, that no other call had.                             *)
LEMMA ReachCalls ==
  ASSUME IInv, NEW t \in Thread, Enter(t), NEW source \in Object,
         NEW at \in {"dictionary", "list"},
         objects[threads[t].self].state = "held", objects[source].state = "held",
         \A x \in Object : /\ objects'[x].state = objects[x].state
                           /\ objects'[x].controller \in {None, objects[x].controller},
         objects'[source].controller \in Object,
         threads' = [threads EXCEPT ![t].at = at, ![t].source = source,
                                    ![t].from = objects'[source].controller],
         lock' = [lock EXCEPT ![threads[t].controller] = t]
  PROVE  Calls' /\ threads' \in [Thread -> Call] /\ lock' \in [Object -> Thread \cup {None}]
<1> DEFINE s == threads[t].self
           c == threads[t].controller
           f == objects'[source].controller
<1>1. /\ threads[t].at = "lock" /\ lock[c] = None /\ threads \in [Thread -> Call]
      /\ lock \in [Object -> Thread \cup {None}] /\ Calls /\ TypeOK
  BY DEF Enter, IInv, TypeOK
<1>2. s \in Object /\ c \in Object /\ s # None /\ c # None /\ source # None /\ f # None /\ t # None
  BY <1>1, NoneAssumption DEF Calls, CallKnown, Call
<1>3. /\ threads' \in [Thread -> Call]
      /\ threads'[t].at = at /\ threads'[t].self = s /\ threads'[t].controller = c
      /\ threads'[t].source = source /\ threads'[t].from = f
      /\ \A u \in Thread : u # t => threads'[u] = threads[u]
  <2> DEFINE call == [threads[t] EXCEPT !.at = at, !.source = source, !.from = f]
  <2>1. f \in Object \cup {None} /\ threads[t] \in Call
    BY <1>1
  <2>2. threads' = [threads EXCEPT ![t] = call]
    BY <1>1
  <2> HIDE DEF f
  <2>3. /\ call \in Call /\ call.at = at /\ call.self = s /\ call.controller = c
        /\ call.source = source /\ call.from = f
    BY <2>1 DEF Call
  <2> HIDE DEF call
  <2>4. threads' \in [Thread -> Call]
    BY <1>1, <2>2, <2>3
  <2>5. threads'[t] = call /\ \A u \in Thread : u # t => threads'[u] = threads[u]
    BY <1>1, <2>2
  <2> QED BY <2>3, <2>4, <2>5
<1>4. lock' \in [Object -> Thread \cup {None}] /\ lock'[c] = t /\ \A x \in Object : x # c => lock'[x] = lock[x]
  BY <1>1, <1>2
<1>5. \A u \in Thread : \A x \in {threads[u].self, threads[u].source} \ {None} :
        /\ objects'[x].state = objects[x].state
        /\ objects'[x].controller \in {None, objects[x].controller}
  <2> TAKE u \in Thread
  <2> TAKE x \in {threads[u].self, threads[u].source} \ {None}
  <2>1. x \in Object
    BY <1>1, UsedAreThere
  <2> QED BY <2>1
<1> HIDE DEF s, c, f
<1>6. ASSUME NEW u \in Thread, u # t PROVE CallKnown(u)'
  <2>1. CallKnown(u) /\ threads'[u] = threads[u] /\ threads[u] \in Call
    BY <1>1, <1>3, <1>6 DEF Calls
  <2>2. CASE threads[u].at = "none"
    BY <2>1, <2>2 DEF CallKnown
  <2>3. CASE threads[u].at = "lock"
    <3>1. /\ objects'[threads[u].self].state = objects[threads[u].self].state
          /\ objects'[threads[u].self].controller \in {None, objects[threads[u].self].controller}
      BY <1>5, <2>1, <2>3 DEF CallKnown
    <3> QED BY <2>1, <2>3, <3>1 DEF CallKnown, Attached
  <2>4. CASE threads[u].at \notin {"none", "lock"}
    <3>1. /\ objects'[threads[u].self].state = objects[threads[u].self].state
          /\ objects'[threads[u].self].controller \in {None, objects[threads[u].self].controller}
          /\ objects'[threads[u].source].state = objects[threads[u].source].state
          /\ objects'[threads[u].source].controller \in {None, objects[threads[u].source].controller}
      BY <1>5, <2>1, <2>4 DEF CallKnown
    <3>2. lock[threads[u].controller] = u /\ u # None /\ threads[u].controller # None
      BY <2>1, <2>4, NoneAssumption DEF CallKnown
    <3>3. lock'[threads[u].controller] = u
      <4>1. threads[u].controller \in Object
        BY <2>1, <3>2 DEF Call
      <4>2. threads[u].controller # c
        BY <1>1, <3>2 DEF c
      <4> QED BY <1>4, <3>2, <4>1, <4>2
    <3> QED BY <2>1, <2>4, <3>1, <3>3 DEF CallKnown, Attached
  <2> QED BY <2>2, <2>3, <2>4
<1>7. CallKnown(t)'
  <2>1. CallKnown(t)
    BY <1>1 DEF Calls
  <2>2. /\ objects'[s].state = "held" /\ objects'[source].state = "held"
        /\ objects'[s].controller \in {None, objects[s].controller}
    BY <1>2 DEF s
  <2>3. objects[s].controller # None => objects[s].controller = c
    BY <1>1, <2>1 DEF CallKnown, Attached, s, c
  <2>4. objects'[source].controller = f
    BY DEF f
  <2> QED BY <1>2, <1>3, <1>4, <2>2, <2>3, <2>4 DEF CallKnown, Attached
<1>8. DyingAlone'
  <2> SUFFICES ASSUME NEW u \in Thread, NEW w \in Thread, threads'[u].self # None,
                      objects'[threads'[u].self].state = "dying", w # u
               PROVE  threads'[u].self \notin {threads'[w].self, threads'[w].source}
    BY DEF DyingAlone
  <2>1. threads'[u].self = threads[u].self /\ threads[u].self # None
    BY <1>3 DEF s
  <2>2. objects[threads[u].self].state = "dying"
    BY <1>5, <2>1
  <2>3. threads[u].self \notin {threads[w].self, threads[w].source}
    BY <1>1, <2>1, <2>2 DEF Calls, DyingAlone
  <2>4. threads[u].self # source
    BY <2>2
  <2> QED BY <1>3, <2>1, <2>3, <2>4 DEF s
<1>9. \A u \in Thread : CallKnown(u)'
  BY <1>6, <1>7
<1> QED BY <1>3, <1>4, <1>8, <1>9 DEF Calls

(* The value at the key goes, and the call waits for the source.           *)
LEMMA SetStep ==
  ASSUME IInv, NEW t \in Thread, NEW source \in Object, Set(t, source)
  PROVE  IInv'
<1>1. /\ Enter(t) /\ threads[t].at # "none" /\ Attached(threads[t].self)
      /\ objects[threads[t].self].state = "held" /\ objects[source].state = "held"
      /\ objects[source].controller # None
  BY DEF Set, Enter, Self, Attached
<1>2. /\ TypeOK /\ GoneAreDetached /\ ObjectsTyped(objects) /\ Typed(objects, controllers)
      /\ lock \in [Object -> Thread \cup {None}] /\ threads \in [Thread -> Call]
      /\ fault \in {None, "detached object", "freed object", "no value"}
  BY Typing DEF IInv, TypeOK
<1>3. ASSUME UNCHANGED memory, NEW at \in {"dictionary", "list"}, ReachForSource(t, at, source)
      PROVE  IInv'
  <2>1. objects' = objects /\ objects'[source].controller \in Object
    BY <1>1, <1>2, <1>3 DEF memory, Typed
  <2>2. objects'[source].controller # None
    BY <2>1, NoneAssumption
  <2>3. /\ fault' = None
        /\ threads' = [threads EXCEPT ![t].at = at, ![t].source = source,
                                      ![t].from = objects'[source].controller]
        /\ lock' = [lock EXCEPT ![threads[t].controller] = t]
    BY <1>3, <2>2 DEF ReachForSource
  <2>4. Calls' /\ threads' \in [Thread -> Call] /\ lock' \in [Object -> Thread \cup {None}]
    BY <1>1, <2>1, <2>3, ReachCalls
  <2> QED BY <1>3, <2>3, <2>4, MemoryKept, Conclude
<1>4. ASSUME NEW a \in Children(parent, Self(t).value), NEW S, S = RemovedWith(Own(t), {a}),
             NEW O, O = ObjectsOf(Own(t), S),
             objects' = Detached(O), controllers' = WithOwn(t, Without(Own(t), S, S)),
             parent' = Freed(parent, {a}),
             IF \E o \in O : objects[o].state = "gone"
             THEN fault' = "freed object" /\ UNCHANGED <<lock, threads>>
             ELSE ReachForSource(t, "dictionary", source)
      PROVE  IInv'
  <2>1. /\ parent' \in [Address -> Address \cup {"free", "top"}]
        /\ ControllersTyped(controllers') /\ Trees(parent', objects', controllers')
    BY <1>1, <1>4, RemoveMemory
  <2>2. /\ ObjectsTyped(objects')
        /\ \A o \in Object : /\ objects'[o].state = objects[o].state
                             /\ objects'[o].controller \in {None, objects[o].controller}
    BY <1>2, <1>4, DetachedParts
  <2>3. GoneAreDetached'
    BY <1>2, <2>2 DEF GoneAreDetached
  <2>4. CASE lock' = lock /\ threads' = threads /\ fault' \in {"freed object", "no value"}
    <3>1. Calls'
      BY <1>4, <2>4, DetachObjects
    <3> QED BY <1>2, <2>1, <2>2, <2>3, <2>4, <3>1, Conclude
  <2>5. CASE /\ objects'[source].controller # None /\ fault' = None
             /\ threads' = [threads EXCEPT ![t].at = "dictionary", ![t].source = source,
                                           ![t].from = objects'[source].controller]
             /\ lock' = [lock EXCEPT ![threads[t].controller] = t]
    <3>1. objects'[source].controller \in Object
      BY <1>2, <2>2, <2>5 DEF Typed
    <3>2. Calls' /\ threads' \in [Thread -> Call] /\ lock' \in [Object -> Thread \cup {None}]
      BY <1>1, <2>2, <2>5, <3>1, ReachCalls
    <3> QED BY <2>1, <2>2, <2>3, <2>5, <3>2, Conclude
  <2>6. \/ lock' = lock /\ threads' = threads /\ fault' \in {"freed object", "no value"}
        \/ /\ objects'[source].controller # None /\ fault' = None
           /\ threads' = [threads EXCEPT ![t].at = "dictionary", ![t].source = source,
                                         ![t].from = objects'[source].controller]
           /\ lock' = [lock EXCEPT ![threads[t].controller] = t]
    BY <1>4 DEF ReachForSource
  <2> QED BY <2>4, <2>5, <2>6
<1>5. \/ UNCHANGED memory /\ \E at \in {"dictionary", "list"} : ReachForSource(t, at, source)
      \/ \E a \in Children(parent, Self(t).value) :
          LET S == RemovedWith(Own(t), {a})
              O == ObjectsOf(Own(t), S) IN
          /\ objects' = Detached(O)
          /\ controllers' = WithOwn(t, Without(Own(t), S, S))
          /\ parent' = Freed(parent, {a})
          /\ IF \E o \in O : objects[o].state = "gone"
             THEN fault' = "freed object" /\ UNCHANGED <<lock, threads>>
             ELSE ReachForSource(t, "dictionary", source)
  BY DEF Set
<1> QED BY <1>3, <1>4, <1>5

(* The destructor of the object of a call: no other call uses the object.  *)
LEMMA DeleteStep ==
  ASSUME IInv, NEW t \in Thread, Delete(t)
  PROVE  IInv'
<1>1. Works(t, "dying")
  BY DEF Delete
<1> DEFINE s == threads[t].self
           c == threads[t].controller
           v == objects[s].value
<1>2. /\ s \in Object /\ c \in Object /\ Self(t) = objects[s] /\ Own(t) = controllers[c]
      /\ objects[s].state = "dying" /\ controllers[c].owner # None
      /\ \/ objects[s].mode = "owner" /\ c = s /\ controllers[c].owner = v
         \/ /\ objects[s].mode = "reference" /\ v \in DOMAIN controllers[c].references
            /\ controllers[c].references[v] = s
  BY <1>1, WorksFacts
<1>3. v \in Address
  BY <1>1, WorksFacts
<1>4. /\ Return(t) /\ lock' = lock /\ lock' \in [Object -> Thread \cup {None}]
      /\ threads' \in [Thread -> Call] /\ threads' # threads
  BY <1>1, ReturnTyped DEF IInv
<1>5. /\ parent \in [Address -> Address \cup {"free", "top"}] /\ Typed(objects, controllers)
      /\ ControllersTyped(controllers) /\ Trees(parent, objects, controllers) /\ TypeOK
      /\ Calls /\ ObjectsTyped(objects) /\ GoneAreDetached
      /\ fault \in {None, "detached object", "freed object", "no value"}
  BY Typing DEF IInv, TypeOK
<1>6. \A u \in Thread : u # t => s \notin {threads[u].self, threads[u].source}
  BY <1>2, <1>5, NoneAssumption DEF Calls, DyingAlone
<1>7. threads[t].controller = c /\ threads[t].self = s /\ objects[s].value = v
  OBVIOUS
<1> HIDE DEF s, c, v
<1>8. ASSUME objects[s].mode = "owner", c = s, controllers[c].owner = v,
             RemoveOwner(t),
             objects' = [Detached(AllObjects(Own(t))) EXCEPT ![threads[t].self] = Gone],
             fault' \in {None, "freed object"}
      PROVE  IInv'
  <2> DEFINE A == AllObjects(controllers[c])
             ob == Detached(A)
  <2>1. /\ ObjectsTyped(ob) /\ Loses(objects, ob, A)
        /\ \A o \in Object : /\ ob[o].state = objects[o].state
                             /\ ob[o].controller \in {None, objects[o].controller}
    BY <1>5, DetachedParts
  <2>2. objects' = [ob EXCEPT ![s] = Gone]
    BY <1>2, <1>7, <1>8
  <2> HIDE DEF A, ob
  <2>3. ObjectsTyped(objects') /\ \A x \in Object : objects'[x] = IF x = s THEN Gone ELSE ob[x]
    BY <2>1, <2>2, GoneParts DEF ObjectsTyped
  <2>4. Loses(objects, objects', A \cup {c})
    BY <1>8, <2>1, <2>3, GoneParts DEF Loses
  <2>5. GoneAreDetached'
    BY <1>5, <2>1, <2>3, GoneParts DEF GoneAreDetached
  <2>6. Calls'
    <3>1. \A u \in Thread : u # t =>
            \A o \in {threads[u].self, threads[u].source} \ {None} :
                /\ objects'[o].state = objects[o].state
                /\ objects'[o].controller \in {None, objects[o].controller}
      <4> TAKE u \in Thread
      <4> HAVE u # t
      <4> TAKE o \in {threads[u].self, threads[u].source} \ {None}
      <4>1. o \in Object /\ o # s
        BY <1>5, <1>6, UsedAreThere
      <4> QED BY <2>1, <2>3, <4>1
    <3> QED BY <1>4, <1>5, <3>1, CallsKept
  <2>7. controllers' = [controllers EXCEPT ![c] = Empty] /\ parent' = Freed(parent, {controllers[c].owner})
    BY <1>2, <1>7, <1>8 DEF RemoveOwner, WithOwn
  <2>8. /\ ControllersTyped(controllers')
        /\ \A x \in Object : controllers'[x] = IF x = c THEN Empty ELSE controllers[x]
    BY <1>5, <2>7, EmptyParts DEF ControllersTyped
  <2>9. Trees(parent', objects', controllers')
    <3>1. Loses(objects, objects', AllObjects(controllers[c]) \cup {c})
      BY <2>4 DEF A
    <3> QED BY <1>2, <1>5, <2>7, <2>8, <3>1, DropTrees
  <2>10. parent' \in [Address -> Address \cup {"free", "top"}]
    <3>1. {controllers[c].owner} \in SUBSET Address
      BY <1>3, <1>8
    <3> QED BY <1>5, <2>7, <3>1, FreedTyped
  <2>11. fault' \in {None, "detached object", "freed object", "no value"}
    BY <1>8
  <2> QED BY <1>4, <2>3, <2>5, <2>6, <2>8, <2>9, <2>10, <2>11, Conclude
<1>9. ASSUME objects[s].mode = "reference", v \in DOMAIN controllers[c].references,
             controllers[c].references[v] = s,
             controllers' = WithOwn(t, Without(Own(t), {Self(t).value}, {})),
             objects' = [objects EXCEPT ![threads[t].self] = Gone],
             parent' = parent, fault' = fault
      PROVE  IInv'
  <2>1. ObjectsTyped(objects') /\ \A x \in Object : objects'[x] = IF x = s THEN Gone ELSE objects[x]
    BY <1>2, <1>5, <1>7, <1>9, GoneParts DEF ObjectsTyped
  <2>2. Loses(objects, objects', {s})
    BY <2>1, GoneParts DEF Loses
  <2>3. GoneAreDetached'
    BY <1>5, <2>1, GoneParts DEF GoneAreDetached
  <2>4. Calls'
    <3>1. \A u \in Thread : u # t =>
            \A o \in {threads[u].self, threads[u].source} \ {None} : objects'[o] = objects[o]
      <4> TAKE u \in Thread
      <4> HAVE u # t
      <4> TAKE o \in {threads[u].self, threads[u].source} \ {None}
      <4>1. o \in Object /\ o # s
        BY <1>5, <1>6, UsedAreThere
      <4> QED BY <2>1, <4>1
    <3> QED BY <1>4, <1>5, <3>1, CallsKept
  <2>5. ControllersTyped(controllers') /\ Prunes(controllers, controllers', c, {v}, {})
    <3>1. controllers' = WithOwn(t, Without(Own(t), {v}, {}))
      BY <1>2, <1>7, <1>9
    <3> QED BY <1>2, <1>7, <3>1, OwnPruned
  <2>6. Trees(parent', objects', controllers')
    <3>1. ObjectsOf(controllers[c], {v}) = {s}
      BY <1>9 DEF ObjectsOf
    <3>2. controllers[s].owner = None
      <4>1. s \in ObjectsOf(controllers[c], {v}) /\ IsController(controllers[c])
        BY <1>2, <1>5, <3>1 DEF Typed
      <4>2. c \in Object /\ Trees(parent, objects, controllers)
        BY <1>2, <1>5
      <4> QED BY <4>1, <4>2, OwnersAreOwners
    <3>3. {} \in SUBSET Address /\ {s} \in SUBSET Object /\ ({} # {} => controllers[c].owner # None)
      BY <1>2
    <3>4. \A a \in {} : a \in Below(parent, {controllers[c].owner}) /\ parent[a] \in Address
      OBVIOUS
    <3>5. \A o \in Object :
            /\ objects[o].controller = c /\ objects[o].mode = "reference"
            => /\ objects[o].value \in Below(parent, {}) => objects[o].value \in {v}
               /\ objects[o].value \notin {v} =>
                   \A y \in Address : y # controllers[c].owner /\ objects[o].value \in Below(parent, {y})
                                        => parent[y] \notin {}
      BY BelowNothing
    <3>6. ObjectsOf(controllers[c], {v}) \subseteq {s} /\ \A x \in {s} : controllers[x].owner = None
      BY <3>1, <3>2
    <3>7. Trees(Freed(parent, {}), objects', controllers')
      BY <1>2, <1>5, <2>2, <2>5, <3>3, <3>4, <3>5, <3>6, PruneTrees
    <3> QED BY <1>5, <1>9, <3>7, FreedNothing
  <2> QED BY <1>4, <1>5, <1>9, <2>1, <2>3, <2>4, <2>5, <2>6, Conclude
<1>10. \/ /\ objects[s].mode = "owner"
          /\ RemoveOwner(t)
          /\ objects' = [Detached(AllObjects(Own(t))) EXCEPT ![threads[t].self] = Gone]
          /\ fault' \in {None, "freed object"}
       \/ /\ objects[s].mode = "reference"
          /\ controllers' = WithOwn(t, Without(Own(t), {Self(t).value}, {}))
          /\ objects' = [objects EXCEPT ![threads[t].self] = Gone]
          /\ parent' = parent /\ fault' = fault
  BY <1>2 DEF Delete
<1> QED BY <1>2, <1>8, <1>9, <1>10

(* A call that waits for the lock of the source, that nobody has, has that *)
(* of its controller.                                                      *)
LEMMA FinishFacts ==
  ASSUME IInv, NEW t \in Thread, threads[t].from # None, lock[threads[t].from] = None
  PROVE  /\ threads[t].at \notin {"none", "lock"} /\ lock[threads[t].controller] = t
         /\ threads[t].self \in Object /\ threads[t].source \in Object
         /\ threads[t].controller \in Object /\ threads[t].from \in Object
         /\ threads[t].from # threads[t].controller
         /\ objects[threads[t].self].state = "held" /\ objects[threads[t].source].state = "held"
         /\ Attached(threads[t].self) => objects[threads[t].self].controller = threads[t].controller
         /\ Attached(threads[t].source) => objects[threads[t].source].controller = threads[t].from
<1>1. threads[t] \in Call /\ CallKnown(t) /\ t # None
  BY NoneAssumption DEF IInv, TypeOK, Calls
<1>2. threads[t].at \notin {"none", "lock"}
  BY <1>1 DEF CallKnown, Idle
<1> QED BY <1>1, <1>2 DEF CallKnown, Call

(* A memory in which what was inside a value is where it was.              *)
LEMMA BelowMore ==
  ASSUME NEW p, NEW q, NEW U \in SUBSET Address, \A a \in Address : p[a] \in Address => q[a] = p[a]
  PROVE  Below(p, U) \subseteq Below(q, U)
<1>1. /\ Below(q, U) \subseteq Address /\ U \cap Address \subseteq Below(q, U)
      /\ \A a \in Address : q[a] \in Below(q, U) => a \in Below(q, U)
  BY BelowParts
<1> DEFINE T == Below(q, U)
<1>2. /\ T \in SUBSET Address /\ U \subseteq T
      /\ \A a \in Address : p[a] \in T => a \in T
  BY <1>1
<1> HIDE DEF T
<1>3. Below(p, U) \subseteq T
  BY <1>2, BelowLeast
<1> QED BY <1>3 DEF T

(* The tree of the source is moved, with its objects detached.             *)
LEMMA DetachedSource ==
  ASSUME IInv, NEW t \in Thread, threads[t].from # None, lock[threads[t].from] = None,
         Attached(threads[t].self), Attached(threads[t].source),
         objects[threads[t].source].mode = "owner", NEW m \in CopiedOrDetached(t),
         NEW k, Handed(t, m, k)
  PROVE  /\ m.parent \in [Address -> Address \cup {"free", "top"}] /\ ControllersTyped(k)
         /\ Trees(m.parent, Detached(m.detached), k)
         /\ k[threads[t].controller].owner = Own(t).owner
         /\ \A a \in Address : parent[a] \in Address => m.parent[a] = parent[a]
<1> DEFINE p == m.parent
           ob == Detached(m.detached)
<1>0. /\ p = [parent EXCEPT ![objects[threads[t].source].value] = Self(t).value]
      /\ ob = Detached(AllObjects(controllers[threads[t].from]) \cup {threads[t].source})
      /\ k = [controllers EXCEPT ![threads[t].controller] = TakeFrom(Own(t), controllers[threads[t].from]),
                                 ![threads[t].from] = Empty]
  <2>1. /\ m.parent = [parent EXCEPT ![objects[threads[t].source].value] = Self(t).value]
        /\ m.own = TakeFrom(Own(t), controllers[threads[t].from]) /\ m.from = Empty
        /\ m.detached = AllObjects(controllers[threads[t].from]) \cup {threads[t].source}
    BY DEF CopiedOrDetached
  <2>2. k = [controllers EXCEPT ![threads[t].controller] = m.own, ![threads[t].from] = m.from]
    BY DEF Handed
  <2> QED BY <2>1, <2>2
<1> HIDE DEF p, ob
<1> DEFINE c == threads[t].controller
           d == threads[t].from
           to == Self(t).value
           s == threads[t].source
<1>1. c \in Object /\ d \in Object /\ d # c /\ s \in Object /\ threads[t].at # "none"
  BY FinishFacts
<1>2. /\ Own(t) = controllers[c] /\ controllers[c].owner # None
      /\ to \in Below(parent, {controllers[c].owner}) /\ to \in Address
  BY <1>1, CallFacts DEF Self
<1>3. /\ s = d /\ controllers[d].owner = objects[s].value /\ controllers[d].owner # None
      /\ controllers[d].owner \in Address /\ parent[controllers[d].owner] = "top"
  <2>1. objects[s].controller = d /\ objects[s].controller # None
    BY <1>1, FinishFacts, NoneAssumption
  <2> HIDE DEF s, d
  <2>2. LET e == objects[s].controller IN
        /\ controllers[e].owner \in Address /\ controllers[e].owner # None
        /\ parent[controllers[e].owner] = "top"
        /\ \/ objects[s].mode = "owner" /\ e = s /\ controllers[e].owner = objects[s].value
           \/ objects[s].mode = "reference"
    BY <1>1, <2>1, AttachedFacts
  <2>3. objects[s].mode = "owner"
    BY DEF s
  <2> QED BY <2>1, <2>2, <2>3
<1>4. /\ parent \in [Address -> Address \cup {"free", "top"}] /\ Typed(objects, controllers)
      /\ ControllersTyped(controllers) /\ Trees(parent, objects, controllers)
      /\ ObjectsTyped(objects)
  BY Typing DEF IInv
<1> DEFINE w == TakeFrom(controllers[c], controllers[d])
<1>5. /\ IsController(w) /\ w.owner = controllers[c].owner
      /\ DOMAIN w.references = DOMAIN controllers[c].references \cup DOMAIN controllers[d].references
      /\ \A a \in DOMAIN w.references :
           w.references[a] = IF a \in DOMAIN controllers[c].references THEN controllers[c].references[a]
                                                               ELSE controllers[d].references[a]
      /\ controllers[c].dependencies \subseteq w.dependencies
  <2>1. IsController(controllers[c]) /\ IsController(controllers[d])
    BY <1>1, <1>4 DEF ControllersTyped
  <2> HIDE DEF c, d
  <2> QED BY <2>1, TakeFromParts
<1>6. k = [controllers EXCEPT ![c] = w, ![d] = Empty]
  BY <1>0, <1>2
<1>7. p = [parent EXCEPT ![controllers[d].owner] = to]
  BY <1>0, <1>3
<1>8. ob = Detached(AllObjects(controllers[d]) \cup {d})
  BY <1>0, <1>3
<1> HIDE DEF c, d, to, s, w
<1>9. /\ k[c] = w /\ k[d] = Empty /\ \A x \in Object \ {c, d} : k[x] = controllers[x]
      /\ ControllersTyped(k)
  BY <1>1, <1>4, <1>5, <1>6, EmptyParts DEF ControllersTyped
<1>10. Loses(objects, ob, AllObjects(controllers[d]) \cup {d})
  BY <1>4, <1>8, DetachedParts
<1>11. Takes(controllers, k, c, d)
  BY <1>5, <1>9 DEF Takes
<1>12. Trees(p, ob, k)
  <2>1. to \in Below(parent, {controllers[c].owner}) /\ controllers[c].owner # None
    BY <1>2
  <2>2. Moves(parent, p, controllers[d].owner, to)
    BY <1>7 DEF Moves
  <2> QED BY <1>1, <1>3, <1>4, <1>10, <1>11, <2>1, <2>2, MoveTrees
<1>13. /\ p \in [Address -> Address \cup {"free", "top"}]
       /\ \A a \in Address : parent[a] \in Address => p[a] = parent[a]
  BY <1>2, <1>3, <1>4, <1>7, NoneAssumption
<1> QED BY <1>2, <1>5, <1>9, <1>12, <1>13 DEF c, p, ob

(* The value of the source is copied.                                      *)
LEMMA CopiedSource ==
  ASSUME IInv, NEW t \in Thread, threads[t].from # None, lock[threads[t].from] = None,
         Attached(threads[t].self), Attached(threads[t].source),
         NEW p \in DeepCopies(parent, objects[threads[t].source].value, Self(t).value)
  PROVE  /\ p \in [Address -> Address \cup {"free", "top"}] /\ Trees(p, objects, controllers)
         /\ \A a \in Address : parent[a] \in Address => p[a] = parent[a]
<1> DEFINE s == threads[t].source
           v == objects[s].value
           to == Self(t).value
<1>1. s \in Object /\ threads[t].at # "none" /\ objects[s].controller # None
  BY FinishFacts DEF Attached
<1>2. to \in Address /\ parent[to] # "free"
  BY <1>1, CallFacts DEF Self
<1>3. v \in Address /\ parent[v] # "free"
  <2> HIDE DEF s
  <2> QED BY <1>1, AttachedFacts
<1>4. /\ parent \in [Address -> Address \cup {"free", "top"}] /\ Typed(objects, controllers)
      /\ Trees(parent, objects, controllers) /\ Forest(parent)
  BY Typing DEF IInv, Trees
<1>5. p \in DeepCopies(parent, v, to)
  OBVIOUS
<1> HIDE DEF s, v, to
<1>6. /\ Extends(parent, p)
      /\ \E a \in Address : /\ parent[a] = "free" /\ p[a] = to
           /\ \A x \in Address : parent[x] = "free" /\ x # a => p[x] # "top"
  <2>1. to \in Address \cup {"top"} /\ (to \in Address => parent[to] # "free")
    BY <1>2
  <2> QED BY <1>3, <1>4, <1>5, <2>1, CopyExtends
<1>7. \A x \in Address : parent[x] = "free" => p[x] # "top"
  BY <1>2, <1>6, NoneAssumption
<1>8. Trees(p, objects, controllers)
  BY <1>4, <1>6, <1>7, ExtendsTrees
<1> QED BY <1>6, <1>8, NoneAssumption DEF Extends

(* Controllers that are the same.                                          *)
LEMMA SameTrees ==
  ASSUME NEW p, NEW ob, NEW k, Trees(p, ob, k), NEW k2, \A x \in Object : k2[x] = k[x],
         \A x \in Object : ob[x].controller \in Object \cup {None}
  PROVE  Trees(p, ob, k2)
<1>1. Forest(p) /\ Owned(p, ob, k) /\ InItsTree(p, ob, k) /\ DependsOnAll(p, ob, k) /\ OwnersNotReferred(ob, k)
  BY DEF Trees
<1>2. \A x \in Object : ob[x].controller # None => k2[ob[x].controller] = k[ob[x].controller]
  OBVIOUS
<1>3. Owned(p, ob, k2)
  BY <1>1 DEF Owned
<1>4. InItsTree(p, ob, k2)
  BY <1>1, <1>2 DEF InItsTree
<1>5. DependsOnAll(p, ob, k2)
  BY <1>1, <1>2 DEF DependsOnAll
<1>6. OwnersNotReferred(ob, k2)
  BY <1>1 DEF OwnersNotReferred
<1> QED BY <1>1, <1>3, <1>4, <1>5, <1>6 DEF Trees

(* What the memory is before a list removes what it had at the index.      *)
LEMMA SourceTaken ==
  ASSUME IInv, NEW t \in Thread, threads[t].from # None, lock[threads[t].from] = None,
         Attached(threads[t].self), Attached(threads[t].source), NEW m \in CopiedOrDetached(t),
         NEW k, Handed(t, m, k)
  PROVE  /\ m.parent \in [Address -> Address \cup {"free", "top"}] /\ ControllersTyped(k)
         /\ Trees(m.parent, Detached(m.detached), k)
         /\ k[threads[t].controller] = m.own /\ m.own.owner = Own(t).owner
         /\ \A a \in Address : parent[a] \in Address => m.parent[a] = parent[a]
<1> DEFINE c == threads[t].controller
           d == threads[t].from
           s == threads[t].source
<1>1. c \in Object /\ d \in Object /\ d # c /\ s \in Object /\ threads[t].at # "none"
  BY FinishFacts
<1>2. /\ ControllersTyped(controllers) /\ Own(t) = controllers[c] /\ Typed(objects, controllers)
      /\ \A x \in Object : objects[x].controller \in Object \cup {None}
      /\ objects \in [Object -> ObjectState]
  BY Typing DEF IInv, Own, TypeOK, Typed
<1>3. k[c] = m.own /\ k[d] = m.from /\ DOMAIN k = Object /\ \A x \in Object \ {c, d} : k[x] = controllers[x]
  BY <1>1, <1>2 DEF ControllersTyped, Handed
<1>4. CASE objects[s].mode = "owner"
  BY <1>3, <1>4, DetachedSource
<1>5. CASE objects[s].mode # "owner"
  <2>1. /\ m.parent \in DeepCopies(parent, objects[s].value, Self(t).value)
        /\ m.own = controllers[c] /\ m.from = controllers[d] /\ m.detached = {}
    BY <1>2, <1>5 DEF CopiedOrDetached
  <2>2. Detached(m.detached) = objects
    BY <1>2, <2>1 DEF Detached
  <2>3. /\ m.parent \in [Address -> Address \cup {"free", "top"}] /\ Trees(m.parent, objects, controllers)
        /\ \A a \in Address : parent[a] \in Address => m.parent[a] = parent[a]
    BY <2>1, CopiedSource
  <2>4. \A x \in Object : k[x] = controllers[x]
    BY <1>3, <2>1
  <2>5. ControllersTyped(k)
    BY <1>2, <1>3, <2>4 DEF ControllersTyped
  <2> DEFINE p == m.parent
  <2>6. p \in [Address -> Address \cup {"free", "top"}] /\ Trees(p, objects, controllers)
    BY <2>3
  <2> HIDE DEF c, d, s, p
  <2>7. Trees(p, objects, k)
    BY <1>1, <1>2, <2>4, <2>6, SameTrees
  <2> QED BY <1>2, <1>3, <2>1, <2>2, <2>3, <2>5, <2>7 DEF p, c, d
<1> QED BY <1>4, <1>5

(* The source is copied or moved, and what a list had at the index goes.   *)
LEMMA FinishSetStep ==
  ASSUME IInv, NEW t \in Thread, FinishSet(t)
  PROVE  IInv'
<1>1. threads[t].from # None /\ lock[threads[t].from] = None
  BY DEF FinishSet
<1> DEFINE c == threads[t].controller
           d == threads[t].from
           v == Self(t).value
<1>2. /\ c \in Object /\ d \in Object /\ d # c /\ threads[t].at \notin {"none", "lock"} /\ lock[c] = t
  BY <1>1, FinishFacts
<1>3. /\ TypeOK /\ Calls /\ GoneAreDetached /\ ObjectsTyped(objects) /\ ControllersTyped(controllers)
      /\ parent \in [Address -> Address \cup {"free", "top"}]
      /\ lock \in [Object -> Thread \cup {None}] /\ threads \in [Thread -> Call]
  BY Typing DEF IInv, TypeOK
<1>4. CASE fault' = "detached object" /\ UNCHANGED <<memory, lock, threads>>
  <2>1. UNCHANGED memory /\ objects' = objects /\ lock' = lock /\ threads' = threads
    BY <1>4 DEF memory
  <2>2. Calls'
    BY <1>3, <2>1, CallsKept
  <2> QED BY <1>3, <1>4, <2>1, <2>2, MemoryKept, Conclude
<1>5. ASSUME Attached(threads[t].self), Attached(threads[t].source), NEW m \in CopiedOrDetached(t),
             NEW replaced \in {{}} \cup {{a} : a \in Children(parent, v)},
             NEW S, S = RemovedWith(m.own, replaced),
             NotifyAndUse(m.detached \cup ObjectsOf(m.own, S), threads[t].self),
             controllers' = [controllers EXCEPT ![c] = Without(m.own, S, S), ![d] = m.from],
             parent' = Freed(m.parent, replaced),
             lock' = [lock EXCEPT ![c] = None], Return(t)
      PROVE  IInv'
  <2> DEFINE k == [controllers EXCEPT ![c] = m.own, ![d] = m.from]
             ob == Detached(m.detached)
             p == m.parent
  <2>1. /\ Own(t) = controllers[c] /\ controllers[c].owner # None /\ controllers[c].owner \in Address
        /\ v \in Below(parent, {controllers[c].owner}) /\ v \in Address
    BY <1>2, <1>5, CallFacts DEF Self
  <2>2. /\ p \in [Address -> Address \cup {"free", "top"}] /\ ControllersTyped(k) /\ Trees(p, ob, k)
        /\ k[c] = m.own /\ m.own.owner = controllers[c].owner
        /\ \A a \in Address : parent[a] \in Address => p[a] = parent[a]
    <3>1. Handed(t, m, k)
      BY DEF Handed
    <3> QED BY <1>1, <1>5, <2>1, <3>1, SourceTaken
  <2>3. /\ ObjectsTyped(ob) /\ \A o \in Object : ob[o] = IF o \in m.detached
          THEN [objects[o] EXCEPT !.value = None, !.controller = None] ELSE objects[o]
    BY <1>3, DetachedParts DEF Detached
  <2>4. objects' = Detached(m.detached \cup ObjectsOf(m.own, S))
    BY <1>5 DEF NotifyAndUse
  <2>5. /\ ObjectsTyped(objects')
        /\ \A o \in Object : /\ objects'[o].state = objects[o].state
                             /\ objects'[o].controller \in {None, objects[o].controller}
    BY <1>3, <2>4, DetachedParts
  <2>6. controllers' = [k EXCEPT ![c] = Without(k[c], S, S)]
    BY <1>2, <1>3, <1>5, <2>2 DEF ControllersTyped
  <2> HIDE DEF k, ob, p
  <2>7. Loses(ob, objects', ObjectsOf(k[c], S))
    <3>1. \A o \in Object : objects'[o] = IF o \in m.detached \cup ObjectsOf(k[c], S)
            THEN [objects[o] EXCEPT !.value = None, !.controller = None] ELSE objects[o]
      BY <2>2, <2>4 DEF Detached
    <3>2. objects \in [Object -> ObjectState]
      BY <1>3 DEF ObjectsTyped
    <3>3. \A o \in Object : LET r == [objects[o] EXCEPT !.value = None, !.controller = None] IN
            r.mode = objects[o].mode /\ r.controller = None
      BY <3>2 DEF ObjectState
    <3>4. ASSUME NEW o \in Object
          PROVE  /\ objects'[o].mode = objects[o].mode /\ ob[o].mode = objects[o].mode
                 /\ o \in ObjectsOf(k[c], S) => objects'[o].controller = None
                 /\ o \notin ObjectsOf(k[c], S) => objects'[o] = ob[o]
      <4> DEFINE r == [objects[o] EXCEPT !.value = None, !.controller = None]
      <4>1. r.mode = objects[o].mode /\ r.controller = None
        BY <3>3
      <4>2. objects'[o] = IF o \in m.detached \cup ObjectsOf(k[c], S) THEN r ELSE objects[o]
        BY <3>1
      <4>3. ob[o] = IF o \in m.detached THEN r ELSE objects[o]
        BY <2>3
      <4> HIDE DEF r
      <4> QED BY <4>1, <4>2, <4>3
    <3> QED BY <3>4 DEF Loses
  <2>8. ControllersTyped(controllers') /\ Prunes(k, controllers', c, S, S)
    <3>1. DOMAIN k = Object /\ \A x \in Object : IsController(k[x])
      BY <2>2 DEF ControllersTyped
    <3>2. Prunes(k, [k EXCEPT ![c] = Without(k[c], S, S)], c, S, S)
      BY <1>2, <3>1, WithoutPrunes
    <3>3. IsController(Without(k[c], S, S))
      BY <1>2, <3>1, WithoutTyped
    <3>4. ControllersTyped(controllers')
      BY <2>6, <3>1, <3>3 DEF ControllersTyped
    <3> QED BY <2>6, <3>2, <3>4
  <2>9. /\ replaced \in SUBSET Address
        /\ \A a \in replaced : a \in Below(p, {k[c].owner}) /\ p[a] \in Address
    <3>1. Below(parent, {controllers[c].owner}) \subseteq Below(p, {controllers[c].owner})
      <4>1. {controllers[c].owner} \in SUBSET Address
        BY <2>1
      <4> QED BY <2>2, <4>1, BelowMore
    <3>2. \A a \in Children(parent, v) :
            /\ a \in Address /\ p[a] = v /\ a \in Below(p, {controllers[c].owner})
      BY <2>1, <2>2, <3>1, BelowParts DEF Children
    <3> QED BY <2>1, <2>2, <3>2
  <2>10. Typed(ob, k)
    BY <2>2, <2>3, TypedParts
  <2>11. Trees(parent', objects', controllers')
    <3>1. S = RemovedWith(k[c], replaced) /\ k[c].owner # None
      BY <1>5, <2>1, <2>2
    <3>2. parent' = Freed(p, replaced)
      BY <1>5 DEF p
    <3>3. Trees(Freed(p, replaced), objects', controllers')
      BY <1>2, <2>2, <2>7, <2>8, <2>9, <2>10, <3>1, RemoveTrees
    <3> QED BY <3>2, <3>3
  <2>12. parent' \in [Address -> Address \cup {"free", "top"}]
    BY <1>5, <2>2, <2>9, FreedParts DEF p
  <2>13. GoneAreDetached'
    BY <1>3, <2>5 DEF GoneAreDetached
  <2>14. Calls'
    <3>1. ASSUME NEW u \in Thread, u # t
          PROVE  /\ \A o \in {threads[u].self, threads[u].source} \ {None} :
                      /\ objects'[o].state = objects[o].state
                      /\ objects'[o].controller \in {None, objects[o].controller}
                 /\ threads[u].at \notin {"none", "lock"} =>
                      lock'[threads[u].controller] = lock[threads[u].controller]
      <4>1. ASSUME NEW o \in {threads[u].self, threads[u].source} \ {None}
            PROVE  o \in Object
        BY <1>3, <4>1, UsedAreThere
      <4>2. ASSUME threads[u].at \notin {"none", "lock"}
            PROVE  lock'[threads[u].controller] = lock[threads[u].controller]
        <5>1. CallKnown(u)
          BY <1>3 DEF Calls
        <5>2. lock[threads[u].controller] = u
          BY <4>2, <5>1 DEF CallKnown
        <5> QED BY <1>2, <1>3, <1>5, <3>1, <5>2
      <4> QED BY <2>5, <4>1, <4>2
    <3>2. threads'[t] = Idle /\ Idle.at = "none" /\ threads[t].at # "none"
      BY <1>2, <1>3, <1>5 DEF Return, Idle
    <3>3. threads' # threads
      BY <3>2
    <3> QED BY <1>3, <1>5, <3>1, <3>3, CallsKept
  <2>15. lock' \in [Object -> Thread \cup {None}] /\ threads' \in [Thread -> Call]
    BY <1>3, <1>5, Returned
  <2>16. fault' \in {None, "detached object", "freed object", "no value"}
    BY <1>5 DEF NotifyAndUse
  <2> QED BY <2>5, <2>8, <2>11, <2>12, <2>13, <2>14, <2>15, <2>16, Conclude
<1>6. \/ /\ Attached(threads[t].self) /\ Attached(threads[t].source)
         /\ \E m \in CopiedOrDetached(t), replaced \in {{}} \cup {{a} : a \in Children(parent, v)} :
              LET S == RemovedWith(m.own, replaced) IN
              /\ NotifyAndUse(m.detached \cup ObjectsOf(m.own, S), threads[t].self)
              /\ controllers' = [controllers EXCEPT ![c] = Without(m.own, S, S), ![d] = m.from]
              /\ parent' = Freed(m.parent, replaced)
         /\ lock' = [lock EXCEPT ![c] = None] /\ Return(t)
      \/ fault' = "detached object" /\ UNCHANGED <<memory, lock, threads>>
  BY DEF FinishSet
<1> QED BY <1>4, <1>5, <1>6

-----------------------------------------------------------------------------
LEMMA InitHolds ==
  ASSUME Init
  PROVE  IInv
<1>1. TypeOK
  BY GoneParts, EmptyParts DEF Init, TypeOK, Idle, Call
<1>2. /\ \A a \in Address : parent[a] = "free"
      /\ \A o \in Object : objects[o] = Gone /\ controllers[o] = Empty
      /\ \A t \in Thread : threads[t] = Idle
  BY DEF Init
<1>3. /\ Empty.owner = None /\ DOMAIN Empty.references = {} /\ Gone.controller = None
      /\ Idle.at = "none" /\ Idle.self = None
  BY DEF Empty, NoReferences, Gone, Idle
<1>4. Forest(parent)
  BY <1>2, NoneAssumption DEF Forest
<1>5. Owned(parent, objects, controllers) /\ InItsTree(parent, objects, controllers)
  BY <1>2, <1>3 DEF Owned, InItsTree
<1>6. DependsOnAll(parent, objects, controllers) /\ OwnersNotReferred(objects, controllers)
  BY <1>2, <1>3 DEF DependsOnAll, OwnersNotReferred, AllObjects, ObjectsOf
<1>7. Calls
  BY <1>2, <1>3 DEF Calls, CallKnown, DyingAlone
<1>8. GoneAreDetached
  BY <1>2, <1>3 DEF GoneAreDetached
<1> QED BY <1>1, <1>4, <1>5, <1>6, <1>7, <1>8 DEF IInv, Trees

LEMMA StartStep ==
  ASSUME IInv, NEW t \in Thread, StartsCall(t)
  PROVE  IInv'
<1>1. PICK o \in Object : Create(t, o) \/ Method(t, o) \/ Release(t, o)
  BY DEF StartsCall
<1> QED BY <1>1, CreateStep, MethodStep, ReleaseStep

LEMMA RunStep ==
  ASSUME IInv, NEW t \in Thread, Runs(t)
  PROVE  IInv'
BY UseDetachedStep, UseStep, GetStep, RemoveStep, ClearStep, CopyStep, SetStep, FinishSetStep,
   DeleteStep DEF Runs

LEMMA NextStep ==
  ASSUME IInv, [Next]_vars
  PROVE  IInv'
<1>1. CASE UNCHANGED vars
  <2>1. UNCHANGED memory /\ objects' = objects /\ lock' = lock /\ threads' = threads /\ fault' = fault
    BY <1>1 DEF vars, memory
  <2>2. Calls'
    <3>1. Calls /\ TypeOK
      BY DEF IInv
    <3>2. CASE Thread = {}
      BY <3>2 DEF Calls, DyingAlone
    <3>3. CASE Thread # {}
      <4>1. PICK t \in Thread : TRUE
        BY <3>3
      <4> QED BY <2>1, <3>1, CallsKept
    <3> QED BY <3>2, <3>3
  <2> QED BY <2>1, <2>2, MemoryKept, Conclude DEF IInv, TypeOK
<1>2. CASE Next
  <2>1. PICK t \in Thread : StartsCall(t) \/ Runs(t)
    BY <1>2 DEF Next
  <2> QED BY <2>1, StartStep, RunStep
<1> QED BY <1>1, <1>2

LEMMA Invariance == Spec => []IInv
<1>1. Init => IInv
  BY InitHolds
<1>2. IInv /\ [Next]_vars => IInv'
  BY NextStep
<1> QED BY <1>1, <1>2, PTL DEF Spec

-----------------------------------------------------------------------------
(* The top of the tree is the owner of the controller: there is no other.  *)
LEMMA TopFound ==
  ASSUME IInv, NEW a \in Address, NEW b \in Address, parent[b] = "top", a \in Below(parent, {b})
  PROVE  Top(a) = b
<1>1. Top(a) \in Address /\ parent[Top(a)] = "top" /\ a \in Below(parent, {Top(a)})
  BY DEF Top
<1>2. Top(a) # b => Below(parent, {Top(a)}) \cap Below(parent, {b}) = {}
  BY <1>1, TopsApart
<1> QED BY <1>1, <1>2

LEMMA InvariantDangles ==
  ASSUME IInv
  PROVE  NoDangling
<1> SUFFICES ASSUME NEW o \in Object, Attached(o)
             PROVE  /\ parent[objects[o].value] # "free"
                    /\ controllers[objects[o].controller].owner = Top(objects[o].value)
  BY DEF NoDangling
<1>1. objects[o].controller # None
  BY DEF Attached
<1> DEFINE c == objects[o].controller
           v == objects[o].value
<1>2. /\ controllers[c].owner \in Address /\ parent[controllers[c].owner] = "top"
      /\ v \in Address /\ v \in Below(parent, {controllers[c].owner}) /\ parent[v] # "free"
  BY <1>1, AttachedFacts
<1> HIDE DEF c, v
<1>3. Top(v) = controllers[c].owner
  BY <1>2, TopFound
<1> QED BY <1>2, <1>3 DEF c, v

LEMMA InvariantKnows ==
  ASSUME IInv
  PROVE  TreesAreKnown
<1>1. /\ Owned(parent, objects, controllers) /\ InItsTree(parent, objects, controllers)
      /\ DependsOnAll(parent, objects, controllers)
  BY DEF IInv, Trees
<1>2. AttachedIsKnown
  BY <1>1 DEF AttachedIsKnown, InItsTree, Attached
<1>3. DependenciesKnown
  BY <1>1 DEF DependenciesKnown, DependsOnAll, Attached
<1>4. OneOwner
  <2> SUFFICES ASSUME NEW a \in Address, parent[a] = "top"
               PROVE  Cardinality({c \in Object : controllers[c].owner = a}) = 1
    BY DEF OneOwner
  <2>1. PICK d \in Object : controllers[d].owner = a
    BY <1>1 DEF Owned
  <2>2. a # None
    BY NoneAssumption
  <2>3. {c \in Object : controllers[c].owner = a} = {d}
    BY <1>1, <2>1, <2>2 DEF Owned
  <2> QED BY <2>3, FS_Singleton
<1> QED BY <1>2, <1>3, <1>4 DEF TreesAreKnown

(* The state has the types of TypeOK.                                      *)
THEOREM ValuesTypeCorrect == Spec => []TypeOK
<1>1. IInv => TypeOK
  BY DEF IInv
<1> QED BY <1>1, Invariance, PTL

(* An object that is attached has a value in memory, in the tree its       *)
(* controller is for: value_, controller_ and owner_value_ in value_base.h.*)
THEOREM NothingDangles == Spec => []NoDangling
<1>1. IInv => NoDangling
  BY InvariantDangles
<1> QED BY <1>1, Invariance, PTL

(* reference_map_, dependency_map_ and owner_value_ agree with the values  *)
(* there are and the objects that are attached, so that the removal of a   *)
(* value detaches the objects of it and of everything below it.            *)
THEOREM ForestIsKnown == Spec => []TreesAreKnown
<1>1. IInv => TreesAreKnown
  BY InvariantKnows
<1> QED BY <1>1, Invariance, PTL
=============================================================================
