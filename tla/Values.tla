-------------------------------- MODULE Values --------------------------------
(***************************************************************************)
(* Dictionary, list and binary values (libcef/common/value_base.h,         *)
(* value_base.cc, values_impl.cc): the trees of values in memory, the      *)
(* objects through which clients use them, and the controllers that detach *)
(* the objects of values that go away.  The object of the top of a tree    *)
(* owns it; the objects of values inside are references.                   *)
(*                                                                         *)
(* A call looks whether its object is attached, waits for the lock of its  *)
(* controller, and works; a call that stores a value waits for a second    *)
(* lock.  Addresses are used again once they are free.  A fault is the use *)
(* of what is not there, after which anything may happen.                  *)
(***************************************************************************)
EXTENDS Integers, FiniteSets

CONSTANTS
  Address,    \* where values can be
  Object,     \* the objects, and the controllers they bring along
  Thread

None == "none"

ASSUME NoneAssumption == {None, "free", "top"} \cap (Address \cup Object \cup Thread) = {}

VARIABLES
  parent,       \* the value that contains the one at an address
  objects,      \* the objects
  controllers,  \* their controllers
  lock,         \* the thread that holds the lock of a controller
  threads,      \* the calls the threads make
  fault         \* the use of something that is not there

memory == <<parent, objects, controllers>>
vars == <<memory, lock, threads, fault>>

(* The client holds an object, or it is dying: its destructor waits.       *)
ObjectState ==
  [state : {"gone", "held", "dying"}, mode : {"reference", "owner"},
   value : Address \cup {None}, controller : Object \cup {None}]

Gone == [state |-> "gone", mode |-> "reference", value |-> None, controller |-> None]

(* owner_value_ and owner_object_; reference_map_; dependency_map_.        *)
IsController(k) ==
  /\ DOMAIN k = {"owner", "references", "dependencies"}
  /\ k.owner \in Address \cup {None}
  /\ DOMAIN k.references \subseteq Address
  /\ k.references \in [DOMAIN k.references -> Object]
  /\ k.dependencies \subseteq Address \X Address

NoReferences == [a \in {} |-> None]
Empty == [owner |-> None, references |-> NoReferences, dependencies |-> {}]

(* A call of |self|, whose controller was |controller| when the call       *)
(* began; |source| is the object of the value to store in a dictionary or  *)
(* a list, and |from| its controller, once the call waits for that.        *)
Call ==
  [at : {"none", "lock", "dictionary", "list"},
   self : Object \cup {None}, controller : Object \cup {None},
   source : Object \cup {None}, from : Object \cup {None}]

Idle == [at |-> "none", self |-> None, controller |-> None, source |-> None, from |-> None]

TypeOK ==
  /\ parent \in [Address -> Address \cup {"free", "top"}]
  /\ objects \in [Object -> ObjectState]
  /\ \A o \in Object : objects[o].value = None <=> objects[o].controller = None
  /\ DOMAIN controllers = Object /\ \A c \in Object : IsController(controllers[c])
  /\ lock \in [Object -> Thread \cup {None}]
  /\ threads \in [Thread -> Call]
  /\ fault \in {None, "detached object", "freed object", "no value"}

Init ==
  /\ parent = [a \in Address |-> "free"]
  /\ objects = [o \in Object |-> Gone]
  /\ controllers = [c \in Object |-> Empty]
  /\ lock = [c \in Object |-> None]
  /\ threads = [t \in Thread |-> Idle]
  /\ fault = None

-----------------------------------------------------------------------------
(* What can be reached from S by the pairs in R.                           *)
Reached(R, S) ==
  {a \in Address :
     \A T \in SUBSET Address :
       S \subseteq T /\ a \notin T => \E d \in R : d[1] \in T /\ d[2] \notin T}

(* The trees of values in a memory p.                                      *)
Free(p) == {a \in Address : p[a] = "free"}
Children(p, a) == {b \in Address : p[b] = a}
Below(p, S) == Reached({<<p[a], a>> : a \in Address}, S)

Freed(p, S) == [a \in Address |-> IF a \in Below(p, S) THEN "free" ELSE p[a]]

(* DeepCopy of the value at a, in the value at |to|.                       *)
DeepCopies(p, a, to) ==
  LET S == Below(p, {a}) IN
  {[b \in Address |->
      IF b = f[a] THEN to
      ELSE IF \E s \in S : f[s] = b THEN f[p[CHOOSE s \in S : f[s] = b]] ELSE p[b]]
   : f \in {f \in [S -> Free(p)] : \A s, u \in S : f[s] = f[u] => s = u}}

-----------------------------------------------------------------------------
(* What controllers do; k is one.                                          *)
ObjectsOf(k, S) == {k.references[a] : a \in S \cap DOMAIN k.references}
AllObjects(k) == ObjectsOf(k, Address)

(* What depends on the value at a.                                         *)
Dependents(k, a) ==
  Reached(k.dependencies, {d[2] : d \in {d \in k.dependencies : d[1] = a}})

(* Mutant: what depends on a removed value is not removed with it.         *)
ValueAlone(k, S) == S

(* RemoveInternal: the removed values, and what depends on them.           *)
RemovedWith(k, S) == S \cup UNION {Dependents(k, a) : a \in S}

(* The references in S and what is known to depend on T are removed.       *)
Without(k, S, T) ==
  [k EXCEPT !.references = [a \in DOMAIN @ \ S |-> @[a]],
            !.dependencies = {d \in @ : d[1] \notin T}]

(* Mutant: the dependency on the parent is forgotten.                      *)
ReferenceOnly(k, a, o, above) ==
  [k EXCEPT !.references = [b \in DOMAIN @ \cup {a} |-> IF b = a THEN o ELSE @[b]]]

(* AddReference and AddDependency                                          *)
WithReference(k, a, o, above) ==
  [k EXCEPT !.references = [b \in DOMAIN @ \cup {a} |-> IF b = a THEN o ELSE @[b]],
            !.dependencies = @ \cup {<<above, a>>}]

(* TakeFrom: what is there already is kept.                                *)
TakeFrom(k, other) ==
  [k EXCEPT !.references =
              [a \in DOMAIN @ \cup DOMAIN other.references |->
                 IF a \in DOMAIN @ THEN @[a] ELSE other.references[a]],
            !.dependencies = @ \cup other.dependencies]

-----------------------------------------------------------------------------
Attached(o) == objects[o].controller # None

(* An object that is not in use, and whose controller is not.              *)
Unused(o) ==
  /\ objects[o].state = "gone" /\ lock[o] = None
  /\ \A t \in Thread : threads[t].controller # o /\ threads[t].from # o
  /\ \A c \in Object : o \notin AllObjects(controllers[c])

New(mode, a, c) == [state |-> "held", mode |-> mode, value |-> a, controller |-> c]

(* OnControlRemoved of the objects in S.                                   *)
Detached(S) ==
  [o \in Object |-> IF o \in S THEN [objects[o] EXCEPT !.value = None, !.controller = None]
                               ELSE objects[o]]

(* One of them may be gone.                                                *)
Notify(S) ==
  /\ objects' = Detached(S)
  /\ fault' = IF \E o \in S : objects[o].state = "gone" THEN "freed object" ELSE None

(* The value of the object o is used, in the end.                          *)
NotifyAndUse(S, o) ==
  /\ objects' = Detached(S)
  /\ fault' = IF \E x \in S : objects[x].state = "gone" THEN "freed object"
              ELSE IF o \in S THEN "detached object" ELSE None

Return(t) == threads' = [threads EXCEPT ![t] = Idle]

-----------------------------------------------------------------------------
(* A new dictionary, list or binary value.                                 *)
Create(t, o) ==
  /\ threads[t] = Idle /\ Unused(o)
  /\ \E a \in Free(parent) :
       /\ parent' = [parent EXCEPT ![a] = "top"]
       /\ objects' = [objects EXCEPT ![o] = New("owner", a, o)]
       /\ controllers' = [controllers EXCEPT ![o] = [Empty EXCEPT !.owner = a]]
  /\ UNCHANGED <<lock, threads, fault>>

(* VerifyAttached, and the controller whose lock to wait for.  Which call  *)
(* it is shows when it has the lock.                                       *)
Begin(t, o) ==
  /\ threads[t] = Idle /\ objects[o].state = "held" /\ Attached(o)
  /\ threads' = [threads EXCEPT ![t] = [Idle EXCEPT !.at = "lock", !.self = o,
                                                  !.controller = objects[o].controller]]

Method(t, o) == Begin(t, o) /\ UNCHANGED <<memory, lock, fault>>

(* The last reference to an object is released.                            *)
Release(t, o) ==
  /\ objects[o].state = "held" /\ threads[t] = Idle
  /\ \A u \in Thread : o \notin {threads[u].self, threads[u].source}
  /\ \/ /\ ~Attached(o)
        /\ objects' = [objects EXCEPT ![o] = Gone]
        /\ UNCHANGED threads
     \/ /\ Begin(t, o)
        /\ objects' = [objects EXCEPT ![o].state = "dying"]
  /\ UNCHANGED <<parent, controllers, lock, fault>>

-----------------------------------------------------------------------------
(* The thread t gets the lock for its call.                                *)
Enter(t) == threads[t].at = "lock" /\ lock[threads[t].controller] = None

Works(t, state) ==
  /\ Enter(t) /\ Attached(threads[t].self) /\ objects[threads[t].self].state = state
  /\ Return(t) /\ UNCHANGED lock

Self(t) == objects[threads[t].self]
Own(t) == controllers[threads[t].controller]
WithOwn(t, k) == [controllers EXCEPT ![threads[t].controller] = k]

(* The object was detached while the call waited for the lock.             *)
UseDetached(t) ==
  /\ Enter(t)
  /\ ~Attached(threads[t].self)
  /\ fault' = "detached object"
  /\ UNCHANGED <<memory, lock, threads>>

Use(t) == Works(t, "held") /\ UNCHANGED <<memory, fault>>

(* GetOrCreateRef of a value inside.                                       *)
Get(t) ==
  /\ Works(t, "held")
  /\ \E a \in Children(parent, Self(t).value) :
       \/ /\ a \in DOMAIN Own(t).references
          /\ LET o == Own(t).references[a] IN
             fault' = IF objects[o].state = "held" THEN None ELSE "freed object"
          /\ UNCHANGED <<objects, controllers>>
       \/ /\ a \notin DOMAIN Own(t).references
          /\ \E o \in Object :
               /\ Unused(o)
               /\ objects' = [objects EXCEPT ![o] = New("reference", a, threads[t].controller)]
               /\ controllers' = WithOwn(t, WithReference(Own(t), a, o, Self(t).value))
          /\ UNCHANGED fault
  /\ UNCHANGED parent

(* Remove, or a value is stored that is not a dictionary, list or binary.  *)
Remove(t) ==
  /\ Works(t, "held")
  /\ \E a \in Children(parent, Self(t).value) :
       LET S == RemovedWith(Own(t), {a}) IN
       /\ Notify(ObjectsOf(Own(t), S))
       /\ controllers' = WithOwn(t, Without(Own(t), S, S))
       /\ parent' = Freed(parent, {a})

Clear(t) ==
  /\ Works(t, "held")
  /\ LET v == Self(t).value
         S == Dependents(Own(t), v) IN
     /\ NotifyAndUse(ObjectsOf(Own(t), S), threads[t].self)
     /\ controllers' = WithOwn(t, Without(Own(t), S, S \cup {v}))
     /\ parent' = Freed(parent, Children(parent, v))

Copy(t) ==
  /\ Works(t, "held")
  /\ \E o \in Object, p \in DeepCopies(parent, Self(t).value, "top") :
       /\ Unused(o)
       /\ parent' = p
       /\ \E a \in Free(parent) :
            /\ p[a] = "top"
            /\ objects' = [objects EXCEPT ![o] = New("owner", a, o)]
            /\ controllers' = [controllers EXCEPT ![o] = [Empty EXCEPT !.owner = a]]
  /\ UNCHANGED fault

(* SetDictionary and the like.  A dictionary removes what it has at the    *)
(* key; then CopyOrDetachValue waits for the lock of the source.           *)
ReachForSource(t, at, source) ==
  IF objects'[source].controller = None
  THEN fault' = "no value" /\ UNCHANGED <<lock, threads>>
  ELSE /\ fault' = None
       /\ threads' = [threads EXCEPT ![t].at = at, ![t].source = source,
                                     ![t].from = objects'[source].controller]
       /\ lock' = [lock EXCEPT ![threads[t].controller] = t]

Set(t, source) ==
  /\ Enter(t) /\ Attached(threads[t].self) /\ Self(t).state = "held"
  /\ objects[source].state = "held" /\ Attached(source)
  /\ \/ /\ UNCHANGED memory
        /\ \E at \in {"dictionary", "list"} : ReachForSource(t, at, source)
     \/ \E a \in Children(parent, Self(t).value) :
          LET S == RemovedWith(Own(t), {a})
              O == ObjectsOf(Own(t), S) IN
          /\ objects' = Detached(O)
          /\ controllers' = WithOwn(t, Without(Own(t), S, S))
          /\ parent' = Freed(parent, {a})
          /\ IF \E o \in O : objects[o].state = "gone"
             THEN fault' = "freed object" /\ UNCHANGED <<lock, threads>>
             ELSE ReachForSource(t, "dictionary", source)

(* CopyOrDetachValue: what becomes of the memory, of the controller of the *)
(* call, of that of the source, and which objects are detached.            *)
CopiedOrDetached(t) ==
  LET source == objects[threads[t].source]
      from == controllers[threads[t].from]
      to == Self(t).value IN
  IF source.mode = "owner"
  THEN {[parent |-> [parent EXCEPT ![source.value] = to], own |-> TakeFrom(Own(t), from),
         from |-> Empty, detached |-> AllObjects(from) \cup {threads[t].source}]}
  ELSE {[parent |-> p, own |-> Own(t), from |-> from, detached |-> {}]
          : p \in DeepCopies(parent, source.value, to)}

(* ... with the lock of the source.  A list removes what it had at the     *)
(* index after that.                                                       *)
FinishSet(t) ==
  LET call == threads[t] IN
  /\ call.from # None /\ lock[call.from] = None
  /\ \/ /\ Attached(call.self) /\ Attached(call.source)
        /\ \E m \in CopiedOrDetached(t),
              replaced \in {{}} \cup {{a} : a \in Children(parent, Self(t).value)} :
             LET S == RemovedWith(m.own, replaced) IN
             /\ call.at = "dictionary" => replaced = {}
             /\ NotifyAndUse(m.detached \cup ObjectsOf(m.own, S), call.self)
             /\ controllers' = [controllers EXCEPT ![call.controller] = Without(m.own, S, S),
                                                   ![call.from] = m.from]
             /\ parent' = Freed(m.parent, replaced)
        /\ lock' = [lock EXCEPT ![call.controller] = None]
        /\ Return(t)
     \/ /\ ~(Attached(call.self) /\ Attached(call.source))
        /\ fault' = "detached object"
        /\ UNCHANGED <<memory, lock, threads>>

(* Remove(owner), after which the tree goes.                               *)
RemoveOwner(t) ==
  /\ controllers' = WithOwn(t, Empty)
  /\ parent' = Freed(parent, {Self(t).value})

(* Delete, in the destructor.                                              *)
Delete(t) ==
  /\ Works(t, "dying")
  /\ \/ /\ Self(t).mode = "owner"
        /\ RemoveOwner(t)
        /\ objects' = [Detached(AllObjects(Own(t))) EXCEPT ![threads[t].self] = Gone]
        /\ fault' = IF \E o \in AllObjects(Own(t)) : objects[o].state = "gone"
                    THEN "freed object" ELSE None
     \/ /\ Self(t).mode = "reference"
        /\ controllers' = WithOwn(t, Without(Own(t), {Self(t).value}, {}))
        /\ objects' = [objects EXCEPT ![threads[t].self] = Gone]
        /\ UNCHANGED <<parent, fault>>

-----------------------------------------------------------------------------
StartsCall(t) == \E o \in Object : Create(t, o) \/ Method(t, o) \/ Release(t, o)

Runs(t) ==
  \/ UseDetached(t)
  \/ Use(t) \/ Get(t) \/ Remove(t) \/ Clear(t) \/ Copy(t)
  \/ \E source \in Object : Set(t, source)
  \/ FinishSet(t)
  \/ Delete(t)

(* Nothing is known of the program after a fault.                          *)
Next == fault = None /\ \E t \in Thread : StartsCall(t) \/ Runs(t)

Spec == Init /\ [][Next]_vars

-----------------------------------------------------------------------------
(* The top of the tree a value is in.                                      *)
Top(a) == CHOOSE b \in Address : parent[b] = "top" /\ a \in Below(parent, {b})

(* An object that is attached has a value in memory, in the tree its       *)
(* controller is for.                                                      *)
NoDangling ==
  \A o \in Object : Attached(o) =>
    /\ parent[objects[o].value] # "free"
    /\ controllers[objects[o].controller].owner = Top(objects[o].value)

(* A controller knows the objects that are attached to it, one for each    *)
(* value.                                                                  *)
AttachedIsKnown ==
  \A o \in Object : Attached(o) =>
    LET k == controllers[objects[o].controller] IN
    IF objects[o].mode = "reference"
    THEN objects[o].value \in DOMAIN k.references /\ k.references[objects[o].value] = o
    ELSE k.owner = objects[o].value

(* The values around one with an object are known to depend on each other. *)
DependenciesKnown ==
  \A o \in Object : Attached(o) /\ objects[o].mode = "reference" =>
    \A a \in Address :
      a # controllers[objects[o].controller].owner /\ objects[o].value \in Below(parent, {a})
        => <<parent[a], a>> \in controllers[objects[o].controller].dependencies

(* A tree that was not moved or freed stays with the one object that owns  *)
(* it.                                                                     *)
OneOwner ==
  \A a \in Address : parent[a] = "top" =>
    Cardinality({c \in Object : controllers[c].owner = a}) = 1

(* The controllers agree with the values and objects there are, so that    *)
(* removing a value finds every object of it and of what is below.         *)
TreesAreKnown == AttachedIsKnown /\ DependenciesKnown /\ OneOwner

(* The object GetDictionary, GetList or GetBinary would return is valid.   *)
GetReturnsValid ==
  \A c \in Object :
    \A a \in DOMAIN controllers[c].references \cap Below(parent, {controllers[c].owner}) :
      Attached(controllers[c].references[a])

(* An object that is used is attached.                                     *)
UsesAttached == fault # "detached object"
=============================================================================
