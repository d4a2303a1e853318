---- MODULE PyManager_proofs ----
(***************************************************************************)
(* Proofs about PyManager: for any clients, modules and number of keys, a  *)
(* request is served while its module is there, and modules are owned.     *)
(***************************************************************************)
EXTENDS PyManager, TLAPS

SameKey(i, j) == req[i].key = req[j].key

\* What the queue keeps for every key: the creation comes first and has not happened,
\* the removal comes last, and a request in between finds the module or its creation.
QueueOrdered ==
    /\ \A i, j \in DOMAIN req : i < j /\ SameKey(i, j) =>
        req[j].type # "create" /\ req[i].type # "remove"
    /\ \A i \in DOMAIN req : req[i].type = "create" => req[i].key \notin DOMAIN modules
    /\ \A i \in DOMAIN req : req[i].type \in Uses =>
        \/ req[i].key \in DOMAIN modules
        \/ \E j \in DOMAIN req : j < i /\ req[j].type = "create" /\ SameKey(i, j)

\* An owned key can be used, and is not on its way out.
OwnersServed ==
    \A c \in Clients : key[c] # NoKey =>
        /\ key[c] \in DOMAIN modules \/ Pending("create", key[c])
        /\ ~Pending("remove", key[c])

\* A module that is held, or about to be, has an owner or a removal that is queued.
ModulesLeave ==
    \A k \in 1 .. lastKey :
        k \in DOMAIN modules \/ Pending("create", k) => Owned(k) \/ Pending("remove", k)

KeysGiven == \A i \in DOMAIN req : req[i].key \in 0 .. lastKey

OneOwner == \A c, d \in Clients : key[c] = key[d] /\ key[c] # NoKey => c = d

\* An import gives a null only where Python's error indicator was set.
NullsMeanError == \A k \in DOMAIN modules : modules[k] = NoModule => error

\* The worker leaves its loop only when it was told to.
LeavesWhenTold ==
    /\ manager # "joining" /\ manager # "gone" => run
    /\ worker = "done" => ~run

IInv ==
    /\ TypeOK
    /\ KeysGiven
    /\ OneOwner
    /\ LeavesWhenTold
    /\ NullsMeanError
    /\ worker # "done" => QueueOrdered /\ OwnersServed /\ ModulesLeave

----
(* Types. *)

Typed == TypeOK /\ KeysGiven

\* A request's head has the fields of its type, its key is given, and the tail keeps
\* what is true of every element.
LEMMA HeadAndTail ==
    ASSUME Typed, worker = "serving"
    PROVE  /\ Head(req) \in Requests
           /\ Head(req) = req[1] /\ 1 \in DOMAIN req
           /\ Head(req).key \in 0 .. lastKey
           /\ Tail(req) \in Seq(Requests)
           /\ \A i \in DOMAIN Tail(req) : i + 1 \in DOMAIN req /\ Tail(req)[i] = req[i + 1]
           /\ \A i \in DOMAIN req : i # 1 => i - 1 \in DOMAIN Tail(req)
<1>1. req \in Seq(Requests) /\ req # <<>>
  BY DEF Typed, TypeOK
<1>2. Head(req) \in Requests /\ Head(req) = req[1] /\ 1 \in DOMAIN req
  <2> HIDE DEF Requests
  <2> QED
    BY <1>1
<1>3. /\ Tail(req) \in Seq(Requests)
      /\ \A i \in DOMAIN Tail(req) : i + 1 \in DOMAIN req /\ Tail(req)[i] = req[i + 1]
      /\ \A i \in DOMAIN req : i # 1 => i - 1 \in DOMAIN Tail(req)
  BY <1>1
<1> QED
  BY <1>1, <1>2, <1>3 DEF Typed, KeysGiven

\* Push adds one element at the end.
LEMMA PushAppends ==
    ASSUME req \in Seq(Requests), NEW r \in Requests, Push(r)
    PROVE  /\ req' \in Seq(Requests) /\ req' # <<>>
           /\ Len(req) \in Nat /\ Len(req') = Len(req) + 1
           /\ DOMAIN req = 1 .. Len(req) /\ DOMAIN req' = 1 .. Len(req) + 1
           /\ \A i \in DOMAIN req : req'[i] = req[i]
           /\ req'[Len(req) + 1] = r
           /\ worker # "serving"
  BY DEF Push, MutexFree

\* What Push adds has a given key, and so have the others.
LEMMA PushKeepsKeys ==
    ASSUME Typed, NEW r \in Requests, Push(r),
           r.key \in 0 .. lastKey', lastKey' \in Nat, lastKey' >= lastKey
    PROVE  /\ req' \in Seq(Requests) /\ req' # <<>> /\ worker # "serving"
           /\ \A i \in DOMAIN req' : req'[i].key \in 0 .. lastKey'
<1>1. req \in Seq(Requests) /\ lastKey \in Nat
  BY DEF Typed, TypeOK
<1>2. ASSUME NEW i \in DOMAIN req PROVE req'[i].key \in 0 .. lastKey'
  BY <1>1, <1>2, PushAppends DEF Typed, KeysGiven
<1> QED
  BY <1>1, <1>2, PushAppends

LEMMA InitTyped == Init => Typed
<1> SUFFICES ASSUME Init PROVE Typed
  OBVIOUS
<1>1. req \in Seq(Requests) /\ DOMAIN req = {}
  BY DEF Init
<1>2. modules \in [DOMAIN modules -> Modules \cup {NoModule}] /\ DOMAIN modules \subseteq 1 .. lastKey
  BY DEF Init, NoModules
<1>3. /\ asking \in [Clients \cup {Loader} -> BOOLEAN]
      /\ answer \in [Clients \cup {Loader} -> Results \cup Modules \cup {"empty"}]
      /\ answer[Loader] \in Modules \cup {"none", "empty"}
  BY DEF Init, Results
<1>4. lastKey \in Nat /\ key \in [Clients -> 0 .. lastKey]
  BY DEF Init, NoKey
<1>5. /\ manager = "loading" /\ unscanned = Modules /\ available = {} /\ worker = "loop"
      /\ run = TRUE /\ undefined = FALSE /\ error = FALSE /\ late = FALSE
      /\ doubtful = {}
  BY DEF Init
<1> QED
  BY <1>1, <1>2, <1>3, <1>4, <1>5 DEF Typed, TypeOK, KeysGiven

\* TypeOK is inductive together with the range of the keys.
LEMMA TypedKept == Typed /\ [Next]_vars => Typed'
<1> SUFFICES ASSUME Typed, [Next]_vars
             PROVE  Typed'
  OBVIOUS
<1> USE DEF Typed, TypeOK, KeysGiven
<1>l. Loader \notin Clients
  BY LoaderAssumption
<1>1. ASSUME AskInfo PROVE Typed'
  <2>1. PICK m \in unscanned : Push(Request("info", NoKey, m, Loader))
    BY <1>1 DEF AskInfo
  <2>2. Request("info", NoKey, m, Loader) \in Requests
    BY DEF Request, Requests
  <2>3. /\ req' \in Seq(Requests) /\ req' # <<>> /\ worker # "serving"
        /\ \A i \in DOMAIN req' : req'[i].key \in 0 .. lastKey'
    <3>1. lastKey' = lastKey
      BY <1>1 DEF AskInfo, plugins, python
    <3>2. Request("info", NoKey, m, Loader).key \in 0 .. lastKey'
      BY <3>1 DEF Request, NoKey
    <3> QED
      BY <2>1, <2>2, <3>1, <3>2, PushKeepsKeys
  <2>4. asking' \in [Clients \cup {Loader} -> BOOLEAN]
    BY <1>1 DEF AskInfo, Wait
  <2>5. unscanned' \subseteq Modules
    BY <1>1 DEF AskInfo
  <2> QED
    BY <1>1, <2>3, <2>4, <2>5 DEF AskInfo, plugins, python, history
<1>2. ASSUME NEW c \in Clients, Create(c) PROVE Typed'
  <2>1. PICK m \in available : Push(Request("create", lastKey', m, c))
    BY <1>2 DEF Create
  <2>2. lastKey' = lastKey + 1 /\ Request("create", lastKey', m, c) \in Requests
    BY <1>2 DEF Create, Request, Requests, NoKey
  <2>3. /\ req' \in Seq(Requests) /\ req' # <<>> /\ worker # "serving"
        /\ \A i \in DOMAIN req' : req'[i].key \in 0 .. lastKey'
    BY <2>1, <2>2, PushKeepsKeys DEF Request
  <2>4. DOMAIN modules \subseteq 1 .. lastKey' /\ key' \in [Clients -> 0 .. lastKey']
    BY <1>2, <2>2 DEF Create
  <2> QED
    BY <1>2, <2>2, <2>3, <2>4 DEF Create, loader, python, history
<1>3. ASSUME NEW c \in Clients, SetAttributes(c) \/ Process(c) PROVE Typed'
  <2>1. PICK type \in {"attrs", "process"} : Use(c, type)
    BY <1>3 DEF SetAttributes, Process
  <2>2. Request(type, key[c], NoModule, c) \in Requests
    BY <2>1 DEF Use, Request, Requests, NoKey, Uses
  <2>3. /\ req' \in Seq(Requests) /\ req' # <<>> /\ worker # "serving"
        /\ \A i \in DOMAIN req' : req'[i].key \in 0 .. lastKey'
    <3>1. Push(Request(type, key[c], NoModule, c)) /\ lastKey' = lastKey
      BY <2>1 DEF Use, plugins, python
    <3>2. Request(type, key[c], NoModule, c).key \in 0 .. lastKey'
      BY <3>1 DEF Request
    <3> QED
      BY <2>2, <3>1, <3>2, PushKeepsKeys
  <2>4. asking' \in [Clients \cup {Loader} -> BOOLEAN]
    BY <2>1 DEF Use, Wait
  <2> QED
    BY <2>1, <2>3, <2>4 DEF Use, loader, plugins, python, history
<1>4. ASSUME NEW c \in Clients, Remove(c) PROVE Typed'
  <2>2. Request("remove", key[c], NoModule, c) \in Requests
    BY <1>4 DEF Remove, Request, Requests, NoKey, Uses
  <2>3. /\ req' \in Seq(Requests) /\ req' # <<>> /\ worker # "serving"
        /\ \A i \in DOMAIN req' : req'[i].key \in 0 .. lastKey'
    <3>1. Push(Request("remove", key[c], NoModule, c)) /\ lastKey' = lastKey
      BY <1>4 DEF Remove
    <3>2. Request("remove", key[c], NoModule, c).key \in 0 .. lastKey'
      BY <3>1 DEF Request
    <3> QED
      BY <2>2, <3>1, <3>2, PushKeepsKeys
  <2> QED
    BY <1>4, <2>3 DEF Remove, NoKey, loader, python, history
<1>5. ASSUME NEW t \in Clients \cup {Loader}, Answered(t)
      PROVE  /\ asking' \in [Clients \cup {Loader} -> BOOLEAN]
             /\ answer' \in [Clients \cup {Loader} -> Results \cup Modules \cup {"empty"}]
             /\ answer'[Loader] \in Modules \cup {"none", "empty"}
  BY <1>5 DEF Answered, Results
<1>6. ASSUME NEW c \in Clients, Return(c) PROVE Typed'
  BY <1>5, <1>6 DEF Return, loader, plugins, python, history
<1>7. ASSUME AddPluginInfo PROVE Typed'
  <2>1. available' \subseteq Modules
    BY <1>7 DEF AddPluginInfo, Answered
  <2> QED
    BY <1>5, <1>7, <2>1 DEF AddPluginInfo, plugins, python, history
<1>8. ASSUME Done, worker = "serving", error' \in BOOLEAN, doubtful' \subseteq Modules,
             modules' \in [DOMAIN modules' -> Modules \cup {NoModule}],
             DOMAIN modules' \subseteq 1 .. lastKey,
             answer' \in [Clients \cup {Loader} -> Results \cup Modules \cup {"empty"}],
             answer'[Loader] \in Modules \cup {"none", "empty"}
      PROVE  Typed'
  <2>1. Tail(req) \in Seq(Requests) /\ \A i \in DOMAIN Tail(req) : Tail(req)[i].key \in 0 .. lastKey
    BY <1>8, HeadAndTail
  <2> QED
    BY <1>8, <2>1 DEF Done, TakeNext, loader, plugins
<1>9. ASSUME PyGetPluginInfo PROVE Typed'
  <2>1. Head(req).by = Loader /\ Head(req).module \in Modules
    BY <1>9, HeadAndTail DEF PyGetPluginInfo, Serves, Requests, Uses
  <2>2. error' \in BOOLEAN /\ doubtful' \subseteq Modules
    BY <1>9, <2>1 DEF PyGetPluginInfo
  <2>3. PICK v \in Modules \cup {"empty"} : SetValue(v)
    BY <1>9, <2>1 DEF PyGetPluginInfo
  <2>4. /\ answer' \in [Clients \cup {Loader} -> Results \cup Modules \cup {"empty"}]
        /\ answer'[Loader] \in Modules \cup {"none", "empty"}
    BY <2>1, <2>3 DEF SetValue
  <2> QED
    BY <1>8, <1>9, <2>2, <2>4 DEF PyGetPluginInfo, Serves
<1>10. ASSUME PyCreate PROVE Typed'
  <2>1. Head(req).module \in Modules /\ Head(req).key \in 1 .. lastKey
    BY <1>10, HeadAndTail DEF PyCreate, Serves, Requests, Uses, NoKey
  <2>2. PICK m \in Modules \cup {NoModule} :
            modules' = [k \in DOMAIN modules \cup {Head(req).key} |->
                           IF k \in DOMAIN modules THEN modules[k] ELSE m]
    BY <1>10, <2>1 DEF PyCreate
  <2> QED
    BY <1>8, <1>10, <2>1, <2>2 DEF PyCreate, Serves
<1>11. ASSUME PyDelete PROVE Typed'
  BY <1>8, <1>11 DEF PyDelete, Serves
<1>12. ASSUME PySetAttrs \/ PyProcess PROVE Typed'
  <2>1. Head(req).by \in Clients
    BY <1>12, HeadAndTail DEF PySetAttrs, PyProcess, Serves, Requests, Uses
  <2>2. (\E v \in Results : SetValue(v)) /\ error' \in BOOLEAN
    BY <1>12 DEF PySetAttrs, PyProcess, NoFunction, Results
  <2>3. PICK v \in Results : SetValue(v)
    BY <2>2
  <2>4. /\ answer' \in [Clients \cup {Loader} -> Results \cup Modules \cup {"empty"}]
        /\ answer'[Loader] \in Modules \cup {"none", "empty"}
    BY <1>l, <2>1, <2>3 DEF SetValue
  <2>5. Done /\ worker = "serving" /\ UNCHANGED <<modules, doubtful>>
    BY <1>12 DEF PySetAttrs, PyProcess, Serves
  <2> QED
    BY <1>8, <2>2, <2>4, <2>5
<1>13. ASSUME Poll \/ Sleep \/ Take \/ Leave \/ PyRaises \/ UseNull \/ UseMembers PROVE Typed'
  <2>1. CASE Poll \/ Sleep \/ Take
    BY <2>1 DEF Poll, Sleep, Take, loader, plugins, python, history
  <2>2. CASE Leave
    BY <2>2 DEF Leave, NoModules, loader, plugins, history
  <2>3. CASE PyRaises \/ UseNull \/ UseMembers
    BY <2>3 DEF PyRaises, UseNull, UseMembers, loader, plugins, python, history
  <2> QED
    BY <1>13, <2>1, <2>2, <2>3
<1>14. ASSUME Loaded \/ DestroyMembers \/ StopThread \/ JoinThread PROVE Typed'
  BY <1>14 DEF Loaded, DestroyMembers, StopThread, JoinThread, plugins, python, history
<1>15. ASSUME UNCHANGED vars PROVE Typed'
  BY <1>15 DEF vars
<1> QED
  BY <1>1, <1>2, <1>3, <1>4, <1>6, <1>7, <1>9, <1>10, <1>11, <1>12, <1>13, <1>14, <1>15
     DEF Next, Worker, Serve, Client, Owner

\* Every reachable state of PyManager has the types of its members, and no request
\* names a key that create() has not given.
THEOREM TypeCorrect == Spec => []TypeOK
<1>1. Typed => TypeOK
  BY DEF Typed
<1> QED
  BY <1>1, InitTyped, TypedKept, PTL DEF Spec

----
(* The queue under a push and under a service. *)

\* After a push there is one more pending request.
LEMMA PushPends ==
    ASSUME Typed, NEW r \in Requests, Push(r)
    PROVE  \A type, k : Pending(type, k)' <=> Pending(type, k) \/ (r.type = type /\ r.key = k)
<1>1. req \in Seq(Requests)
  BY DEF Typed, TypeOK
<1> QED
  BY <1>1, PushAppends DEF Pending

\* A request that comes last may be a creation of a new key, or anything about a key
\* whose creation is there or done and whose removal was not asked for.
LEMMA PushOrdered ==
    ASSUME Typed, QueueOrdered, NEW r \in Requests, Push(r), UNCHANGED modules,
           r.type = "create" =>
             r.key \notin DOMAIN modules /\ \A i \in DOMAIN req : req[i].key # r.key,
           r.type \in Uses =>
             /\ r.key \in DOMAIN modules \/ Pending("create", r.key)
             /\ ~Pending("remove", r.key)
    PROVE  QueueOrdered'
<1> DEFINE n == Len(req) + 1
<1>1. /\ Len(req) \in Nat /\ DOMAIN req = 1 .. Len(req) /\ DOMAIN req' = 1 .. n
      /\ \A i \in DOMAIN req : req'[i] = req[i]
      /\ req'[n] = r
  BY PushAppends DEF Typed, TypeOK
<1>2. \A i \in DOMAIN req : req[i] \in Requests
  <2> HIDE DEF Requests
  <2> QED
    BY DEF Typed, TypeOK
<1>3. ASSUME NEW i \in DOMAIN req, req[i].key = r.key
      PROVE  r.type # "create" /\ req[i].type # "remove"
  <2>1. CASE r.type = "info"
    BY <1>2, <1>3, <2>1 DEF Requests, NoKey, Uses
  <2>2. CASE r.type = "create"
    BY <1>3, <2>2
  <2>3. CASE r.type \in Uses
    BY <1>3, <2>3 DEF Pending, Uses
  <2> QED
    BY <2>1, <2>2, <2>3 DEF Requests
<1>4. \A i, j \in DOMAIN req' : i < j /\ SameKey(i, j)' =>
        req'[j].type # "create" /\ req'[i].type # "remove"
  <2> SUFFICES ASSUME NEW i \in DOMAIN req', NEW j \in DOMAIN req',
                      i < j, req'[i].key = req'[j].key
               PROVE  req'[j].type # "create" /\ req'[i].type # "remove"
    BY DEF SameKey
  <2>1. i \in DOMAIN req
    BY <1>1
  <2>2. CASE j \in DOMAIN req
    BY <1>1, <2>1, <2>2 DEF QueueOrdered, SameKey
  <2>3. CASE j = n
    BY <1>1, <1>3, <2>1, <2>3
  <2> QED
    BY <1>1, <2>2, <2>3
<1>5. \A i \in DOMAIN req' : req'[i].type = "create" => req'[i].key \notin DOMAIN modules
  BY <1>1 DEF QueueOrdered
<1>6. ASSUME NEW i \in DOMAIN req', req'[i].type \in Uses
      PROVE  \/ req'[i].key \in DOMAIN modules
             \/ \E j \in DOMAIN req' : j < i /\ req'[j].type = "create" /\ SameKey(i, j)'
  <2>1. CASE i \in DOMAIN req
    BY <1>1, <1>6, <2>1 DEF QueueOrdered, SameKey
  <2>2. CASE i = n
    BY <1>1, <1>6, <2>2 DEF Pending, SameKey
  <2> QED
    BY <1>1, <2>1, <2>2
<1> QED
  BY <1>4, <1>5, <1>6 DEF QueueOrdered

\* What the service of the head does to the modules.
Handled ==
    /\ Head(req).type = "create" => DOMAIN modules' = DOMAIN modules \cup {Head(req).key}
    /\ Head(req).type = "remove" => DOMAIN modules' = DOMAIN modules \ {Head(req).key}
    /\ Head(req).type \notin {"create", "remove"} => modules' = modules

\* After a service there is one pending request less.
LEMMA ServicePends ==
    ASSUME Typed, worker = "serving", TakeNext
    PROVE  \A type, k :
             Pending(type, k) <=> Pending(type, k)' \/ (Head(req).type = type /\ Head(req).key = k)
<1> SUFFICES ASSUME NEW type, NEW k
             PROVE  Pending(type, k) <=>
                      Pending(type, k)' \/ (Head(req).type = type /\ Head(req).key = k)
  OBVIOUS
<1>1. ASSUME Pending(type, k)
      PROVE  Pending(type, k)' \/ (Head(req).type = type /\ Head(req).key = k)
  <2>1. PICK i \in DOMAIN req : req[i].type = type /\ req[i].key = k
    BY <1>1 DEF Pending
  <2>2. CASE i = 1
    BY <2>1, <2>2, HeadAndTail
  <2>3. CASE i # 1
    <3>1. i - 1 \in DOMAIN req' /\ req'[i - 1] = req[(i - 1) + 1]
      BY <2>3, HeadAndTail DEF TakeNext
    <3>2. (i - 1) + 1 = i
      BY DEF Typed, TypeOK
    <3> QED
      BY <2>1, <3>1, <3>2 DEF Pending
  <2> QED
    BY <2>2, <2>3
<1>2. ASSUME Pending(type, k)' PROVE Pending(type, k)
  BY <1>2, HeadAndTail DEF Pending, TakeNext
<1>3. ASSUME Head(req).type = type, Head(req).key = k PROVE Pending(type, k)
  BY <1>3, HeadAndTail DEF Pending
<1> QED
  BY <1>1, <1>2, <1>3

\* The queue stays ordered when its head is served.
LEMMA ServiceOrdered ==
    ASSUME Typed, QueueOrdered, worker = "serving", TakeNext, Handled
    PROVE  QueueOrdered'
<1>1. /\ \A i \in DOMAIN req' : i + 1 \in DOMAIN req /\ req'[i] = req[i + 1]
      /\ DOMAIN req' \subseteq Nat \ {0} /\ DOMAIN req \subseteq Nat
  <2>1. Tail(req) \in Seq(Requests) /\ req \in Seq(Requests)
    BY HeadAndTail DEF Typed, TypeOK
  <2> HIDE DEF Requests
  <2>2. DOMAIN Tail(req) \subseteq Nat \ {0} /\ DOMAIN req \subseteq Nat
    BY <2>1
  <2> QED
    BY <2>2, HeadAndTail DEF TakeNext
<1>2. 1 \in DOMAIN req /\ Head(req) = req[1]
  BY HeadAndTail
<1>3. \A i, j \in DOMAIN req' : i < j /\ SameKey(i, j)' =>
        req'[j].type # "create" /\ req'[i].type # "remove"
  BY <1>1 DEF QueueOrdered, SameKey
<1>4. ASSUME NEW i \in DOMAIN req', req'[i].key = Head(req).key
      PROVE  req'[i].type # "create" /\ Head(req).type # "remove"
  <2>1. 1 < i + 1 /\ i + 1 \in DOMAIN req /\ SameKey(1, i + 1)
    BY <1>1, <1>2, <1>4 DEF SameKey
  <2> QED
    BY <1>1, <1>2, <2>1 DEF QueueOrdered
<1>5. \A i \in DOMAIN req' : req'[i].type = "create" => req'[i].key \notin DOMAIN modules'
  <2> SUFFICES ASSUME NEW i \in DOMAIN req', req'[i].type = "create"
               PROVE  req'[i].key \notin DOMAIN modules'
    OBVIOUS
  <2>1. req'[i].key \notin DOMAIN modules
    BY <1>1 DEF QueueOrdered
  <2>2. req'[i].key # Head(req).key
    BY <1>4
  <2> QED
    BY <2>1, <2>2 DEF Handled
<1>6. ASSUME NEW i \in DOMAIN req', req'[i].type \in Uses
      PROVE  \/ req'[i].key \in DOMAIN modules'
             \/ \E j \in DOMAIN req' : j < i /\ req'[j].type = "create" /\ SameKey(i, j)'
  <2>1. CASE req'[i].key \in DOMAIN modules
    BY <1>4, <2>1 DEF Handled
  <2>2. CASE req'[i].key \notin DOMAIN modules
    <3>1. PICK j \in DOMAIN req : j < i + 1 /\ req[j].type = "create" /\ req[j].key = req'[i].key
      BY <1>1, <1>6, <2>2 DEF QueueOrdered, SameKey
    <3>2. CASE j = 1
      BY <1>2, <3>1, <3>2 DEF Handled
    <3>3. CASE j # 1
      <4>1. j - 1 \in DOMAIN req' /\ j - 1 < i
        BY <1>1, <3>1, <3>3, HeadAndTail DEF TakeNext
      <4>2. req'[j - 1] = req[j]
        <5>1. req'[j - 1] = req[(j - 1) + 1] /\ (j - 1) + 1 = j
          BY <1>1, <4>1
        <5> QED
          BY <5>1
      <4> QED
        BY <3>1, <4>1, <4>2 DEF SameKey
    <3> QED
      BY <3>2, <3>3
  <2> QED
    BY <2>1, <2>2
<1> QED
  BY <1>3, <1>5, <1>6 DEF QueueOrdered

----
(* The order of the queue is inductive. *)

Ordered == QueueOrdered /\ OwnersServed /\ ModulesLeave

LEMMA InitIInv == Init => IInv
<1> SUFFICES ASSUME Init PROVE IInv
  OBVIOUS
<1>1. TypeOK /\ KeysGiven
  BY InitTyped DEF Typed
<1>2. \A c \in Clients : key[c] = NoKey
  BY DEF Init
<1>3. DOMAIN req = {} /\ DOMAIN modules = {} /\ lastKey = 0
  BY DEF Init, NoModules
<1>4. OneOwner /\ OwnersServed
  BY <1>2 DEF OneOwner, OwnersServed
<1>5. QueueOrdered /\ ModulesLeave
  BY <1>3 DEF QueueOrdered, ModulesLeave
<1>6. LeavesWhenTold /\ NullsMeanError
  BY <1>3 DEF Init, LeavesWhenTold, NullsMeanError
<1> QED
  BY <1>1, <1>4, <1>5, <1>6 DEF IInv

\* A request for information or by a plugin that stays leaves every key as it is.
LEMMA AskKept ==
    ASSUME IInv, worker # "done", NEW r \in Requests, Push(r),
           UNCHANGED <<modules, key, lastKey>>,
           r.type \notin {"create", "remove"},
           r.type \in Uses => \E c \in Clients : key[c] # NoKey /\ r.key = key[c]
    PROVE  Ordered'
<1>1. Typed /\ QueueOrdered /\ OwnersServed /\ ModulesLeave
  BY DEF IInv, Typed
<1>2. QueueOrdered'
  BY <1>1, PushOrdered DEF OwnersServed
<1>3. \A k : (Pending("create", k)' <=> Pending("create", k))
             /\ (Pending("remove", k)' <=> Pending("remove", k))
  BY <1>1, PushPends
<1> QED
  BY <1>1, <1>2, <1>3 DEF Ordered, OwnersServed, ModulesLeave, Owned

LEMMA CreateKept ==
    ASSUME IInv, worker # "done", NEW c \in Clients, Create(c)
    PROVE  Ordered' /\ OneOwner'
<1>1. Typed /\ QueueOrdered /\ OwnersServed /\ ModulesLeave /\ OneOwner
  BY DEF IInv, Typed
<1>2. PICK m \in available : Push(Request("create", lastKey', m, c))
  BY DEF Create
<1> DEFINE r == Request("create", lastKey', m, c)
<1>3. /\ lastKey \in Nat /\ lastKey' = lastKey + 1 /\ UNCHANGED modules
      /\ key' = [key EXCEPT ![c] = lastKey'] /\ key[c] = NoKey
      /\ key \in [Clients -> 0 .. lastKey]
      /\ r \in Requests /\ r.type = "create" /\ r.key = lastKey'
  BY <1>1 DEF Create, Request, Requests, NoKey, Typed, TypeOK, python
<1>4. /\ \A i \in DOMAIN req : req[i].key # lastKey'
      /\ lastKey' \notin DOMAIN modules
  BY <1>1, <1>3 DEF Typed, KeysGiven, TypeOK
<1> HIDE DEF r
<1>5. QueueOrdered'
  BY <1>1, <1>2, <1>3, <1>4, PushOrdered DEF r, Uses
<1>6. \A k : /\ Pending("create", k)' <=> Pending("create", k) \/ k = lastKey'
             /\ Pending("remove", k)' <=> Pending("remove", k)
  BY <1>1, <1>2, <1>3, PushPends DEF r
<1>7. ~Pending("remove", lastKey')
  BY <1>4 DEF Pending
<1>8. key'[c] = lastKey' /\ \A d \in Clients \ {c} : key'[d] = key[d] /\ key[d] # lastKey'
  BY <1>3
<1>9. OwnersServed'
  BY <1>1, <1>3, <1>6, <1>7, <1>8 DEF OwnersServed
<1>10. ModulesLeave'
  <2> SUFFICES ASSUME NEW k \in 1 .. lastKey',
                      k \in DOMAIN modules \/ Pending("create", k)'
               PROVE  Owned(k)' \/ Pending("remove", k)'
    BY <1>3 DEF ModulesLeave
  <2>1. CASE k = lastKey'
    BY <1>8, <2>1 DEF Owned
  <2>2. CASE k # lastKey'
    <3>1. k \in 1 .. lastKey /\ (Owned(k) \/ Pending("remove", k))
      BY <1>1, <1>3, <1>6, <2>2 DEF ModulesLeave
    <3>2. CASE Owned(k)
      BY <1>3, <1>8, <3>1, <3>2 DEF Owned, NoKey
    <3> QED
      BY <1>6, <3>1, <3>2
  <2> QED
    BY <2>1, <2>2
<1>11. OneOwner'
  BY <1>1, <1>8 DEF OneOwner
<1> QED
  BY <1>5, <1>9, <1>10, <1>11 DEF Ordered

LEMMA RemoveKept ==
    ASSUME IInv, worker # "done", NEW c \in Clients, Remove(c)
    PROVE  Ordered'
<1>1. Typed /\ QueueOrdered /\ OwnersServed /\ ModulesLeave /\ OneOwner
  BY DEF IInv, Typed
<1> DEFINE r == Request("remove", key[c], NoModule, c)
<1>3. /\ Push(r) /\ r \in Requests /\ r.type = "remove" /\ r.key = key[c] /\ key[c] # NoKey
      /\ UNCHANGED <<modules, lastKey>>
      /\ key'[c] = NoKey /\ \A d \in Clients \ {c} : key'[d] = key[d]
  BY <1>1 DEF Remove, Request, Requests, NoKey, Uses, Typed, TypeOK, python
<1> HIDE DEF r
<1>4. /\ key[c] \in DOMAIN modules \/ Pending("create", key[c])
      /\ ~Pending("remove", key[c])
  BY <1>1, <1>3 DEF OwnersServed
<1>5. QueueOrdered'
  BY <1>1, <1>3, <1>4, PushOrdered
<1>6. \A k : /\ Pending("create", k)' <=> Pending("create", k)
             /\ Pending("remove", k)' <=> Pending("remove", k) \/ k = key[c]
  BY <1>1, <1>3, PushPends
<1>7. OwnersServed'
  <2> SUFFICES ASSUME NEW d \in Clients, NEW k, k = key'[d], k # NoKey
               PROVE  /\ k \in DOMAIN modules \/ Pending("create", k)'
                      /\ ~Pending("remove", k)'
    BY <1>3 DEF OwnersServed, Pending
  <2>1. d # c /\ key'[d] = key[d]
    BY <1>3
  <2>2. key[d] # key[c]
    BY <1>1, <1>3, <2>1 DEF OneOwner
  <2> QED
    BY <1>1, <1>6, <2>1, <2>2 DEF OwnersServed
<1>8. ModulesLeave'
  BY <1>1, <1>3, <1>6 DEF ModulesLeave, Owned
<1> QED
  BY <1>5, <1>7, <1>8 DEF Ordered

LEMMA ServiceKept ==
    ASSUME IInv, worker = "serving", TakeNext, Handled, UNCHANGED <<key, lastKey>>
    PROVE  Ordered'
<1>1. Typed /\ QueueOrdered /\ OwnersServed /\ ModulesLeave
  BY DEF IInv, Typed
<1>2. QueueOrdered'
  BY <1>1, ServiceOrdered
<1>3. \A type, k :
        Pending(type, k) <=> Pending(type, k)' \/ (Head(req).type = type /\ Head(req).key = k)
  BY <1>1, ServicePends
<1>4. OwnersServed'
  BY <1>1, <1>3 DEF OwnersServed, Handled
<1>5. ASSUME Head(req).type = "remove" PROVE ~Pending("create", Head(req).key)
  <2> SUFFICES ASSUME NEW i \in DOMAIN req, req[i].type = "create", req[i].key = Head(req).key
               PROVE  FALSE
    BY DEF Pending
  <2>1. Head(req) = req[1] /\ 1 \in DOMAIN req /\ DOMAIN req \subseteq Nat \ {0}
    <3> HIDE DEF Requests
    <3>1. req \in Seq(Requests)
      BY <1>1 DEF Typed, TypeOK
    <3>2. DOMAIN req \subseteq Nat \ {0}
      BY <3>1
    <3> QED
      BY <1>1, <3>2, HeadAndTail
  <2>2. i # 1 /\ 1 < i
    BY <1>5, <2>1
  <2> QED
    BY <1>1, <2>1, <2>2 DEF QueueOrdered, SameKey
<1>6. ModulesLeave'
  <2> SUFFICES ASSUME NEW k \in 1 .. lastKey, k \in DOMAIN modules' \/ Pending("create", k)'
               PROVE  Owned(k) \/ Pending("remove", k)'
    BY DEF ModulesLeave, Owned
  <2>1. k \in DOMAIN modules \/ Pending("create", k)
    BY <1>3 DEF Handled
  <2>2. ~(Head(req).type = "remove" /\ Head(req).key = k)
    BY <1>3, <1>5 DEF Handled
  <2> QED
    BY <1>1, <1>3, <2>1, <2>2 DEF ModulesLeave
<1> QED
  BY <1>2, <1>4, <1>6 DEF Ordered

\* A null is stored where the error is set, and the error stays.
LEMMA NullsKept == Typed /\ NullsMeanError /\ [Next]_vars => NullsMeanError'
<1> SUFFICES ASSUME Typed, NullsMeanError, [Next]_vars
             PROVE  NullsMeanError'
  OBVIOUS
<1>1. CASE PyCreate
  <2>1. PICK m \in {Head(req).module} \cup (IF error THEN {NoModule} ELSE {}) :
            modules' = [k \in DOMAIN modules \cup {Head(req).key} |->
                           IF k \in DOMAIN modules THEN modules[k] ELSE m]
    BY <1>1 DEF PyCreate
  <2>2. Head(req).module \in Modules
    BY <1>1, HeadAndTail DEF PyCreate, Serves, Requests, Uses
  <2>3. m = NoModule => error
    BY <2>1, <2>2, LoaderAssumption DEF NoModule
  <2> QED
    BY <1>1, <2>1, <2>3 DEF PyCreate, NullsMeanError
<1>2. CASE PyDelete
  BY <1>2 DEF PyDelete, NullsMeanError
<1>3. CASE Leave
  BY <1>3 DEF Leave, NoModules, NullsMeanError
<1>4. ASSUME UNCHANGED modules, error => error' PROVE NullsMeanError'
  BY <1>4 DEF NullsMeanError
<1>5. CASE PyGetPluginInfo \/ PySetAttrs \/ PyProcess
  BY <1>4, <1>5 DEF PyGetPluginInfo, PySetAttrs, PyProcess, NoFunction
<1>6. CASE Poll \/ Sleep \/ Take \/ PyRaises \/ UseNull \/ UseMembers
  BY <1>4, <1>6 DEF Poll, Sleep, Take, PyRaises, UseNull, UseMembers, python
<1>7. CASE Owner
  BY <1>4, <1>7 DEF Owner, AskInfo, AddPluginInfo, Loaded, DestroyMembers, StopThread,
                    JoinThread, python
<1>8. CASE \E c \in Clients : Client(c)
  <2>1. PICK c \in Clients : Client(c)
    BY <1>8
  <2> QED
    BY <1>4, <2>1 DEF Client, Create, SetAttributes, Process, Use, Return, Remove, python
<1>9. CASE UNCHANGED vars
  BY <1>4, <1>9 DEF vars
<1> QED
  BY <1>1, <1>2, <1>3, <1>5, <1>6, <1>7, <1>8, <1>9 DEF Next, Worker, Serve

\* Every step keeps the invariant: the requests are pushed in an order that makes sense
\* and served in that order, until the worker leaves its loop.
LEMMA IInvKept == IInv /\ [Next]_vars => IInv'
<1> SUFFICES ASSUME IInv, [Next]_vars
             PROVE  IInv'
  OBVIOUS
<1>t. Typed /\ Typed'
  BY TypedKept DEF IInv, Typed
<1>o. worker # "done" => Ordered
  BY DEF IInv, Ordered
<1>n. NullsMeanError'
  BY <1>t, NullsKept DEF IInv
<1>g. SUFFICES OneOwner' /\ LeavesWhenTold' /\ (worker' # "done" => Ordered')
  BY <1>t, <1>n DEF IInv, Typed, Ordered
<1>1. CASE AskInfo
  <2>1. PICK m \in unscanned : Push(Request("info", NoKey, m, Loader))
    BY <1>1 DEF AskInfo
  <2>2. Request("info", NoKey, m, Loader) \in Requests /\ Request("info", NoKey, m, Loader).type = "info"
    BY <1>t DEF Request, Requests, Typed, TypeOK
  <2>3. UNCHANGED <<manager, worker, run, modules, key, lastKey>>
    BY <1>1 DEF AskInfo, plugins, python
  <2>4. worker' # "done" => Ordered'
    BY <2>1, <2>2, <2>3, AskKept DEF Uses
  <2> QED
    BY <2>3, <2>4 DEF IInv, OneOwner, LeavesWhenTold
<1>2. CASE \E c \in Clients : Create(c)
  <2>1. PICK c \in Clients : Create(c)
    BY <1>2
  <2>2. UNCHANGED <<manager, worker, run>> /\ manager = "alive"
    BY <2>1 DEF Create, loader, python
  <2>3. worker # "done"
    BY <2>2 DEF IInv, LeavesWhenTold
  <2> QED
    BY <2>1, <2>2, <2>3, CreateKept DEF IInv, LeavesWhenTold
<1>3. CASE \E c \in Clients : SetAttributes(c) \/ Process(c)
  <2>1. PICK c \in Clients, type \in {"attrs", "process"} : Use(c, type)
    BY <1>3 DEF SetAttributes, Process
  <2>2. /\ Request(type, key[c], NoModule, c) \in Requests
        /\ Request(type, key[c], NoModule, c).type = type
        /\ Request(type, key[c], NoModule, c).key = key[c]
    BY <1>t, <2>1 DEF Use, Request, Requests, NoKey, Uses, Typed, TypeOK
  <2>3. /\ UNCHANGED <<manager, worker, run, modules, key, lastKey>>
        /\ key[c] # NoKey /\ Push(Request(type, key[c], NoModule, c))
    BY <2>1 DEF Use, loader, plugins, python
  <2>4. worker' # "done" => Ordered'
    BY <2>2, <2>3, AskKept
  <2> QED
    BY <2>3, <2>4 DEF IInv, OneOwner, LeavesWhenTold
<1>4. CASE \E c \in Clients : Remove(c)
  <2>1. PICK c \in Clients : Remove(c)
    BY <1>4
  <2>2. UNCHANGED <<manager, worker, run>> /\ key' = [key EXCEPT ![c] = NoKey]
    BY <2>1 DEF Remove, loader, python
  <2>3. OneOwner'
    BY <1>t, <2>2 DEF IInv, OneOwner, Typed, TypeOK
  <2> QED
    BY <2>1, <2>2, <2>3, RemoveKept DEF IInv, LeavesWhenTold
<1>5. CASE Serve
  <2>1. worker = "serving" /\ Done /\ Handled
    BY <1>5 DEF Serve, PyGetPluginInfo, PyCreate, PyDelete, PySetAttrs, PyProcess, Serves, Handled
  <2>2. UNCHANGED <<manager, run, key, lastKey>> /\ worker' = "loop" /\ TakeNext
    BY <2>1 DEF Done, loader, plugins
  <2> QED
    BY <2>1, <2>2, ServiceKept DEF IInv, OneOwner, LeavesWhenTold
<1>6. CASE Leave
  BY <1>6 DEF Leave, IInv, OneOwner, LeavesWhenTold, loader, plugins
<1>7. ASSUME UNCHANGED <<req, modules, key, lastKey>>, worker = "done" => worker' = "done",
             LeavesWhenTold'
      PROVE  OneOwner' /\ LeavesWhenTold' /\ (worker' # "done" => Ordered')
  <2>1. OneOwner'
    BY <1>7 DEF IInv, OneOwner
  <2>2. Ordered => Ordered'
    <3>1. QueueOrdered => QueueOrdered'
      BY <1>7 DEF QueueOrdered, SameKey
    <3>2. OwnersServed => OwnersServed'
      BY <1>7 DEF OwnersServed, Pending
    <3>3. ModulesLeave => ModulesLeave'
      BY <1>7 DEF ModulesLeave, Pending, Owned
    <3> QED
      BY <3>1, <3>2, <3>3 DEF Ordered
  <2>3. worker' # "done" => Ordered'
    BY <1>7, <1>o, <2>2
  <2> QED
    BY <1>7, <2>1, <2>3
<1>8. CASE Poll \/ Sleep \/ Take \/ PyRaises \/ UseNull \/ UseMembers \/ (\E c \in Clients : Return(c)) \/ AddPluginInfo
  <2>1. /\ UNCHANGED <<manager, run, req, modules, key, lastKey>>
        /\ worker = "done" <=> worker' = "done"
    <3>1. CASE Poll \/ Sleep \/ Take
      BY <3>1 DEF Poll, Sleep, Take, loader, plugins, python
    <3>2. CASE PyRaises \/ UseNull \/ UseMembers
      BY <3>2 DEF PyRaises, UseNull, UseMembers, loader, plugins, python
    <3>3. CASE \E c \in Clients : Return(c)
      BY <3>3 DEF Return, loader, plugins, python
    <3>4. CASE AddPluginInfo
      BY <3>4 DEF AddPluginInfo, plugins, python
    <3> QED
      BY <1>8, <3>1, <3>2, <3>3, <3>4
  <2>2. LeavesWhenTold'
    BY <2>1 DEF IInv, LeavesWhenTold
  <2> QED
    BY <1>7, <2>1, <2>2
<1>9. CASE Loaded \/ DestroyMembers \/ StopThread \/ JoinThread
  <2>1. UNCHANGED <<req, modules, key, lastKey, worker>>
    BY <1>9 DEF Loaded, DestroyMembers, StopThread, JoinThread, plugins, python
  <2>2. LeavesWhenTold'
    BY <1>9 DEF Loaded, DestroyMembers, StopThread, JoinThread, IInv, LeavesWhenTold, plugins, python
  <2> QED
    BY <1>7, <2>1, <2>2
<1>10. CASE UNCHANGED vars
  BY <1>7, <1>10 DEF vars, IInv, LeavesWhenTold
<1> QED
  BY <1>1, <1>2, <1>3, <1>4, <1>5, <1>6, <1>8, <1>9, <1>10 DEF Next, Worker, Client, Owner

\* No request is served before its module was created or after it was removed, nor with a
\* null for its module unless Python's error indicator was set.
THEOREM ServedAliveHolds == Spec => []ServedAlive
<1>1. IInv => ServedAlive
  <2> SUFFICES ASSUME IInv, worker = "serving", Head(req).type \in Uses
               PROVE  Head(req).key \in DOMAIN modules
    BY DEF ServedAlive, Found, Null, IInv, NullsMeanError
  <2>1. Head(req) = req[1] /\ 1 \in DOMAIN req /\ ~\E j \in DOMAIN req : j < 1
    <3>1. req \in Seq(Requests)
      BY DEF IInv, TypeOK
    <3>2. ~\E j \in DOMAIN req : j < 1
      BY <3>1
    <3> QED
      BY <3>2, HeadAndTail DEF IInv, Typed
  <2> QED
    BY <2>1 DEF IInv, QueueOrdered
<1> QED
  BY <1>1, InitIInv, IInvKept, PTL DEF Spec

\* As long as the members of PyManager live, a module is held or about to be exactly as
\* long as its key is owned or its removal is queued, and a key has one owner.
THEOREM ModulesAreOwnedHolds == Spec => []ModulesAreOwned
<1>1. IInv => ModulesAreOwned
  <2> SUFFICES ASSUME IInv, Intact PROVE ModulesAreOwned
    BY DEF ModulesAreOwned
  <2>1. QueueOrdered /\ OwnersServed /\ ModulesLeave /\ OneOwner
    BY DEF IInv, LeavesWhenTold, Intact
  <2>2. ASSUME NEW k \in 1 .. lastKey, Owned(k)
        PROVE  k \in DOMAIN modules \/ Pending("create", k)
    BY <2>1, <2>2 DEF OwnersServed, Owned, NoKey
  <2>3. ASSUME NEW k \in 1 .. lastKey, Pending("remove", k)
        PROVE  k \in DOMAIN modules \/ Pending("create", k)
    BY <2>1, <2>3 DEF QueueOrdered, Pending, SameKey, Uses
  <2> QED
    BY <2>1, <2>2, <2>3 DEF ModulesAreOwned, ModulesLeave, OneOwner
<1> QED
  BY <1>1, InitIInv, IInvKept, PTL DEF Spec

----
(* The exit of the process. *)

\* Once the members are destroyed nobody asks any more; if no request was left then,
\* no module was either.
AfterExit ==
    ~Intact =>
        /\ \A c \in Clients : key[c] = NoKey
        /\ ~late => req = <<>> /\ DOMAIN modules = {}

ExitInv == IInv /\ AfterExit

LEMMA ExitInvKept == ExitInv /\ [Next]_vars => ExitInv'
<1> SUFFICES ASSUME ExitInv, [Next]_vars
             PROVE  AfterExit'
  BY IInvKept DEF ExitInv
<1>i. IInv /\ AfterExit /\ Typed
  BY DEF ExitInv, IInv, Typed
<1>1. ASSUME Intact' PROVE AfterExit'
  BY <1>1 DEF AfterExit
<1>2. ASSUME UNCHANGED <<manager, req, modules, key, late>> PROVE AfterExit'
  BY <1>i, <1>2 DEF AfterExit, Intact
<1>3. CASE AskInfo \/ Loaded
  BY <1>1, <1>3 DEF AskInfo, Loaded, Intact
<1>4. CASE AddPluginInfo \/ Poll \/ Sleep \/ Take \/ PyRaises \/ UseNull \/ UseMembers
  <2>1. CASE AddPluginInfo \/ Poll \/ Sleep \/ Take
    BY <1>2, <2>1 DEF AddPluginInfo, Poll, Sleep, Take, loader, plugins, python, history
  <2>2. CASE PyRaises \/ UseNull \/ UseMembers
    BY <1>2, <2>2 DEF PyRaises, UseNull, UseMembers, loader, plugins, python, history
  <2> QED
    BY <1>4, <2>1, <2>2
<1>5. CASE StopThread \/ JoinThread
  <2>1. UNCHANGED <<req, modules, key, late>> /\ ~Intact /\ ~Intact'
    BY <1>5 DEF StopThread, JoinThread, plugins, python, history, Intact
  <2> QED
    BY <1>i, <2>1 DEF AfterExit
<1>6. CASE \E c \in Clients : Client(c)
  <2>1. PICK c \in Clients : Client(c)
    BY <1>6
  <2>2. CASE Return(c)
    BY <1>2, <2>2 DEF Return, loader, plugins, python, history
  <2>3. CASE Create(c)
    BY <1>1, <2>3 DEF Create, loader, Intact
  <2>4. ASSUME key[c] # NoKey, UNCHANGED manager PROVE AfterExit'
    BY <1>i, <1>1, <2>4 DEF AfterExit, Intact
  <2>5. CASE SetAttributes(c) \/ Process(c)
    BY <2>4, <2>5 DEF SetAttributes, Process, Use, loader
  <2>6. CASE Remove(c)
    BY <2>4, <2>6 DEF Remove, loader
  <2> QED
    BY <2>1, <2>2, <2>3, <2>5, <2>6 DEF Client
<1>7. CASE Serve
  <2>1. worker = "serving" /\ UNCHANGED <<manager, key, late>>
    BY <1>7 DEF Serve, PyGetPluginInfo, PyCreate, PyDelete, PySetAttrs, PyProcess, Serves, Done,
                loader, plugins
  <2>2. req # <<>>
    BY <1>i, <2>1 DEF Typed, TypeOK
  <2> QED
    BY <1>i, <2>1, <2>2 DEF AfterExit, Intact
<1>8. CASE Leave
  <2>1. DOMAIN modules' = {} /\ UNCHANGED <<manager, req, key, late>>
    BY <1>8 DEF Leave, NoModules, loader, plugins, history
  <2> QED
    BY <1>i, <2>1 DEF AfterExit, Intact
<1>9. CASE DestroyMembers
  <2>1. /\ Intact /\ \A c \in Clients : key[c] = NoKey
        /\ late' = (req # <<>>) /\ UNCHANGED <<req, modules, key>>
    BY <1>9 DEF DestroyMembers, plugins, python, Intact
  <2>2. ASSUME req = <<>> PROVE DOMAIN modules = {}
    <3>1. ModulesLeave /\ DOMAIN modules \subseteq 1 .. lastKey
      BY <1>i, <2>1 DEF IInv, LeavesWhenTold, Intact, TypeOK
    <3>2. \A k : ~Owned(k) \/ k = NoKey
      BY <2>1 DEF Owned
    <3>3. \A k : ~Pending("remove", k)
      BY <2>2 DEF Pending
    <3> QED
      BY <3>1, <3>2, <3>3 DEF ModulesLeave, NoKey
  <2>3. ~late' => req = <<>>
    BY <2>1
  <2> QED
    BY <2>1, <2>2, <2>3 DEF AfterExit
<1>10. CASE UNCHANGED vars
  BY <1>2, <1>10 DEF vars
<1> QED
  BY <1>3, <1>4, <1>5, <1>6, <1>7, <1>8, <1>9, <1>10 DEF Next, Worker, Owner

\* At the exit of the process, if every request was served when the members of PyManager
\* were destroyed, the worker finds nothing to serve and nothing to release in them.
THEOREM ExitFindsNothingHolds == Spec => []ExitFindsNothing
<1>1. Init => ExitInv
  <2>1. Init => IInv
    BY InitIInv
  <2>2. Init => AfterExit
    BY DEF Init, AfterExit, Intact
  <2> QED
    BY <2>1, <2>2 DEF ExitInv
<1>2. ExitInv => ExitFindsNothing
  <2> SUFFICES ASSUME ExitInv, ~Intact, ~late PROVE req = <<>> /\ modules = NoModules
    BY DEF ExitFindsNothing
  <2>1. req = <<>> /\ DOMAIN modules = {}
    BY DEF ExitInv, AfterExit
  <2>2. modules \in [DOMAIN modules -> Modules \cup {NoModule}]
    BY DEF ExitInv, IInv, TypeOK
  <2> QED
    BY <2>1, <2>2 DEF NoModules
<1> QED
  BY <1>1, <1>2, ExitInvKept, PTL DEF Spec
====
