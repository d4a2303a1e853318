---- MODULE PyManager ----
(***************************************************************************)
(* The Python plugins: PyManager, its queue and its one Python thread,     *)
(* the PyPlugin objects that use it, and the PluginLoader that owns it.    *)
(*                                                                         *)
(* Python runs on the thread of PyManager only.  Every other thread pushes *)
(* a request under the mutex and, unless the request is to create or to    *)
(* remove, waits for a promise on its own stack.  The worker holds the     *)
(* mutex while it serves a request.                                        *)
(***************************************************************************)
EXTENDS Integers, Sequences

CONSTANTS
    Clients,        \* users of one PyPlugin each: a session's threads in turn
    Loader,         \* the thread that constructs the PluginLoader
    Modules,        \* the Python files in the plugin directory
    Importable,     \* those of them that import
    Fickle,         \* TRUE: a Python function may raise
    MaxKeys         \* bound on the plugins created

ASSUME LoaderAssumption == Loader \notin Clients \cup Modules
ASSUME ModulesAssumption == Importable \subseteq Modules
ASSUME MaxKeysAssumption == MaxKeys \in Nat /\ Fickle \in BOOLEAN

VARIABLES
    manager,    \* "loading", "alive", then at exit "destroyed", "joining", "gone"
    unscanned,  \* files PluginLoader::getSharedPathList has still to look at
    available,  \* PluginLoader::_availablePlugins
    req,        \* PyManager::_req; while the worker serves, its head is in service
    modules,    \* PyManager::_modules: the module of a key
    worker,     \* the Python thread: "loop", "polling", "serving" (it holds _m), "done"
    run,        \* ThreadRunner::_run
    lastKey,    \* the static counter of create()
    key,        \* per client: PyPlugin::_pluginId, 0 where it has no PyPlugin
    asking,     \* per thread: the file or key its unanswered request is about, or 0
    answer,     \* per thread: the value in its promise, or "none"
    error,      \* Python's error indicator was set: nothing in PyManager ever clears it
    undefined,  \* the program did what C++ leaves undefined
    \* For the properties:
    doubtful,   \* files that PluginLoader asked about while `error` was set
    late        \* members were destroyed before every request was served

vars == <<manager, unscanned, available, req, modules, worker, run, lastKey, key,
          asking, answer, error, undefined, doubtful, late>>

loader == <<manager, unscanned, available>>
plugins == <<lastKey, key>>
python == <<modules, error>>
history == <<doubtful, late>>

NoKey == 0
NoModule == Loader   \* the null of an import that failed; any value that is no module
NoModules == [k \in {} |-> NoModule]
Waits(t) == asking[t]

Init ==
    /\ manager = "loading"
    /\ unscanned = Modules
    /\ available = {}
    /\ req = <<>>
    /\ modules = NoModules
    /\ worker = "loop"
    /\ run = TRUE
    /\ lastKey = 0
    /\ key = [c \in Clients |-> NoKey]
    /\ asking = [t \in Clients \cup {Loader} |-> FALSE]
    /\ answer = [t \in Clients \cup {Loader} |-> "none"]
    /\ error = FALSE
    /\ undefined = FALSE
    /\ doubtful = {} /\ late = FALSE

MutexFree == worker # "serving"

Uses == {"attrs", "process", "remove"}   \* requests about a module that is there
Request(type, k, m, t) == [type |-> type, key |-> k, module |-> m, by |-> t]
PushFirst(r) == MutexFree /\ req' = <<r>> \o req   \* variant: a stack
Push(r) == MutexFree /\ req' = Append(req, r)
Wait(t) == asking' = [asking EXCEPT ![t] = TRUE]

\* f.get(): the promise has its value; the promise is gone when the call returns.
Answered(t) ==
    /\ Waits(t) /\ answer[t] # "none"
    /\ asking' = [asking EXCEPT ![t] = FALSE]
    /\ answer' = [answer EXCEPT ![t] = "none"]

----
(* PluginLoader: its constructor scans the directory, before any client. *)

\* getPluginInfo() for the next file.
AskInfo ==
    /\ manager = "loading"
    /\ ~Waits(Loader)
    /\ \E m \in unscanned :
        /\ Push(Request("info", NoKey, m, Loader))
        /\ unscanned' = unscanned \ {m}
    /\ Wait(Loader)
    /\ UNCHANGED <<manager, available, python, worker, run, plugins, answer,
                   undefined, history>>

\* addPluginInfoForPy(): an empty answer names no library, and is not listed.
AddPluginInfo ==
    /\ Answered(Loader)
    /\ available' = IF answer[Loader] = "empty" THEN available
                    ELSE available \cup {answer[Loader]}
    /\ UNCHANGED <<manager, unscanned, req, python, worker, run, plugins,
                   undefined, history>>

Loaded ==
    /\ manager = "loading"
    /\ ~Waits(Loader) /\ unscanned = {}
    /\ manager' = "alive"
    /\ UNCHANGED <<unscanned, available, req, python, worker, run, plugins, asking,
                   answer, undefined, history>>

----
(* PyPlugin: constructor, setAttrs, process and destructor. *)

Create(c) ==
    /\ manager = "alive"
    /\ key[c] = NoKey
    /\ lastKey < MaxKeys
    /\ lastKey' = lastKey + 1
    /\ key' = [key EXCEPT ![c] = lastKey']
    /\ \E m \in available : Push(Request("create", lastKey', m, c))
    /\ UNCHANGED <<loader, python, worker, run, asking, answer, undefined, history>>

Use(c, type) ==
    /\ key[c] # NoKey
    /\ ~Waits(c)
    /\ Push(Request(type, key[c], NoModule, c))
    /\ Wait(c)
    /\ UNCHANGED <<loader, python, worker, run, plugins, answer, undefined, history>>

SetAttributes(c) == Use(c, "attrs")
Process(c) == Use(c, "process")

Return(c) ==
    /\ Answered(c)
    /\ UNCHANGED <<loader, req, python, worker, run, plugins, undefined, history>>

RemoveNot(c) ==   \* variant: ~PyPlugin asks for nothing
    /\ key[c] # NoKey
    /\ ~Waits(c)
    /\ key' = [key EXCEPT ![c] = NoKey]
    /\ UNCHANGED <<loader, req, python, worker, run, lastKey, asking, answer,
                   undefined, history>>

Remove(c) ==
    /\ key[c] # NoKey
    /\ ~Waits(c)
    /\ Push(Request("remove", key[c], NoModule, c))
    /\ key' = [key EXCEPT ![c] = NoKey]
    /\ UNCHANGED <<loader, python, worker, run, lastKey, asking, answer,
                   undefined, history>>

----
(* PyManager::worker *)

\* The loop is entered again: _run was still set then.
Poll ==
    /\ worker = "loop"
    /\ run
    /\ worker' = "polling"
    /\ UNCHANGED <<loader, req, python, run, plugins, asking, answer, undefined, history>>

Sleep ==
    /\ worker = "polling"
    /\ req = <<>>
    /\ worker' = "loop"
    /\ UNCHANGED <<loader, req, python, run, plugins, asking, answer, undefined, history>>

Take ==
    /\ worker = "polling"
    /\ req # <<>>
    /\ worker' = "serving"
    /\ UNCHANGED <<loader, req, python, run, plugins, asking, answer, undefined, history>>

Serves(type) == worker = "serving" /\ Head(req).type = type

\* _req.pop(); the request stays the head while it is served.
TakeNext == req' = Tail(req)

Done ==
    /\ TakeNext
    /\ worker' = "loop"
    /\ UNCHANGED <<loader, run, plugins, asking, undefined, late>>

SetValue(v) == answer' = [answer EXCEPT ![Head(req).by] = v]

\* An import that fails leaves the error indicator set, and one that finds it set may fail
\* as well, whatever the file.
PyGetPluginInfo ==
    /\ Serves("info")
    /\ \/ Head(req).module \in Importable /\ SetValue(Head(req).module) /\ UNCHANGED error
       \/ (Head(req).module \in Importable => error) /\ SetValue("empty") /\ error' = TRUE
    /\ doubtful' = IF error THEN doubtful \cup {Head(req).module} ELSE doubtful
    /\ Done
    /\ UNCHANGED modules

\* The import gives the one module object that Python has for the file, or a null, which
\* is stored as if it were one.
PyCreate ==
    /\ Serves("create")
    /\ \E m \in {Head(req).module} \cup (IF error THEN {NoModule} ELSE {}) :
        modules' = [k \in DOMAIN modules \cup {Head(req).key} |->
                       IF k \in DOMAIN modules THEN modules[k] ELSE m]
    /\ Done
    /\ UNCHANGED <<answer, error, doubtful>>

Found == Head(req).key \in DOMAIN modules
Null == Found /\ modules[Head(req).key] = NoModule

PyDeleteKeeps ==   \* variant: the entry is not erased
    /\ Serves("remove") /\ ~Null
    /\ Done
    /\ UNCHANGED <<python, answer, doubtful>>

PyDelete ==
    /\ Serves("remove") /\ ~Null
    /\ modules' = [k \in DOMAIN modules \ {Head(req).key} |-> modules[k]]
    /\ Done
    /\ UNCHANGED <<answer, error, doubtful>>

\* The module has no function of that name: Python notes an AttributeError.
NoFunction(v) == Found /\ SetValue(v) /\ error' = TRUE

PySetAttrsSilent ==   \* variant: no answer where the module has no setAttrs
    /\ Serves("attrs") /\ ~Null
    /\ \/ SetValue("refused") /\ UNCHANGED error
       \/ Found /\ SetValue("done") /\ UNCHANGED error
       \/ NoFunction("none")
    /\ Done
    /\ UNCHANGED <<modules, doubtful>>

\* The module accepts or refuses the attributes, or has no setAttrs; a key without a
\* module is answered like a refusal.
PySetAttrs ==
    /\ Serves("attrs") /\ ~Null
    /\ \/ SetValue("refused") /\ UNCHANGED error
       \/ Found /\ SetValue("done") /\ UNCHANGED error
       \/ NoFunction("refused")
    /\ Done
    /\ UNCHANGED <<modules, doubtful>>

\* A key without a module, or a module without process, is answered with an outcome that
\* detects nothing.
PyProcess ==
    /\ Serves("process") /\ ~Null
    /\ \/ SetValue(IF Found THEN "outcome" ELSE "nothing") /\ UNCHANGED error
       \/ NoFunction("nothing")
    /\ Done
    /\ UNCHANGED <<modules, doubtful>>

\* The function raises, or fails on the error that is set already, or the module of a file
\* has not all functions of a plugin: the null that Python returns is used unchecked.  It stands
\* for the dictionary of pySetAttrs as well, released once more than it was acquired.
PyRaises ==
    /\ Fickle \/ error
    /\ \/ Serves("info") /\ Head(req).module \in Importable
       \/ (Serves("attrs") \/ Serves("process")) /\ Found /\ ~Null
    /\ undefined' = TRUE
    /\ UNCHANGED <<loader, req, python, worker, run, plugins, asking, answer, history>>

NullHeld == \E k \in DOMAIN modules : modules[k] = NoModule

\* A null that was stored as a module is used or released unchecked.
UseNull ==
    /\ \/ worker = "serving" /\ Head(req).type \in Uses /\ Null
       \/ worker = "loop" /\ ~run /\ NullHeld
    /\ undefined' = TRUE
    /\ UNCHANGED <<loader, req, python, worker, run, plugins, asking, answer, history>>

\* The loop is left: the modules that remain are released.
Leave ==
    /\ worker = "loop"
    /\ ~run
    /\ ~NullHeld
    /\ modules' = NoModules
    /\ worker' = "done"
    /\ UNCHANGED <<loader, req, run, plugins, asking, answer, error, undefined, history>>

\* The members of PyManager have been destroyed, and the thread goes on to lock _m, to
\* read _req, or to walk and clear _modules: what it finds there may still be what it was
\* (the steps above), or not.
UseMembers ==
    /\ manager \in {"destroyed", "joining"}
    /\ worker \in {"polling", "serving"} \/ (worker = "loop" /\ ~run)
    /\ undefined' = TRUE
    /\ UNCHANGED <<loader, req, python, worker, run, plugins, asking, answer, history>>

----
(* The end of the process: ~PluginLoader, as the unique owner of the PyManager *)
(* (a PyPlugin that still exists keeps it alive, and nothing happens).         *)

\* ~PyManager has no body of its own: first its members go ...
DestroyMembers ==
    /\ manager = "alive"
    /\ \A c \in Clients : key[c] = NoKey
    /\ manager' = "destroyed"
    /\ late' = (req # <<>>)
    /\ UNCHANGED <<unscanned, available, req, python, worker, run, plugins, asking,
                   answer, undefined, doubtful>>

\* ... then ~ThreadRunner stops the thread that uses them ...
StopThread ==
    /\ manager = "destroyed"
    /\ run' = FALSE
    /\ manager' = "joining"
    /\ UNCHANGED <<unscanned, available, req, python, worker, plugins, asking, answer,
                   undefined, history>>

\* ... and joins it.
JoinThread ==
    /\ manager = "joining"
    /\ worker = "done"
    /\ manager' = "gone"
    /\ UNCHANGED <<unscanned, available, req, python, worker, run, plugins, asking,
                   answer, undefined, history>>

----
Serve == PyGetPluginInfo \/ PyCreate \/ PyDelete \/ PySetAttrs \/ PyProcess

Worker == Poll \/ Sleep \/ Take \/ Serve \/ Leave \/ PyRaises \/ UseNull \/ UseMembers

Client(c) == Create(c) \/ SetAttributes(c) \/ Process(c) \/ Return(c) \/ Remove(c)

Owner == AskInfo \/ AddPluginInfo \/ Loaded \/ DestroyMembers \/ StopThread \/ JoinThread

Next == ~undefined /\ (Worker \/ Owner \/ \E c \in Clients : Client(c))

Spec == Init /\ [][Next]_vars

\* Every thread runs, the Python functions return, and f.get() returns once there is
\* a value; clients owe no call, and the process need not end.
Fairness ==
    /\ WF_vars(~undefined /\ (Poll \/ Sleep \/ Take \/ Serve \/ UseNull \/ Leave))
    /\ WF_vars(~undefined /\ (AskInfo \/ AddPluginInfo \/ Loaded))
    /\ \A c \in Clients : WF_vars(~undefined /\ Return(c))
    /\ WF_vars(~undefined /\ (StopThread \/ JoinThread))

FairSpec == Spec /\ Fairness

----
(* Types and properties. *)

Requests ==
    [type : {"info"}, key : {NoKey}, module : Modules, by : {Loader}]
    \cup [type : {"create"}, key : Nat \ {NoKey}, module : Modules, by : Clients]
    \cup [type : Uses, key : Nat \ {NoKey}, module : {NoModule}, by : Clients]

Results == {"none", "done", "refused", "outcome", "nothing"}

TypeOK ==
    /\ manager \in {"loading", "alive", "destroyed", "joining", "gone"}
    /\ unscanned \subseteq Modules
    /\ available \subseteq Modules
    /\ req \in Seq(Requests)
    /\ DOMAIN modules \subseteq 1 .. lastKey
    /\ modules \in [DOMAIN modules -> Modules \cup {NoModule}]
    /\ worker \in {"loop", "polling", "serving", "done"}
    /\ worker = "serving" => req # <<>>
    /\ run \in BOOLEAN
    /\ lastKey \in Nat
    /\ key \in [Clients -> 0 .. lastKey]
    /\ asking \in [Clients \cup {Loader} -> BOOLEAN]
    /\ answer \in [Clients \cup {Loader} -> Results \cup Modules \cup {"empty"}]
    /\ answer[Loader] \in Modules \cup {"none", "empty"}
    /\ error \in BOOLEAN /\ undefined \in BOOLEAN /\ late \in BOOLEAN
    /\ doubtful \subseteq Modules

Intact == manager \in {"loading", "alive"}

\* create() does not wait, and remove() does not either: still no request is served
\* before its module was created or after it was removed: "No item" is never logged.  The
\* module may be a null only where Python's error indicator was set.
ServedAlive ==
    worker = "serving" /\ Head(req).type \in Uses => Found /\ (Null => error)

Pending(type, k) == \E i \in DOMAIN req : req[i].type = type /\ req[i].key = k
Owned(k) == \E c \in Clients : key[c] = k

\* A module is held, or about to be, exactly as long as a PyPlugin holds its key or
\* its removal is queued: nothing leaks over any history of creates and removes, and
\* no key has two owners.
ModulesAreOwned ==
    Intact =>
        /\ \A k \in 1 .. lastKey :
            k \in DOMAIN modules \/ Pending("create", k) <=> Owned(k) \/ Pending("remove", k)
        /\ \A c, d \in Clients : key[c] = key[d] /\ key[c] # NoKey => c = d

\* Every call that waits for its promise gets an answer, though the worker serves all
\* clients and each request may be refused.  So the scan of the plugin directory ends as
\* well: it lists only plugins that import, and of these every one whose turn came before
\* an import failed.  (Those after it may be missing: the error is not cleared.)
AllAnswered ==
    /\ \A t \in Clients \cup {Loader} : Waits(t) ~> ~Waits(t) \/ undefined
    /\ <>(undefined \/ /\ manager # "loading"
                       /\ available \subseteq Importable
                       /\ Importable \ doubtful \subseteq available)

\* Every exit has the worker use members that are destroyed.  What it would find in them is
\* nothing to serve and nothing to release, unless a request was still queued when they were
\* destroyed: the removals that the plugins asked for release every module before.
ExitFindsNothing == ~Intact => late \/ (req = <<>> /\ modules = NoModules)
====
