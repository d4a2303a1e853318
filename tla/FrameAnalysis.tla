---- MODULE FrameAnalysis ----
(***************************************************************************)
(* The analysis of one frame after another: a request linked by            *)
(* Session::registerPlugin, the inner loop of DataFlow::worker, the walk   *)
(* of LogicAnalyzer over its pipelines, and the OutcomeCache between them. *)
(*                                                                         *)
(* For every frame the loop asks the LogicAnalyzer for the next plugin,    *)
(* handing back the verdict of the last one.  A detector runs, unless its  *)
(* outcome for this frame is cached; an effect records the metadata of the *)
(* last detector.                                                          *)
(***************************************************************************)
EXTENDS LinkExpression, FiniteSets

CONSTANTS
    Requests,       \* the requests to link, valid or not
    MaxFrames       \* bound on the number of frames

ASSUME MaxFramesAssumption == MaxFrames \in Nat

EOP == "OVI_EOP"
EOPP == "OVI_EOPP"
NoPlugin == ""

\* PluginManager::makeId() never makes one of them.
ASSUME UidsAssumption == {EOP, EOPP, NoPlugin} \cap Plugins = {}

VARIABLES
    expr,       \* LogicAnalyzer::_expression, or <<>> without an analyzer
    links,      \* its nodes and pipelines
    walk,       \* positions: [pos, ppos, npos, live, include]
    storage,    \* OutcomeCache::_storage: a verdict for some of the detectors
    resultUid,  \* OutcomeCache::_resultUid
    detected,   \* OutcomeCache::_detected: for an effect, whose metadata it keeps
    phase,      \* "between" frames, in the inner "loop", "stopped" or "crashed"
    frames,     \* frames begun
    failed,     \* a plugin threw on this frame, so nothing was appended
    \* For the properties:
    verdict,    \* what each detector says of this frame
    calls       \* how often each detector was run on this frame

vars == <<expr, links, walk, storage, resultUid, detected, phase, frames, failed,
          verdict, calls>>

cache == <<storage, resultUid, detected>>

NoOutcome == [d \in {} |-> TRUE]
NoEffects == [e \in {} |-> NoPlugin]

----
(* LogicAnalyzer, PluginPipeline and PluginNode on the record `walk`. *)

Pipeline(i) == links.pipelines[i + 1]
PipelineCount == Len(links.pipelines)

StartOfWalk(l) ==
    [pos |-> 0, include |-> FALSE,
     ppos |-> [i \in DOMAIN l.pipelines |-> 0],
     npos |-> [n \in DOMAIN l.nodes |-> 0],
     live |-> [n \in DOMAIN l.nodes |-> TRUE]]

\* LogicAnalyzer::reset() leaves _include alone.
ResetWalk(wk) == [StartOfWalk(links) EXCEPT !.include = wk.include]

CurrentNode(wk) == Pipeline(wk.pos).nodes[wk.ppos[wk.pos + 1] + 1]

\* PluginNode::post(), without the reset of _include that nextPlugin needs.
Post(wk, include) ==
    LET n == CurrentNode(wk) IN
    [wk EXCEPT !.live[n] = IF wk.npos[n] = 1 THEN include ELSE @,
               !.include = ~links.nodes[n].cut \/ include]

\* variant: a node whose detector said no goes on to its effects
PopNodeDead(wk, n) ==
    IF wk.npos[n] < Len(links.nodes[n].plugins)
    THEN [walk |-> [wk EXCEPT !.npos[n] = @ + 1],
          uid |-> links.nodes[n].plugins[wk.npos[n] + 1]]
    ELSE [walk |-> wk, uid |-> NoPlugin]

\* variant: the position in the node does not move
PopNodeStays(wk, n) ==
    IF wk.live[n] /\ wk.npos[n] < Len(links.nodes[n].plugins)
    THEN [walk |-> wk, uid |-> links.nodes[n].plugins[wk.npos[n] + 1]]
    ELSE [walk |-> wk, uid |-> NoPlugin]

PopNode(wk, n) ==
    IF wk.live[n] /\ wk.npos[n] < Len(links.nodes[n].plugins)
    THEN [walk |-> [wk EXCEPT !.npos[n] = @ + 1],
          uid |-> links.nodes[n].plugins[wk.npos[n] + 1]]
    ELSE [walk |-> wk, uid |-> NoPlugin]

PopPipeline(wk) ==
    LET here == PopNode(wk, CurrentNode(wk))
        moved == [wk EXCEPT !.ppos[wk.pos + 1] = @ + 1]
    IN IF ~wk.include THEN [walk |-> wk, uid |-> NoPlugin]
       ELSE IF here.uid # NoPlugin THEN here
       ELSE IF moved.ppos[wk.pos + 1] >= Len(Pipeline(wk.pos).nodes)
            THEN [walk |-> moved, uid |-> EOPP]
            ELSE PopNode(moved, CurrentNode(moved))

\* Move to pipeline i, reset it and call nextPlugin(true): its first node is
\* fresh, so the call answers with that node's first plugin.
EnterPipeline(wk, i) ==
    LET nodes == Range(Pipeline(i).nodes)
        first == Pipeline(i).nodes[1]
    IN [walk |-> [wk EXCEPT !.pos = i, !.include = TRUE, !.ppos[i + 1] = 0,
                     !.npos = [n \in DOMAIN @ |->
                         IF n = first THEN 1 ELSE IF n \in nodes THEN 0 ELSE @[n]],
                     !.live = [n \in DOMAIN @ |-> n \in nodes \/ @[n]]],
        uid |-> links.nodes[first].plugins[1]]

EndOfWalk(wk) == [walk |-> [wk EXCEPT !.pos = PipelineCount], uid |-> EOP]

EssentialAfter(i) == {j \in i + 1 .. PipelineCount - 1 : Pipeline(j).essential}

NextPlugin(include) ==
    LET r == PopPipeline(Post(walk, include))
        later == IF r.uid = EOPP THEN EssentialAfter(walk.pos)
                 ELSE walk.pos + 1 .. PipelineCount - 1
    IN IF r.uid \notin {EOPP, NoPlugin} THEN r
       ELSE IF later = {} THEN EndOfWalk(r.walk)
       ELSE EnterPipeline(r.walk, CHOOSE j \in later : \A k \in later : j <= k)

----
(* OutcomeCache *)

CacheEmpty == storage = NoOutcome \/ resultUid = NoPlugin
ResultDetect == IF CacheEmpty THEN TRUE ELSE storage[resultUid]
ResultList == IF CacheEmpty THEN NoPlugin ELSE resultUid
HitNever(uid) == FALSE   \* variant: every call of a detector runs it
Hit(uid) == uid \in DOMAIN storage

ClearCacheNot ==   \* variant: the outcomes are kept for the next frame
    /\ resultUid' = NoPlugin
    /\ detected' = NoEffects
    /\ UNCHANGED storage

ClearCache ==
    /\ storage' = NoOutcome
    /\ resultUid' = NoPlugin
    /\ detected' = NoEffects

WriteCache(uid, detect) ==
    /\ storage' = [d \in DOMAIN storage \cup {uid} |->
                      IF d = uid THEN detect ELSE storage[d]]
    /\ resultUid' = uid
    /\ UNCHANGED detected

SetDetected(uid) ==
    /\ detected' = [e \in DOMAIN detected \cup {uid} |->
                      IF e = uid THEN ResultList ELSE detected[e]]
    /\ UNCHANGED <<storage, resultUid>>

----
Init ==
    /\ expr = <<>>
    /\ links = Parse(<<>>)
    /\ walk = StartOfWalk(links)
    /\ storage = NoOutcome /\ resultUid = NoPlugin /\ detected = NoEffects
    /\ phase = "between"
    /\ frames = 0
    /\ failed = FALSE
    /\ verdict = [d \in Detectors |-> FALSE]
    /\ calls = [d \in Detectors |-> 0]

\* registerPlugin(): a refused request changes nothing; the constructor of the
\* LogicAnalyzer may dereference a null node.  Bound: one request is linked, since
\* the next one gets an analyzer of its own.
Register ==
    /\ phase = "between" /\ expr = <<>>
    /\ \E s \in Requests :
        /\ ValidLogic(s)
        /\ IF UsesNullNode(s)
           THEN phase' = "crashed" /\ UNCHANGED <<expr, links, walk>>
           ELSE /\ expr' = s
                /\ links' = Parse(s)
                /\ walk' = StartOfWalk(Parse(s))
                /\ UNCHANGED phase
    /\ UNCHANGED <<cache, frames, failed, verdict, calls>>

\* The outer loop has fetched a frame.
BeginFrame ==
    /\ phase = "between"
    /\ expr # <<>>
    /\ frames < MaxFrames
    /\ frames' = frames + 1
    /\ phase' = "loop"
    /\ failed' = FALSE
    /\ walk' = ResetWalk(walk)
    /\ ClearCache
    /\ verdict' \in Verdicts
    /\ calls' = [d \in Detectors |-> 0]
    /\ UNCHANGED <<expr, links>>

Next1 == NextPlugin(ResultDetect)

\* OVI_EOP: the frame's result is appended with LogicAnalyzer::include().
EndFrame ==
    /\ phase = "loop"
    /\ Next1.uid = EOP
    /\ walk' = Next1.walk
    /\ phase' = "between"
    /\ UNCHANGED <<expr, links, cache, frames, failed, verdict, calls>>

UseCachedOldResult ==   \* variant: setResultUid() is not called on a hit
    /\ phase = "loop"
    /\ Hit(Next1.uid)
    /\ walk' = Next1.walk
    /\ UNCHANGED <<expr, links, cache, phase, frames, failed, verdict, calls>>

UseCached ==
    /\ phase = "loop"
    /\ Hit(Next1.uid)
    /\ walk' = Next1.walk
    /\ resultUid' = Next1.uid
    /\ UNCHANGED <<expr, links, storage, detected, phase, frames, failed, verdict, calls>>

ApplyEffect ==
    /\ phase = "loop"
    /\ Next1.uid \in Effects
    /\ walk' = Next1.walk
    /\ SetDetected(Next1.uid)
    /\ UNCHANGED <<expr, links, phase, frames, failed, verdict, calls>>

RunDetector ==
    /\ phase = "loop"
    /\ Next1.uid \in Detectors /\ ~Hit(Next1.uid)
    /\ walk' = Next1.walk
    /\ WriteCache(Next1.uid, verdict[Next1.uid])
    /\ calls' = [calls EXCEPT ![Next1.uid] = @ + 1]
    /\ UNCHANGED <<expr, links, phase, frames, failed, verdict>>

\* process() throws: the frame is given up, the analysis goes on.
DetectorFails ==
    /\ phase = "loop"
    /\ Next1.uid \in Detectors /\ ~Hit(Next1.uid)
    /\ walk' = Next1.walk
    /\ failed' = TRUE
    /\ phase' = "between"
    /\ calls' = [calls EXCEPT ![Next1.uid] = @ + 1]
    /\ UNCHANGED <<expr, links, cache, frames, verdict>>

\* stop(): the loop condition is read between two plugins.
Interrupt ==
    /\ phase = "loop"
    /\ phase' = "stopped"
    /\ UNCHANGED <<expr, links, walk, cache, frames, failed, verdict, calls>>

InnerLoop == EndFrame \/ UseCached \/ ApplyEffect \/ RunDetector

Next == Register \/ BeginFrame \/ InnerLoop \/ DetectorFails \/ Interrupt

Spec == Init /\ [][Next]_vars

\* The worker thread runs, and a detector that is called returns.
FairSpec == Spec /\ WF_vars(InnerLoop)

----
(* Properties. *)

Linked == phase = "between" /\ frames = 0 /\ expr # <<>>
Appended == phase = "between" /\ frames > 0 /\ ~failed

\* A frame was appended, and no effect stands where only a detector's verdict
\* could say which data it applies to.
AppendedPlain == Appended /\ PlainOperands(expr)

\* What the pipelines say of a frame: one of them has only nodes that do not
\* exclude it.
NodeHolds(n, says) ==
    LET head == links.nodes[n].plugins[1]
    IN ~links.nodes[n].cut \/ head \in Effects \/ says[head]

PipelinesHold(says) ==
    \E i \in DOMAIN links.pipelines :
        \A j \in DOMAIN links.pipelines[i].nodes :
            NodeHolds(links.pipelines[i].nodes[j], says)

\* The pipelines of an accepted request are the disjunctive normal form of its
\* left-to-right meaning, for every verdict the detectors may give: "&" reaches
\* back over every "|" before it.
PipelinesMeanRequest ==
    Linked /\ NoneAttachedUncut(expr) =>
        \A says \in Verdicts :
            PipelinesHold(says) <=> says \in Meaning(expr)

\* A frame is kept exactly when the link expression, read from left to right,
\* holds of the detectors' verdicts.  The pipelines are a disjunctive normal
\* form that shares nodes and skips what it need not ask.
IncludeIsMeaning ==
    AppendedPlain => walk.include = (verdict \in Meaning(expr))

NoEssential == \A i \in DOMAIN links.pipelines : ~links.pipelines[i].essential

\* The same, when no effect hangs on an operand of "|".
IncludeIsMeaningPlain == NoEssential => IncludeIsMeaning

\* No detector is run twice on a frame, however often the expression names it and
\* however many pipelines share its node.
OncePerFrame == \A d \in Detectors : calls[d] <= 1

\* The outcome kept for a detector is the one of this frame, never of an earlier.
CacheIsFresh == phase = "loop" => \A d \in DOMAIN storage : storage[d] = verdict[d]

\* The operand that the effect at position i is attached to.
OperandOf(s, i) ==
    CHOOSE j \in 1 .. i - 1 :
        IsOperand(s, j) /\ \A m \in j + 1 .. i - 1 : ~IsOperand(s, m)

Attached(s, i) == s[i] \in Effects /\ ~IsOperand(s, i)

\* An effect that was recorded for the frame hangs on a detector that said yes,
\* and carries the metadata of such a detector, also after a cache hit.
EffectsOfDetected ==
    AppendedPlain =>
        \A e \in DOMAIN detected :
            \E i \in 1 .. Len(expr) :
                /\ expr[i] = e
                /\ IF Attached(expr, i) /\ expr[OperandOf(expr, i)] \in Detectors
                   THEN detected[e] = expr[OperandOf(expr, i)]
                   ELSE \E j \in 1 .. i - 1 : detected[e] = expr[j]
                /\ detected[e] \in Detectors /\ verdict[detected[e]]

OnlyOr(s) == \A i \in 1 .. Len(s) : s[i] # "&"

\* In an expression without "&" every effect whose detector says yes is recorded,
\* even if the frame was included before (logicAnalyzerTest.cpp: "Even if the
\* _plugin[0] is true, _plugin[1]:effect[1] does work").
EffectsComplete ==
    AppendedPlain /\ OnlyOr(expr) =>
        \A i \in 1 .. Len(expr) :
            Attached(expr, i) /\ verdict[expr[OperandOf(expr, i)]] =>
                expr[i] \in DOMAIN detected

\* The effects of a frame are those of the detectors that said yes, all of them where
\* the request says so, and each with the data of its own detector: whatever order the
\* pipelines are walked in, and whichever outcomes come from the cache.
EffectsRight == EffectsOfDetected /\ EffectsComplete

\* Every frame comes to an end: the walk over the pipelines, which share nodes and
\* reset each other's positions, never goes round in circles.
FrameEnds == phase = "loop" ~> phase # "loop"
====
