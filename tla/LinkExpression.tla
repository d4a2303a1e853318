---- MODULE LinkExpression ----
(***************************************************************************)
(* Link expressions: what ovi_session_link_plugins_with_list accepts       *)
(* (validate_logic) and the pipelines LogicAnalyzer builds from it         *)
(* (runAnalysis).                                                          *)
(*                                                                         *)
(* An expression is a sequence of tokens: uids of detectors and effects,   *)
(* and the operators "&", "|", ":" (attach an effect) and "~" (analyse     *)
(* without cutting).                                                       *)
(***************************************************************************)
EXTENDS Integers, Sequences, SequencesExt

CONSTANTS
    Detectors,      \* the detector uids that PluginManager knows
    Effects         \* the effect uids it knows

Operators == {"&", "|", ":"}
Uncut == "~"
Plugins == Detectors \cup Effects
RequestLimit == 1000

ASSUME PluginsDistinct ==
    /\ Detectors \cap Effects = {}
    /\ Plugins \cap (Operators \cup {Uncut}) = {}

----
\* A "~" before position i that no effect has redeemed yet.
UncutPending(s, i) ==
    \E j \in 1 .. i - 1 :
        s[j] = Uncut /\ \A m \in j + 1 .. i - 1 : s[m] \notin Effects

ValidLogic(s) ==
    /\ Len(s) \in 1 .. RequestLimit
    /\ s[1] \notin Operators
    /\ s[Len(s)] \notin Operators \cup {Uncut}
    /\ \A i \in 1 .. Len(s) :
        IF s[i] \in Operators
        THEN /\ s[i - 1] \notin Operators
             /\ UncutPending(s, i) => s[i] = ":"
        ELSE /\ i > 1 => s[i - 1] \in Operators \cup {Uncut}
             /\ s[i] = Uncut => ~UncutPending(s, i)
             /\ s[i] # Uncut => s[i] \in Plugins
             /\ i > 1 /\ s[i - 1] = ":" /\ s[i] # Uncut => s[i] \in Effects
    /\ ~UncutPending(s, Len(s) + 1)

----
\* The structure of a LogicAnalyzer: nodes (a plugin and the effects attached to
\* it), and pipelines, each a sequence of node numbers.  "&" shares its one new
\* node among all the pipelines.
NewNode(uid, cut) == [plugins |-> <<uid>>, cut |-> cut]
NewPipeline(n) == [nodes |-> <<n>>, essential |-> FALSE]

NothingParsed ==
    [nodes |-> <<>>, pipelines |-> <<[nodes |-> <<>>, essential |-> FALSE]>>,
     op |-> "none", cut |-> TRUE, null |-> FALSE]

\* setEssential(): only a pipeline of one node becomes essential.
SetEssential(pl) ==
    [pl EXCEPT !.essential = @ \/ Len(pl.nodes) = 1]

\* A ":" marks the newest pipeline, when there is more than one.
MarkEssential(pls) ==
    IF Len(pls) > 1 THEN [pls EXCEPT ![Len(pls)] = SetEssential(@)] ELSE pls

PushLast(pls, n) ==   \* variant: "&" binds to the last operand of "|" only
    [pls EXCEPT ![Len(pls)].nodes = Append(@, n)]

PushAll(pls, n) == [i \in DOMAIN pls |-> [pls[i] EXCEPT !.nodes = Append(@, n)]]

AddPlugin(p, uid) ==
    LET n == Len(p.nodes) + 1
        nodes == Append(p.nodes, NewNode(uid, p.cut))
    IN CASE p.op = "&" ->
              [p EXCEPT !.nodes = nodes, !.pipelines = PushAll(@, n)]
         [] p.op = "|" ->
              [p EXCEPT !.nodes = nodes, !.pipelines = Append(@, NewPipeline(n))]
         [] p.op = ":" /\ p.nodes = <<>> ->   \* pluginNode is still null
              [p EXCEPT !.null = TRUE]
         [] p.op = ":" /\ p.nodes # <<>> ->
              [p EXCEPT !.nodes[n - 1].plugins = Append(@, uid),
                        !.pipelines = MarkEssential(@)]
         [] OTHER ->
              [p EXCEPT !.nodes = nodes,
                        !.pipelines[Len(p.pipelines)].nodes = Append(@, n)]

ParseToken(p, token) ==
    CASE token = Uncut -> [p EXCEPT !.cut = FALSE]
      [] token \in Operators -> [p EXCEPT !.op = token]
      [] OTHER -> [AddPlugin(p, token) EXCEPT !.op = "none", !.cut = TRUE]

\* What has been built after each token.
Parsing(s) ==
    LET after[i \in 0 .. Len(s)] ==
            IF i = 0 THEN NothingParsed ELSE ParseToken(after[i - 1], s[i])
    IN after

Parse(s) ==
    LET p == Parsing(s)[Len(s)]
    IN [nodes |-> p.nodes, pipelines |-> p.pipelines]

\* runAnalysis uses a pluginNode it has not made: the behaviour is undefined.
UsesNullNode(s) == Parsing(s)[Len(s)].null

----
\* The meaning of an expression, independent of pipelines: the verdicts of the
\* detectors for which it holds.  Operators apply from left to right; an uncut operand
\* never excludes a frame, nor does an effect linked with "&".
Verdicts == [Detectors -> BOOLEAN]

IsOperand(s, i) == s[i] \in Plugins /\ (i > 1 => s[i - 1] # ":")
IsFirst(s, i) == i = 1 \/ (i = 2 /\ s[1] = Uncut)
OperatorBefore(s, i) ==
    IF s[i - 1] = Uncut THEN s[i - 2] ELSE s[i - 1]

OperandHolds(s, i) ==
    IF (i > 1 /\ s[i - 1] = Uncut) \/ s[i] \in Effects
    THEN Verdicts
    ELSE {says \in Verdicts : says[s[i]]}

\* What the expression up to each token means.
Meanings(s) ==
    LET means[i \in 0 .. Len(s)] ==
            IF i = 0 THEN Verdicts
            ELSE IF ~IsOperand(s, i) THEN means[i - 1]
            ELSE IF IsFirst(s, i) THEN OperandHolds(s, i)
            ELSE IF OperatorBefore(s, i) = "&"
                 THEN means[i - 1] \cap OperandHolds(s, i)
            ELSE means[i - 1] \cup OperandHolds(s, i)
    IN means

Meaning(s) == Meanings(s)[Len(s)]

\* A plugin after ": ~" has no meaning: validate_logic lets it pass, as an operand by
\* what is before it, and runAnalysis attaches it.
NoneAttachedUncut(s) ==
    \A i \in 3 .. Len(s) : s[i] \in Plugins => ~(s[i - 1] = Uncut /\ s[i - 2] = ":")

\* Every operand is a detector, or an effect linked with "&" to what is before it, none
\* of which is uncut: such an effect takes over the verdict of the detector before it.
PlainOperands(s) ==
    /\ NoneAttachedUncut(s)
    /\ \A i \in 1 .. Len(s) :
        IsOperand(s, i) /\ s[i] \in Effects =>
            i > 1 /\ s[i - 1] = "&" /\ \A j \in 1 .. i - 1 : s[j] # Uncut
====
