---- MODULE FrameAnalysis_proofs ----
(***************************************************************************)
(* Proofs about FrameAnalysis, for requests of every length and every set  *)
(* of plugins.                                                             *)
(*                                                                         *)
(* First, what the outcome cache gives the inner loop, which does not      *)
(* depend on the order in which the LogicAnalyzer names plugins.  Then,    *)
(* that the pipelines runAnalysis builds mean what the request means:      *)
(* after each token they mean what the tokens so far do (ParseGoesRight).  *)
(* Then, that the walk over the pipelines of a plain request keeps the     *)
(* frames of which they hold: it is always at a node before which none of  *)
(* its pipeline excludes the frame, and, if no pipeline is essential, in a *)
(* pipeline before which all do (InPlace).                                 *)
(* Then, that the effects applied on the way are those the request asks    *)
(* for: the plugins of the nodes have their places in it (Rooted), the     *)
(* last result is of a detector that the walk has just heard (HeardInv),   *)
(* and without "&" the walk leaves no node undrawn (DrawnInv).             *)
(* Last, for every request that is accepted, plain or not: no pipeline is  *)
(* empty (ParseBuilds), so that the walk is always at a plugin while the   *)
(* inner loop runs (TypeOK), and each step takes it further (Onward).      *)
(***************************************************************************)
EXTENDS FrameAnalysis, SequenceTheorems, NaturalsInduction, WellFoundedInduction, TLAPS

\* During a frame the storage holds the verdicts of this frame, and a detector that
\* is not in it has not run yet.
StorageOfFrame ==
    phase = "loop" =>
        \A d \in Detectors :
            IF d \in DOMAIN storage THEN storage[d] = verdict[d] ELSE calls[d] = 0

CallTypes ==
    /\ calls \in [Detectors -> Nat]
    /\ DOMAIN storage \subseteq Detectors

IInv == CallTypes /\ OncePerFrame /\ StorageOfFrame

LEMMA InitIInv == Init => IInv
  BY DEF Init, IInv, CallTypes, OncePerFrame, StorageOfFrame, NoOutcome

LEMMA IInvKept == IInv /\ [Next]_vars => IInv'
<1> SUFFICES ASSUME IInv, [Next]_vars
             PROVE  IInv'
  OBVIOUS
<1> USE DEF IInv, CallTypes, OncePerFrame, StorageOfFrame
<1>1. CASE BeginFrame
  BY <1>1 DEF BeginFrame, ClearCache, NoOutcome
<1>2. CASE EndFrame
  BY <1>2 DEF EndFrame, cache
<1>3. CASE UseCached
  BY <1>3 DEF UseCached
<1>4. CASE ApplyEffect
  BY <1>4 DEF ApplyEffect, SetDetected
<1>5. CASE RunDetector
  <2> DEFINE uid == Next1.uid
  <2>1. /\ phase = "loop" /\ uid \in Detectors /\ uid \notin DOMAIN storage
        /\ calls' = [calls EXCEPT ![uid] = @ + 1]
        /\ storage' = [d \in DOMAIN storage \cup {uid} |->
                          IF d = uid THEN verdict[uid] ELSE storage[d]]
        /\ UNCHANGED <<phase, verdict>>
    BY <1>5 DEF RunDetector, Hit, WriteCache
  <2> HIDE DEF uid
  <2>2. calls[uid] = 0
    BY <2>1
  <2> QED
    BY <2>1, <2>2
<1>6. CASE DetectorFails
  <2> DEFINE uid == Next1.uid
  <2>1. /\ phase = "loop" /\ uid \in Detectors /\ uid \notin DOMAIN storage
        /\ calls' = [calls EXCEPT ![uid] = @ + 1]
        /\ phase' = "between" /\ UNCHANGED storage
    BY <1>6 DEF DetectorFails, Hit, cache
  <2> HIDE DEF uid
  <2>2. calls[uid] = 0
    BY <2>1
  <2> QED
    BY <2>1, <2>2
<1>7. CASE Interrupt
  BY <1>7 DEF Interrupt, cache
<1>8. CASE Register
  BY <1>8 DEF Register, cache
<1>9. CASE UNCHANGED vars
  BY <1>9 DEF vars
<1> QED
  BY <1>1, <1>2, <1>3, <1>4, <1>5, <1>6, <1>7, <1>8, <1>9 DEF Next, InnerLoop

LEMMA InductiveInvariant == Spec => []IInv
  BY InitIInv, IInvKept, PTL DEF Spec

\* No detector runs twice on a frame, whatever the expression and its pipelines are.
THEOREM OncePerFrameHolds == Spec => []OncePerFrame
<1>1. IInv => OncePerFrame
  BY DEF IInv
<1> QED
  BY <1>1, InductiveInvariant, PTL

\* An outcome that the loop finds in the cache was found on this very frame.
THEOREM CacheIsFreshHolds == Spec => []CacheIsFresh
<1>1. IInv => CacheIsFresh
  BY DEF IInv, CallTypes, StorageOfFrame, CacheIsFresh
<1> QED
  BY <1>1, InductiveInvariant, PTL
----
(* The pipelines of a request. *)

\* A set of numbers that is not empty has a least element.
LEMMA LeastNumber ==
    ASSUME NEW S \in SUBSET Nat, S # {}
    PROVE  \E m \in S : \A n \in S : m <= n
<1> DEFINE Less == OpToRel(<, Nat)
<1>1. IsWellFoundedOn(Less, Nat)
  BY NatLessThanWellFounded
<1>2. \A m, n \in Nat : <<m, n>> \in Less <=> m < n
  BY DEF OpToRel
<1> HIDE DEF Less
<1>3. \E m \in S : \A n \in S : ~(<<n, m>> \in Less)
  BY <1>1, WFMin
<1>4. \A m, n \in S : ~(<<n, m>> \in Less) => m <= n
  BY <1>2
<1> QED
  BY <1>3, <1>4

\* The recursion of Parsing, up to the n-th token.
ParsedBy(s, n, f) ==
    f = [i \in 0 .. n |-> IF i = 0 THEN NothingParsed ELSE ParseToken(f[i - 1], s[i])]

\* The parse of n tokens is carried on to the next.
LEMMA ParsedOneMore ==
    ASSUME NEW s, NEW n \in Nat, NEW f, ParsedBy(s, n, f)
    PROVE  \E g : ParsedBy(s, n + 1, g)
<1> DEFINE g == [i \in 0 .. n + 1 |-> IF i = n + 1 THEN ParseToken(f[n], s[n + 1]) ELSE f[i]]
<1>1. \A i \in 0 .. n : g[i] = f[i]
  OBVIOUS
<1>2. ASSUME NEW i \in 0 .. n + 1
      PROVE  g[i] = IF i = 0 THEN NothingParsed ELSE ParseToken(g[i - 1], s[i])
  <2>1. CASE i = n + 1
    <3>1. g[i] = ParseToken(f[n], s[n + 1]) /\ g[i - 1] = f[n] /\ i # 0
      BY <2>1, <1>1
    <3> HIDE DEF g
    <3> QED
      BY <3>1, <2>1
  <2>2. CASE i \in 1 .. n
    <3>1. g[i] = f[i] /\ g[i - 1] = f[i - 1]
      BY <2>2, <1>1
    <3>2. f[i] = ParseToken(f[i - 1], s[i])
      BY <2>2 DEF ParsedBy
    <3> HIDE DEF g
    <3> QED
      BY <3>1, <3>2, <2>2
  <2>3. CASE i = 0
    <3>1. g[i] = f[0] /\ f[0] = NothingParsed
      BY <2>3, <1>1 DEF ParsedBy
    <3> QED
      BY <3>1, <2>3
  <2> QED
    BY <2>1, <2>2, <2>3
<1>3. g = [i \in 0 .. n + 1 |-> g[i]]
  OBVIOUS
<1> HIDE DEF g
<1>4. g = [i \in 0 .. n + 1 |-> IF i = 0 THEN NothingParsed ELSE ParseToken(g[i - 1], s[i])]
  BY <1>2, <1>3
<1> QED
  BY <1>4 DEF ParsedBy

LEMMA ParsingIs ==
    ASSUME NEW s, Len(s) \in Nat
    PROVE  ParsedBy(s, Len(s), Parsing(s))
<1> DEFINE missing == {n \in Nat : ~\E f : ParsedBy(s, n, f)}
<1>1. missing = {}
  <2> SUFFICES ASSUME missing # {} PROVE FALSE
    OBVIOUS
  <2>1. missing \in SUBSET Nat
    OBVIOUS
  <2>2. PICK n \in missing : \A m \in missing : n <= m
    <3> HIDE DEF missing
    <3> QED
      BY <2>1, LeastNumber
  <2>3. CASE n = 0
    <3> DEFINE f == [i \in 0 .. 0 |-> NothingParsed]
    <3>1. f = [i \in 0 .. 0 |-> IF i = 0 THEN NothingParsed ELSE ParseToken(f[i - 1], s[i])]
      OBVIOUS
    <3>2. ParsedBy(s, 0, f)
      BY <3>1 DEF ParsedBy
    <3> QED
      BY <3>2, <2>3
  <2>4. CASE n # 0
    <3>1. n - 1 \in Nat /\ n - 1 \notin missing /\ (n - 1) + 1 = n
      BY <2>2, <2>4
    <3>2. PICK f : ParsedBy(s, n - 1, f)
      BY <3>1
    <3>3. \E g : ParsedBy(s, n, g)
      BY <3>1, <3>2, ParsedOneMore
    <3> QED
      BY <3>3
  <2> QED
    BY <2>3, <2>4
<1>2. \E f : ParsedBy(s, Len(s), f)
  BY <1>1
<1>3. Parsing(s) = CHOOSE f : ParsedBy(s, Len(s), f)
  BY DEF Parsing, ParsedBy
<1> QED
  BY <1>2, <1>3

\* What is parsed after each token.
LEMMA ParsingSteps ==
    ASSUME NEW s, Len(s) \in Nat
    PROVE  /\ Parsing(s)[0] = NothingParsed
           /\ \A i \in 1 .. Len(s) : Parsing(s)[i] = ParseToken(Parsing(s)[i - 1], s[i])
<1> DEFINE f == Parsing(s)
<1>1. f = [i \in 0 .. Len(s) |-> IF i = 0 THEN NothingParsed ELSE ParseToken(f[i - 1], s[i])]
  BY ParsingIs DEF ParsedBy
<1> HIDE DEF f
<1>2. f[0] = NothingParsed
  BY <1>1
<1>3. ASSUME NEW i \in 1 .. Len(s) PROVE f[i] = ParseToken(f[i - 1], s[i])
  BY <1>1
<1> QED
  BY <1>2, <1>3 DEF f

\* The recursion of Meanings, up to the n-th token.
NextMeaning(s, i, before) ==
    IF ~IsOperand(s, i) THEN before
    ELSE IF IsFirst(s, i) THEN OperandHolds(s, i)
    ELSE IF OperatorBefore(s, i) = "&" THEN before \cap OperandHolds(s, i)
    ELSE before \cup OperandHolds(s, i)

MeantBy(s, n, f) ==
    f = [i \in 0 .. n |-> IF i = 0 THEN Verdicts ELSE NextMeaning(s, i, f[i - 1])]

LEMMA MeantOneMore ==
    ASSUME NEW s, NEW n \in Nat, NEW f, MeantBy(s, n, f)
    PROVE  \E g : MeantBy(s, n + 1, g)
<1> DEFINE g == [i \in 0 .. n + 1 |->
                    IF i = n + 1 THEN NextMeaning(s, n + 1, f[n]) ELSE f[i]]
<1>1. \A i \in 0 .. n : g[i] = f[i]
  OBVIOUS
<1>2. ASSUME NEW i \in 0 .. n + 1
      PROVE  g[i] = IF i = 0 THEN Verdicts ELSE NextMeaning(s, i, g[i - 1])
  <2>1. CASE i = n + 1
    <3>1. g[i] = NextMeaning(s, i, f[n]) /\ g[i - 1] = f[n] /\ i # 0
      BY <2>1, <1>1
    <3> HIDE DEF g
    <3> QED
      BY <3>1, <2>1
  <2>2. CASE i \in 1 .. n
    <3>1. g[i] = f[i] /\ g[i - 1] = f[i - 1]
      BY <2>2, <1>1
    <3>2. f[i] = NextMeaning(s, i, f[i - 1])
      BY <2>2 DEF MeantBy
    <3> HIDE DEF g
    <3> QED
      BY <3>1, <3>2, <2>2
  <2>3. CASE i = 0
    <3>1. g[i] = f[0] /\ f[0] = Verdicts
      BY <2>3, <1>1 DEF MeantBy
    <3> QED
      BY <3>1, <2>3
  <2> QED
    BY <2>1, <2>2, <2>3
<1>3. g = [i \in 0 .. n + 1 |-> g[i]]
  OBVIOUS
<1> HIDE DEF g
<1>4. g = [i \in 0 .. n + 1 |-> IF i = 0 THEN Verdicts ELSE NextMeaning(s, i, g[i - 1])]
  BY <1>2, <1>3
<1> QED
  BY <1>4 DEF MeantBy

LEMMA MeaningsAre ==
    ASSUME NEW s, Len(s) \in Nat
    PROVE  MeantBy(s, Len(s), Meanings(s))
<1> DEFINE missing == {n \in Nat : ~\E f : MeantBy(s, n, f)}
<1>1. missing = {}
  <2> SUFFICES ASSUME missing # {} PROVE FALSE
    OBVIOUS
  <2>1. missing \in SUBSET Nat
    OBVIOUS
  <2>2. PICK n \in missing : \A m \in missing : n <= m
    <3> HIDE DEF missing
    <3> QED
      BY <2>1, LeastNumber
  <2>3. CASE n = 0
    <3> DEFINE f == [i \in 0 .. 0 |-> Verdicts]
    <3>1. f = [i \in 0 .. 0 |-> IF i = 0 THEN Verdicts ELSE NextMeaning(s, i, f[i - 1])]
      OBVIOUS
    <3>2. MeantBy(s, 0, f)
      BY <3>1 DEF MeantBy
    <3> QED
      BY <3>2, <2>3
  <2>4. CASE n # 0
    <3>1. n - 1 \in Nat /\ n - 1 \notin missing /\ (n - 1) + 1 = n
      BY <2>2, <2>4
    <3>2. PICK f : MeantBy(s, n - 1, f)
      BY <3>1
    <3>3. \E g : MeantBy(s, n, g)
      BY <3>1, <3>2, MeantOneMore
    <3> QED
      BY <3>3
  <2> QED
    BY <2>3, <2>4
<1>2. \E f : MeantBy(s, Len(s), f)
  BY <1>1
<1>3. Meanings(s) = CHOOSE f : MeantBy(s, Len(s), f)
  BY DEF Meanings, MeantBy, NextMeaning
<1> QED
  BY <1>2, <1>3

\* What a request means up to each token.
LEMMA MeaningSteps ==
    ASSUME NEW s, Len(s) \in Nat
    PROVE  /\ Meanings(s)[0] = Verdicts
           /\ \A i \in 1 .. Len(s) : Meanings(s)[i] = NextMeaning(s, i, Meanings(s)[i - 1])
<1> DEFINE f == Meanings(s)
<1>1. f = [i \in 0 .. Len(s) |-> IF i = 0 THEN Verdicts ELSE NextMeaning(s, i, f[i - 1])]
  BY MeaningsAre DEF MeantBy
<1> HIDE DEF f
<1>2. f[0] = Verdicts
  BY <1>1
<1>3. ASSUME NEW i \in 1 .. Len(s) PROVE f[i] = NextMeaning(s, i, f[i - 1])
  BY <1>1
<1> QED
  BY <1>2, <1>3 DEF f


\* What is built of a request: nodes with a plugin each, in pipelines, at least one.
NodesOf == [plugins : Seq(Plugins) \ {<<>>}, cut : BOOLEAN]
PipelinesOf(nodes) == [nodes : Seq(DOMAIN nodes), essential : BOOLEAN]

IsParser(p) ==
    p = [nodes |-> p.nodes, pipelines |-> p.pipelines, op |-> p.op, cut |-> p.cut,
         null |-> p.null]

BuiltOf(p) ==
    /\ IsParser(p)
    /\ p.cut \in BOOLEAN
    /\ p.nodes \in Seq(NodesOf)
    /\ p.pipelines \in Seq(PipelinesOf(p.nodes)) /\ p.pipelines # <<>>

\* The state of the parser after k tokens, unless it has met a null node: its operator
\* and "cut" come from the last tokens, and nothing is built before the first plugin.
ParsedUpTo(s, k, p) ==
    /\ p.op = IF k = 0 THEN "none"
              ELSE IF s[k] \in Operators THEN s[k]
              ELSE IF s[k] = Uncut /\ k > 1 THEN s[k - 1]
              ELSE "none"
    /\ p.cut <=> \/ k = 0
                 \/ s[k] \in Plugins
                 \/ s[k] \in Operators /\ (k = 1 \/ s[k - 1] # Uncut)
    /\ k = 0 \/ (k = 1 /\ s[1] = Uncut) =>
           p.nodes = <<>> /\ p.pipelines = NothingParsed.pipelines

\* The pipelines hold of the verdicts.
NodeSays(node, says) == ~node.cut \/ node.plugins[1] \in Effects \/ says[node.plugins[1]]

PipelineSays(nodes, pl, says) == \A j \in DOMAIN pl.nodes : NodeSays(nodes[pl.nodes[j]], says)

SomeSays(nodes, pls, says) == \E i \in DOMAIN pls : PipelineSays(nodes, pls[i], says)

\* Every token of an accepted request is in place.
LEMMA TokensInPlace ==
    ASSUME NEW s, ValidLogic(s), NEW k \in 1 .. Len(s)
    PROVE  /\ Len(s) \in Nat
           /\ s[k] \in Plugins \cup Operators \cup {Uncut}
           /\ s[k] \in Operators => k > 1 /\ s[k - 1] \notin Operators
           /\ s[k] \in Operators /\ s[k - 1] = Uncut => s[k] = ":"
           /\ s[k] \notin Operators /\ k > 1 => s[k - 1] \in Operators \cup {Uncut}
           /\ s[k] = Uncut /\ k > 1 => s[k - 1] \in Operators
           /\ s[k] \in Plugins /\ k > 1 /\ s[k - 1] = ":" => s[k] \in Effects
<1>0. \A x : (x \in Plugins => x \notin Operators /\ x # Uncut) /\ (x = Uncut => x \notin Operators)
  BY PluginsDistinct DEF Operators, Uncut
<1>1. Len(s) \in Nat /\ s[1] \notin Operators
  BY DEF ValidLogic
<1>2. ASSUME k > 1, s[k - 1] = Uncut PROVE UncutPending(s, k)
  BY <1>1, <1>2 DEF UncutPending
<1>3. CASE s[k] \in Operators
  <2>1. s[k - 1] \notin Operators /\ (UncutPending(s, k) => s[k] = ":") /\ k > 1
    BY <1>1, <1>3 DEF ValidLogic
  <2>2. k - 1 \in 1 .. Len(s)
    BY <1>1, <2>1
  <2> QED
    BY <1>0, <1>1, <1>2, <1>3, <2>1, <2>2
<1>4. CASE s[k] \notin Operators
  <2>1. /\ k > 1 => s[k - 1] \in Operators \cup {Uncut}
        /\ s[k] = Uncut => ~UncutPending(s, k)
        /\ s[k] # Uncut => s[k] \in Plugins
        /\ k > 1 /\ s[k - 1] = ":" /\ s[k] # Uncut => s[k] \in Effects
    BY <1>1, <1>4 DEF ValidLogic
  <2> QED
    BY <1>0, <1>1, <1>2, <1>4, <2>1
<1> QED
  BY <1>3, <1>4


LEMMA TokensApart ==
    \A x : /\ x \in Plugins => x \notin Operators /\ x # Uncut
           /\ x \in Operators => x # Uncut
  BY PluginsDistinct DEF Operators, Uncut

\* An operator or "~" builds nothing.
LEMMA NoPluginStep ==
    ASSUME NEW s, ValidLogic(s), NEW k \in 1 .. Len(s), s[k] \notin Plugins,
           NEW p, BuiltOf(p), ParsedUpTo(s, k - 1, p)
    PROVE  LET q == ParseToken(p, s[k]) IN
           /\ BuiltOf(q) /\ ParsedUpTo(s, k, q)
           /\ q.nodes = p.nodes /\ q.pipelines = p.pipelines /\ q.null = p.null
<1> DEFINE q == ParseToken(p, s[k])
<1>1. /\ s[k] \in Operators \cup {Uncut}
      /\ s[k] \in Operators => k > 1 /\ s[k - 1] \notin Operators
      /\ s[k] \notin Operators /\ k > 1 => s[k - 1] \in Operators \cup {Uncut}
      /\ s[k] = Uncut /\ k > 1 => s[k - 1] \in Operators
      /\ k > 1 => k - 1 \in 1 .. Len(s) /\ s[k - 1] \in Plugins \cup Operators \cup {Uncut}
  BY TokensInPlace
<1>2. CASE s[k] = Uncut
  <2>1. q = [p EXCEPT !.cut = FALSE]
    BY <1>2, TokensApart DEF ParseToken
  <2>2. /\ q.nodes = p.nodes /\ q.pipelines = p.pipelines /\ q.null = p.null
        /\ q.op = p.op /\ q.cut = FALSE
        /\ BuiltOf(q)
    BY <2>1 DEF BuiltOf, IsParser
  <2> HIDE DEF q
  <2>3. ParsedUpTo(s, k, q)
    BY <1>1, <1>2, <2>2, TokensApart DEF ParsedUpTo
  <2> QED
    BY <2>2, <2>3 DEF q
<1>3. CASE s[k] \in Operators
  <2>1. q = [p EXCEPT !.op = s[k]]
    BY <1>3, TokensApart DEF ParseToken
  <2>2. /\ q.nodes = p.nodes /\ q.pipelines = p.pipelines /\ q.null = p.null
        /\ q.op = s[k] /\ q.cut = p.cut
        /\ BuiltOf(q)
    BY <2>1 DEF BuiltOf, IsParser
  <2> HIDE DEF q
  <2>3. ParsedUpTo(s, k, q)
    BY <1>1, <1>3, <2>2, TokensApart DEF ParsedUpTo
  <2> QED
    BY <2>2, <2>3 DEF q
<1> QED
  BY <1>1, <1>2, <1>3

\* A node more: pipelines of the old nodes say what they said.
LEMMA OldPipeline ==
    ASSUME NEW nodes \in Seq(NodesOf), NEW node \in NodesOf, NEW pl \in PipelinesOf(nodes), NEW says
    PROVE  /\ Append(nodes, node) \in Seq(NodesOf)
           /\ pl \in PipelinesOf(Append(nodes, node))
           /\ PipelineSays(Append(nodes, node), pl, says) <=> PipelineSays(nodes, pl, says)
           /\ \A j \in DOMAIN pl.nodes : pl.nodes[j] \in DOMAIN nodes
<1> DEFINE more == Append(nodes, node)
<1>1. /\ more \in Seq(NodesOf) /\ DOMAIN nodes = 1 .. Len(nodes)
      /\ DOMAIN more = 1 .. Len(nodes) + 1 /\ Len(nodes) \in Nat
      /\ \A i \in 1 .. Len(nodes) : more[i] = nodes[i]
  OBVIOUS
<1> HIDE DEF more
<1>2. /\ pl = [nodes |-> pl.nodes, essential |-> pl.essential]
      /\ pl.nodes \in Seq(DOMAIN nodes) /\ pl.essential \in BOOLEAN
  BY DEF PipelinesOf
<1>3. \A j \in DOMAIN pl.nodes : pl.nodes[j] \in DOMAIN nodes
  BY <1>2
<1>4. pl.nodes \in Seq(DOMAIN more)
  BY <1>1, <1>2, <1>3
<1>5. pl \in PipelinesOf(more)
  BY <1>2, <1>4 DEF PipelinesOf
<1>6. PipelineSays(more, pl, says) <=> PipelineSays(nodes, pl, says)
  BY <1>1, <1>3 DEF PipelineSays
<1> QED
  BY <1>1, <1>3, <1>5, <1>6 DEF more

\* The new node, pushed to a pipeline.
LEMMA PushedPipeline ==
    ASSUME NEW nodes \in Seq(NodesOf), NEW node \in NodesOf, NEW pl \in PipelinesOf(nodes), NEW says
    PROVE  LET n == Len(nodes) + 1
               pushed == [pl EXCEPT !.nodes = Append(@, n)]
           IN /\ pushed \in PipelinesOf(Append(nodes, node))
              /\ PipelineSays(Append(nodes, node), pushed, says)
                 <=> PipelineSays(nodes, pl, says) /\ NodeSays(node, says)
<1> DEFINE more == Append(nodes, node)
           n == Len(nodes) + 1
           line == Append(pl.nodes, n)
           pushed == [pl EXCEPT !.nodes = Append(@, n)]
<1>1. /\ DOMAIN nodes = 1 .. Len(nodes)
      /\ DOMAIN more = 1 .. Len(nodes) + 1 /\ Len(nodes) \in Nat
      /\ more[n] = node
  OBVIOUS
<1>2. /\ pl \in PipelinesOf(more)
      /\ PipelineSays(more, pl, says) <=> PipelineSays(nodes, pl, says)
  BY OldPipeline
<1> HIDE DEF more
<1>3. pl.nodes \in Seq(DOMAIN more) /\ pushed = [nodes |-> line, essential |-> pl.essential]
      /\ pl.essential \in BOOLEAN
  <2>0. /\ pl = [nodes |-> pl.nodes, essential |-> pl.essential]
        /\ pl.nodes \in Seq(DOMAIN more) /\ pl.essential \in BOOLEAN
    BY <1>2 DEF PipelinesOf
  <2>1. PICK x \in Seq(DOMAIN more), y \in BOOLEAN : pl = [nodes |-> x, essential |-> y]
    BY <2>0, Zenon
  <2>2. pl.nodes = x /\ pl.essential = y
    BY <2>1
  <2>3. pushed = [nodes |-> Append(x, n), essential |-> y]
    <3> DEFINE grown == Append(x, n)
    <3>1. pushed = [pl EXCEPT !.nodes = grown]
      BY <2>2
    <3> HIDE DEF grown, pushed
    <3>2. pushed = [nodes |-> grown, essential |-> y]
      BY <2>1, <3>1
    <3> QED
      BY <3>2 DEF grown
  <2> QED
    BY <2>2, <2>3
<1>4. n \in DOMAIN more
  BY <1>1
<1>5. /\ line \in Seq(DOMAIN more) /\ Len(pl.nodes) \in Nat
      /\ DOMAIN pl.nodes = 1 .. Len(pl.nodes)
      /\ DOMAIN line = 1 .. Len(pl.nodes) + 1 /\ line[Len(pl.nodes) + 1] = n
      /\ \A j \in 1 .. Len(pl.nodes) : line[j] = pl.nodes[j]
  <2> HIDE DEF n
  <2> QED
    BY <1>3, <1>4
<1>6. pushed \in PipelinesOf(more)
  BY <1>3, <1>5 DEF PipelinesOf
<1>7. pushed.nodes = line
  BY <1>3
<1> HIDE DEF n, line, pushed
<1>8. PipelineSays(more, pushed, says) <=> PipelineSays(more, pl, says) /\ NodeSays(node, says)
  <2>1. DOMAIN pushed.nodes = DOMAIN pl.nodes \cup {Len(pl.nodes) + 1}
    BY <1>5, <1>7
  <2>2. /\ more[pushed.nodes[Len(pl.nodes) + 1]] = node
        /\ \A j \in DOMAIN pl.nodes : pushed.nodes[j] = pl.nodes[j]
    BY <1>1, <1>5, <1>7
  <2>3. \A j \in DOMAIN pl.nodes : more[pushed.nodes[j]] = more[pl.nodes[j]]
    BY <2>2
  <2> QED
    BY <2>1, <2>2, <2>3 DEF PipelineSays
<1> QED
  BY <1>2, <1>6, <1>8 DEF more, n, pushed

\* "&".
LEMMA AndSays ==
    ASSUME NEW nodes \in Seq(NodesOf), NEW node \in NodesOf,
           NEW pls \in Seq(PipelinesOf(nodes)), pls # <<>>, NEW says
    PROVE  LET all == PushAll(pls, Len(nodes) + 1) IN
           /\ all \in Seq(PipelinesOf(Append(nodes, node))) /\ all # <<>>
           /\ SomeSays(Append(nodes, node), all, says)
              <=> SomeSays(nodes, pls, says) /\ NodeSays(node, says)
<1> DEFINE more == Append(nodes, node)
           n == Len(nodes) + 1
           pushed(pl) == [pl EXCEPT !.nodes = Append(@, n)]
           all == [i \in DOMAIN pls |-> pushed(pls[i])]
<1>1. all = PushAll(pls, n)
  BY DEF PushAll
<1>2. DOMAIN pls = 1 .. Len(pls) /\ Len(pls) \in Nat /\ \A i \in DOMAIN pls : pls[i] \in PipelinesOf(nodes)
  OBVIOUS
<1>3. ASSUME NEW i \in DOMAIN pls
      PROVE  /\ pushed(pls[i]) \in PipelinesOf(more)
             /\ PipelineSays(more, pushed(pls[i]), says)
                <=> PipelineSays(nodes, pls[i], says) /\ NodeSays(node, says)
  BY <1>2, PushedPipeline
<1> HIDE DEF more, n, pushed
<1>4. all \in Seq(PipelinesOf(more)) /\ all # <<>>
  <2>1. all \in [1 .. Len(pls) -> PipelinesOf(more)]
    BY <1>2, <1>3
  <2>2. Len(pls) # 0
    BY EmptySeq
  <2>3. DOMAIN all = 1 .. Len(pls)
    BY <1>2
  <2> HIDE DEF all
  <2> QED
    BY <2>1, <2>2, <2>3, <1>2
<1>5. SomeSays(more, all, says) <=> SomeSays(nodes, pls, says) /\ NodeSays(node, says)
  BY <1>3 DEF SomeSays
<1> QED
  BY <1>1, <1>4, <1>5 DEF more, n

\* "|".
LEMMA OrSays ==
    ASSUME NEW nodes \in Seq(NodesOf), NEW node \in NodesOf,
           NEW pls \in Seq(PipelinesOf(nodes)), NEW says
    PROVE  LET all == Append(pls, NewPipeline(Len(nodes) + 1)) IN
           /\ all \in Seq(PipelinesOf(Append(nodes, node))) /\ all # <<>>
           /\ SomeSays(Append(nodes, node), all, says)
              <=> SomeSays(nodes, pls, says) \/ NodeSays(node, says)
<1> DEFINE more == Append(nodes, node)
           n == Len(nodes) + 1
           new == NewPipeline(n)
           all == Append(pls, new)
<1>1. /\ DOMAIN more = 1 .. Len(nodes) + 1 /\ Len(nodes) \in Nat /\ more[n] = node
  OBVIOUS
<1>2. DOMAIN pls = 1 .. Len(pls) /\ Len(pls) \in Nat /\ \A i \in DOMAIN pls : pls[i] \in PipelinesOf(nodes)
  OBVIOUS
<1>3. ASSUME NEW i \in DOMAIN pls
      PROVE  /\ pls[i] \in PipelinesOf(more)
             /\ PipelineSays(more, pls[i], says) <=> PipelineSays(nodes, pls[i], says)
  BY <1>2, OldPipeline
<1> HIDE DEF more
<1>4. new = [nodes |-> <<n>>, essential |-> FALSE] /\ n \in DOMAIN more
  BY <1>1 DEF NewPipeline
<1> HIDE DEF n, new
<1>5. new \in PipelinesOf(more) /\ new.nodes = <<n>>
  BY <1>4 DEF PipelinesOf
<1>6. PipelineSays(more, new, says) <=> NodeSays(node, says)
  <2>1. DOMAIN new.nodes = {1} /\ new.nodes[1] = n
    BY <1>5
  <2> QED
    BY <1>1, <2>1 DEF PipelineSays
<1>7. /\ all \in Seq(PipelinesOf(more)) /\ all # <<>>
      /\ DOMAIN all = 1 .. Len(pls) + 1
      /\ all[Len(pls) + 1] = new /\ \A i \in 1 .. Len(pls) : all[i] = pls[i]
  <2>1. pls \in Seq(PipelinesOf(more))
    BY <1>2, <1>3
  <2> QED
    BY <1>5, <2>1
<1> HIDE DEF all
<1>8. SomeSays(more, all, says) <=> SomeSays(nodes, pls, says) \/ NodeSays(node, says)
  BY <1>2, <1>3, <1>6, <1>7 DEF SomeSays
<1> QED
  BY <1>7, <1>8 DEF more, n, new, all

\* ":".
LEMMA ColonSays ==
    ASSUME NEW nodes \in Seq(NodesOf), nodes # <<>>, NEW uid \in Plugins,
           NEW pls \in Seq(PipelinesOf(nodes)), pls # <<>>, NEW says
    PROVE  LET grown == [nodes EXCEPT ![Len(nodes)].plugins = Append(@, uid)]
               marked == MarkEssential(pls)
           IN /\ grown \in Seq(NodesOf) /\ grown # <<>>
              /\ marked \in Seq(PipelinesOf(grown)) /\ marked # <<>>
              /\ SomeSays(grown, marked, says) <=> SomeSays(nodes, pls, says)
<1> DEFINE n == Len(nodes)
           node == nodes[n]
           plugins == Append(node.plugins, uid)
           grown == [nodes EXCEPT ![n].plugins = Append(@, uid)]
           marked == MarkEssential(pls)
<1>1. n \in Nat /\ n # 0 /\ DOMAIN nodes = 1 .. n /\ node \in NodesOf
      /\ \A i \in 1 .. n : nodes[i] \in NodesOf
  <2>1. n # 0
    BY EmptySeq
  <2> QED
    BY <2>1
<1>2. PICK x \in Seq(Plugins) \ {<<>>}, y \in BOOLEAN : node = [plugins |-> x, cut |-> y]
  <2>1. /\ node = [plugins |-> node.plugins, cut |-> node.cut]
        /\ node.plugins \in Seq(Plugins) \ {<<>>} /\ node.cut \in BOOLEAN
    BY <1>1 DEF NodesOf
  <2> QED
    BY <2>1, Zenon
<1>3. node.plugins = x /\ node.cut = y
  BY <1>2
<1>4. /\ plugins \in Seq(Plugins) \ {<<>>} /\ plugins[1] = x[1]
  <2>1. plugins = Append(x, uid) /\ x \in Seq(Plugins) /\ Len(x) \in Nat
    BY <1>3
  <2>2. Len(x) # 0
    BY EmptySeq
  <2> HIDE DEF plugins
  <2>3. plugins \in Seq(Plugins) /\ Len(plugins) = Len(x) + 1 /\ plugins[1] = x[1]
    BY <2>1, <2>2
  <2> QED
    BY <2>1, <2>3
<1> DEFINE more == [plugins |-> plugins, cut |-> y]
<1>5. grown = [nodes EXCEPT ![n] = more]
  <2>1. grown = [nodes EXCEPT ![n] = [node EXCEPT !.plugins = plugins]]
    BY <1>1
  <2>2. [node EXCEPT !.plugins = plugins] = more
    <3> HIDE DEF plugins, node
    <3> QED
      BY <1>2
  <2> HIDE DEF grown, more
  <2> QED
    BY <2>1, <2>2
<1>6. more \in NodesOf
  <2> HIDE DEF plugins
  <2> QED
    BY <1>4 DEF NodesOf
<1>7. NodeSays(more, says) <=> NodeSays(node, says)
  <2>1. more.plugins[1] = node.plugins[1] /\ more.cut = node.cut
    BY <1>3, <1>4
  <2> HIDE DEF more, node
  <2> QED
    BY <2>1 DEF NodeSays
<1> HIDE DEF node, plugins, more, grown
<1>8. /\ grown \in Seq(NodesOf) /\ DOMAIN grown = 1 .. n
      /\ \A i \in 1 .. n : NodeSays(grown[i], says) <=> NodeSays(nodes[i], says)
  <2>1. grown \in [1 .. n -> NodesOf]
    BY <1>1, <1>5, <1>6
  <2>2. grown \in Seq(NodesOf)
    BY <1>1, <2>1
  <2>3. ASSUME NEW i \in 1 .. n
        PROVE  NodeSays(grown[i], says) <=> NodeSays(nodes[i], says)
    <3>1. CASE i = n
      BY <1>1, <1>5, <1>7, <3>1 DEF node
    <3>2. CASE i # n
      <4>1. grown[i] = nodes[i]
        BY <1>1, <1>5, <3>2
      <4> QED
        BY <4>1
    <3> QED
      BY <3>1, <3>2
  <2> QED
    BY <2>1, <2>2, <2>3
<1>9. grown # <<>>
  BY <1>1, <1>8
<1>10. PipelinesOf(grown) = PipelinesOf(nodes)
  BY <1>1, <1>8 DEF PipelinesOf
<1>11. /\ marked \in Seq(PipelinesOf(nodes)) /\ marked # <<>> /\ DOMAIN marked = DOMAIN pls
       /\ \A i \in DOMAIN pls : marked[i].nodes = pls[i].nodes
  <2>1. CASE ~(Len(pls) > 1)
    BY <2>1 DEF MarkEssential
  <2>2. CASE Len(pls) > 1
    <3> DEFINE l == Len(pls)
               last == SetEssential(pls[l])
    <3>1. l \in Nat /\ DOMAIN pls = 1 .. l /\ pls[l] \in PipelinesOf(nodes) /\ l > 1
      BY <2>2
    <3>2. last \in PipelinesOf(nodes) /\ last.nodes = pls[l].nodes
      BY <3>1 DEF SetEssential, PipelinesOf
    <3>3. marked = [pls EXCEPT ![l] = last]
      BY <2>2 DEF MarkEssential
    <3> HIDE DEF last, marked, l
    <3> QED
      BY <3>1, <3>2, <3>3
  <2> QED
    BY <2>1, <2>2
<1>12. SomeSays(grown, marked, says) <=> SomeSays(nodes, pls, says)
  <2>1. ASSUME NEW i \in DOMAIN pls
        PROVE  PipelineSays(grown, marked[i], says) <=> PipelineSays(nodes, pls[i], says)
    <3>0. pls[i] \in PipelinesOf(nodes)
      BY ElementOfSeq
    <3>1. pls[i].nodes \in Seq(1 .. n)
      BY <1>1, <3>0 DEF PipelinesOf
    <3>2. \A j \in DOMAIN pls[i].nodes : pls[i].nodes[j] \in 1 .. n
      BY <3>1
    <3>3. marked[i].nodes = pls[i].nodes
      BY <1>11
    <3> HIDE DEF marked
    <3> QED
      BY <1>8, <3>2, <3>3 DEF PipelineSays
  <2> HIDE DEF marked
  <2> QED
    BY <1>11, <2>1 DEF SomeSays
<1> QED
  BY <1>8, <1>9, <1>10, <1>11, <1>12 DEF grown, n

\* The operator and "cut" that a plugin finds are those before it.
LEMMA OperatorIs ==
    ASSUME NEW s, ValidLogic(s), NoneAttachedUncut(s), NEW k \in 1 .. Len(s), s[k] \in Plugins,
           NEW p, ParsedUpTo(s, k - 1, p)
    PROVE  /\ p.op \in {"&", "|", ":", "none"}
           /\ p.op = ":" => ~IsOperand(s, k)
           /\ p.op = "none" => IsOperand(s, k) /\ IsFirst(s, k) /\ p.nodes = <<>>
                               /\ p.pipelines = NothingParsed.pipelines
           /\ p.op \in {"&", "|"} => IsOperand(s, k) /\ ~IsFirst(s, k)
                                     /\ OperatorBefore(s, k) = p.op
           /\ p.op # ":" => (p.cut <=> ~(k > 1 /\ s[k - 1] = Uncut))
<1>0. Len(s) \in Nat /\ k \in Nat
  BY TokensInPlace
<1>1. CASE k = 1
  <2>1. p.op = "none" /\ p.cut /\ p.nodes = <<>> /\ p.pipelines = NothingParsed.pipelines
    BY <1>1 DEF ParsedUpTo
  <2> QED
    BY <1>1, <2>1 DEF IsOperand, IsFirst
<1>2. CASE k > 1
  <2>1. k - 1 \in 1 .. Len(s) /\ s[k - 1] \in Operators \cup {Uncut}
    BY <1>0, <1>2, TokensInPlace, TokensApart
  <2>2. CASE s[k - 1] \in Operators
    <3>1. p.op = s[k - 1] /\ (p.cut <=> k - 1 = 1 \/ s[k - 2] # Uncut)
      BY <1>0, <1>2, <2>1, <2>2, TokensApart DEF ParsedUpTo
    <3>2. k - 1 # 1 /\ s[1] \notin Operators
      BY <1>0, <2>1, <2>2, TokensInPlace DEF ValidLogic
    <3>3. s[k - 2] = Uncut => s[k - 1] = ":"
      <4>1. (k - 1) - 1 = k - 2
        BY <1>0
      <4> QED
        BY <2>1, <2>2, <4>1, TokensInPlace
    <3>4. /\ IsOperand(s, k) <=> s[k - 1] # ":"
          /\ OperatorBefore(s, k) = s[k - 1]
          /\ ~IsFirst(s, k)
      BY <1>0, <1>2, <2>2, <3>2, TokensApart DEF IsOperand, OperatorBefore, IsFirst
    <3> QED
      BY <1>2, <2>2, <3>1, <3>2, <3>3, <3>4, TokensApart DEF Operators
  <2>3. CASE s[k - 1] = Uncut /\ k = 2
    <3>1. p.op = "none" /\ ~p.cut /\ p.nodes = <<>> /\ p.pipelines = NothingParsed.pipelines
      BY <2>3, TokensApart DEF ParsedUpTo
    <3>2. IsOperand(s, k) /\ IsFirst(s, k)
      BY <2>3, TokensApart DEF IsOperand, IsFirst, Uncut
    <3> QED
      BY <2>3, <3>1, <3>2
  <2>4. CASE s[k - 1] = Uncut /\ k > 2
    <3>1. s[k - 2] \in Operators
      <4>1. (k - 1) - 1 = k - 2
        BY <1>0
      <4> QED
        BY <2>1, <2>4, <4>1, TokensInPlace
    <3>2. p.op = s[k - 2] /\ ~p.cut
      <4>1. (k - 1) - 1 = k - 2 /\ k - 1 # 0 /\ k - 1 > 1
        BY <1>0, <2>4
      <4> QED
        BY <2>4, <4>1, TokensApart DEF ParsedUpTo
    <3>3. s[k - 2] # ":"
      BY <1>0, <2>4 DEF NoneAttachedUncut
    <3>4. IsOperand(s, k) /\ OperatorBefore(s, k) = s[k - 2] /\ ~IsFirst(s, k)
      BY <1>0, <2>4 DEF IsOperand, OperatorBefore, IsFirst, Uncut
    <3> QED
      BY <2>4, <3>1, <3>2, <3>3, <3>4 DEF Operators
  <2> QED
    BY <1>0, <1>2, <2>1, <2>2, <2>3, <2>4
<1> QED
  BY <1>0, <1>1, <1>2

\* A node says what its operand does.
LEMMA NodeIsOperand ==
    ASSUME NEW s, NEW k \in Nat \ {0}, s[k] \in Plugins, NEW cut \in BOOLEAN,
           cut <=> ~(k > 1 /\ s[k - 1] = Uncut), NEW says \in Verdicts
    PROVE  NodeSays(NewNode(s[k], cut), says) <=> says \in OperandHolds(s, k)
<1>1. NewNode(s[k], cut).plugins[1] = s[k] /\ NewNode(s[k], cut).cut = cut
  BY DEF NewNode
<1>2. s[k] \in Detectors <=> s[k] \notin Effects
  BY PluginsDistinct DEF Plugins
<1> QED
  BY <1>1, <1>2 DEF NodeSays, OperandHolds

\* The first plugin of a request.
LEMMA FirstSays ==
    ASSUME NEW node \in NodesOf, NEW says
    PROVE  LET pls == NothingParsed.pipelines
               nodes == <<>>
               first == [pls EXCEPT ![Len(pls)].nodes = Append(@, Len(nodes) + 1)]
           IN /\ first \in Seq(PipelinesOf(Append(nodes, node))) /\ first # <<>>
              /\ SomeSays(Append(nodes, node), first, says) <=> NodeSays(node, says)
<1> DEFINE pls == NothingParsed.pipelines
           none == <<>>
           first == [pls EXCEPT ![Len(pls)].nodes = Append(@, Len(none) + 1)]
           empty == [nodes |-> <<>>, essential |-> FALSE]
<1>1. pls = <<empty>>
  BY DEF NothingParsed
<1>2. empty \in PipelinesOf(none) /\ none \in Seq(NodesOf) /\ empty.nodes = <<>>
  BY DEF PipelinesOf
<1> HIDE DEF pls, none, empty
<1>3. pls \in Seq(PipelinesOf(none)) /\ pls # <<>> /\ Len(pls) = 1 /\ DOMAIN pls = {1} /\ pls[1] = empty
  BY <1>1, <1>2
<1>4. first = PushAll(pls, Len(none) + 1)
  <2> DEFINE l == Len(none) + 1
  <2> HIDE DEF l
  <2>1. [pls EXCEPT ![1].nodes = Append(@, l)] = [i \in DOMAIN pls |-> [pls[i] EXCEPT !.nodes = Append(@, l)]]
    BY <1>3
  <2> QED
    BY <1>3, <2>1 DEF PushAll, l
<1>5. SomeSays(none, pls, says)
  BY <1>2, <1>3 DEF SomeSays, PipelineSays
<1>6. LET all == PushAll(pls, Len(none) + 1) IN
      /\ all \in Seq(PipelinesOf(Append(none, node))) /\ all # <<>>
      /\ SomeSays(Append(none, node), all, says)
         <=> SomeSays(none, pls, says) /\ NodeSays(node, says)
  BY <1>2, <1>3, AndSays
<1> QED
  BY <1>4, <1>5, <1>6 DEF pls, none

\* What a plugin adds: a node to all pipelines, a pipeline with a node, an effect to the
\* last node, or the first node.
Attach(nodes, uid) == [nodes EXCEPT ![Len(nodes)].plugins = Append(@, uid)]

FirstPipelines(pls, n) == [pls EXCEPT ![Len(pls)].nodes = Append(@, n)]

Built(p, uid, nodes, pls) ==
    LET n == Len(p.nodes) + 1
        more == Append(p.nodes, NewNode(uid, p.cut))
    IN \/ p.op = "&" /\ nodes = more /\ pls = PushAll(p.pipelines, n)
       \/ p.op = "|" /\ nodes = more /\ pls = Append(p.pipelines, NewPipeline(n))
       \/ p.op = "none" /\ nodes = more /\ pls = FirstPipelines(p.pipelines, n)
       \/ /\ p.op = ":" /\ p.nodes # <<>>
          /\ nodes = Attach(p.nodes, uid) /\ pls = MarkEssential(p.pipelines)

LEMMA PluginBuilds ==
    ASSUME NEW p, BuiltOf(p), p.op \in {"&", "|", ":", "none"}, NEW uid \in Plugins,
           ParseToken(p, uid).null = FALSE
    PROVE  \E nodes, pls :
               /\ Built(p, uid, nodes, pls)
               /\ ParseToken(p, uid) = [nodes |-> nodes, pipelines |-> pls, op |-> "none",
                                       cut |-> TRUE, null |-> p.null]
<1> DEFINE q == ParseToken(p, uid)
           r == AddPlugin(p, uid)
           n == Len(p.nodes) + 1
           more == Append(p.nodes, NewNode(uid, p.cut))
<1>1. uid \notin Operators /\ uid # Uncut
  BY TokensApart
<1>2. PICK a, b, c, d, e :
          p = [nodes |-> a, pipelines |-> b, op |-> c, cut |-> d, null |-> e]
  BY DEF BuiltOf, IsParser
<1>3. q = [r EXCEPT !.op = "none", !.cut = TRUE]
  BY <1>1 DEF ParseToken
<1> HIDE DEF q
<1>4. ASSUME NEW nodes, NEW pls, r = [p EXCEPT !.nodes = nodes, !.pipelines = pls]
      PROVE  q = [nodes |-> nodes, pipelines |-> pls, op |-> "none", cut |-> TRUE, null |-> p.null]
  <2> HIDE DEF r
  <2>1. r = [nodes |-> nodes, pipelines |-> pls, op |-> p.op, cut |-> p.cut, null |-> p.null]
    BY <1>2, <1>4
  <2> QED
    BY <1>3, <2>1
<1>5. CASE p.op = "&"
  <2> DEFINE pls == PushAll(p.pipelines, n)
  <2>1. r = [p EXCEPT !.nodes = more, !.pipelines = PushAll(@, n)]
    BY <1>5 DEF AddPlugin
  <2>2. r = [p EXCEPT !.nodes = more, !.pipelines = pls]
    BY <2>1
  <2>3. Built(p, uid, more, pls)
    BY <1>5 DEF Built
  <2> HIDE DEF more, pls, r
  <2> QED
    BY <1>4, <2>2, <2>3 DEF q
<1>6. CASE p.op = "|"
  <2> DEFINE pls == Append(p.pipelines, NewPipeline(n))
  <2>1. r = [p EXCEPT !.nodes = more, !.pipelines = Append(@, NewPipeline(n))]
    BY <1>6 DEF AddPlugin
  <2>2. r = [p EXCEPT !.nodes = more, !.pipelines = pls]
    BY <2>1
  <2>3. Built(p, uid, more, pls)
    BY <1>6 DEF Built
  <2> HIDE DEF more, pls, r
  <2> QED
    BY <1>4, <2>2, <2>3 DEF q
<1>7. CASE p.op = ":"
  <2>1. p.nodes # <<>>
    <3> SUFFICES ASSUME p.nodes = <<>> PROVE FALSE
      OBVIOUS
    <3>1. r = [p EXCEPT !.null = TRUE]
      BY <1>7 DEF AddPlugin
    <3> HIDE DEF r
    <3>2. r = [nodes |-> p.nodes, pipelines |-> p.pipelines, op |-> p.op, cut |-> p.cut, null |-> TRUE]
      BY <1>2, <3>1
    <3>3. q.null = TRUE
      BY <1>3, <3>2
    <3> QED
      BY <3>3 DEF q
  <2> DEFINE nodes == Attach(p.nodes, uid)
             pls == MarkEssential(p.pipelines)
  <2>2. r = [p EXCEPT !.nodes = nodes, !.pipelines = pls]
    <3>1. n - 1 = Len(p.nodes)
      BY DEF BuiltOf
    <3>2. r = [p EXCEPT !.nodes[n - 1].plugins = Append(@, uid), !.pipelines = MarkEssential(@)]
      BY <1>7, <2>1 DEF AddPlugin
    <3>3. nodes = [p.nodes EXCEPT ![Len(p.nodes)].plugins = Append(@, uid)]
      BY DEF Attach
    <3> HIDE DEF n, r, nodes
    <3> QED
      BY <1>2, <3>1, <3>2, <3>3
  <2>3. Built(p, uid, nodes, pls)
    BY <1>7, <2>1 DEF Built
  <2> HIDE DEF nodes, pls, r
  <2> QED
    BY <1>4, <2>2, <2>3 DEF q
<1>8. CASE p.op = "none"
  <2> DEFINE pls == FirstPipelines(p.pipelines, n)
  <2>1. r = [p EXCEPT !.nodes = more, !.pipelines[Len(p.pipelines)].nodes = Append(@, n)]
    BY <1>8 DEF AddPlugin
  <2>2. pls = [p.pipelines EXCEPT ![Len(p.pipelines)].nodes = Append(@, n)]
    BY DEF FirstPipelines
  <2>3. r = [p EXCEPT !.nodes = more, !.pipelines = pls]
    <3> HIDE DEF n, r, more, pls
    <3> QED
      BY <1>2, <2>1, <2>2
  <2>4. Built(p, uid, more, pls)
    BY <1>8 DEF Built
  <2> HIDE DEF more, pls, r
  <2> QED
    BY <1>4, <2>3, <2>4 DEF q
<1> QED
  BY <1>5, <1>6, <1>7, <1>8

\* A plugin builds what the operator before it says, unless there is no node to attach
\* it to.
LEMMA PluginStep ==
    ASSUME NEW s, ValidLogic(s), NoneAttachedUncut(s), NEW k \in 1 .. Len(s), s[k] \in Plugins,
           NEW p, BuiltOf(p), ParsedUpTo(s, k - 1, p), p.null = FALSE,
           ParseToken(p, s[k]).null = FALSE, NEW says \in Verdicts, NEW before,
           SomeSays(p.nodes, p.pipelines, says) <=> says \in before
    PROVE  LET q == ParseToken(p, s[k]) IN
           /\ BuiltOf(q) /\ ParsedUpTo(s, k, q)
           /\ SomeSays(q.nodes, q.pipelines, says) <=> says \in NextMeaning(s, k, before)
<1> DEFINE uid == s[k]
           q == ParseToken(p, uid)
           n == Len(p.nodes) + 1
           node == NewNode(uid, p.cut)
           more == Append(p.nodes, node)
<1>1. /\ Len(s) \in Nat /\ k \in Nat \ {0} /\ uid \notin Operators /\ uid # Uncut
  BY TokensInPlace, TokensApart
<1>2. /\ p.op \in {"&", "|", ":", "none"}
      /\ p.op = ":" => ~IsOperand(s, k)
      /\ p.op = "none" => IsOperand(s, k) /\ IsFirst(s, k) /\ p.nodes = <<>>
                          /\ p.pipelines = NothingParsed.pipelines
      /\ p.op \in {"&", "|"} => IsOperand(s, k) /\ ~IsFirst(s, k) /\ OperatorBefore(s, k) = p.op
      /\ p.op # ":" => (p.cut <=> ~(k > 1 /\ s[k - 1] = Uncut))
  BY OperatorIs
<1>3. /\ p.nodes \in Seq(NodesOf) /\ p.pipelines \in Seq(PipelinesOf(p.nodes)) /\ p.pipelines # <<>>
      /\ p.cut \in BOOLEAN
  BY DEF BuiltOf
<1>4. PICK nodes, pls :
          /\ Built(p, uid, nodes, pls)
          /\ q = [nodes |-> nodes, pipelines |-> pls, op |-> "none", cut |-> TRUE, null |-> p.null]
  BY <1>2, PluginBuilds
<1>5. node \in NodesOf
  BY <1>3 DEF NewNode, NodesOf
<1>6. p.op # ":" => (NodeSays(node, says) <=> says \in OperandHolds(s, k))
  BY <1>1, <1>2, <1>3, NodeIsOperand
<1>7. more \in Seq(NodesOf) /\ more # <<>>
  BY <1>3, <1>5
<1>8. /\ nodes \in Seq(NodesOf) /\ nodes # <<>>
      /\ pls \in Seq(PipelinesOf(nodes)) /\ pls # <<>>
      /\ SomeSays(nodes, pls, says) <=> says \in NextMeaning(s, k, before)
  <2> HIDE DEF q, node
  <2>1. CASE p.op = "&"
    <3>1. nodes = more /\ pls = PushAll(p.pipelines, n)
      BY <1>4, <2>1 DEF Built, node
    <3>2. /\ pls \in Seq(PipelinesOf(nodes)) /\ pls # <<>>
          /\ SomeSays(nodes, pls, says)
             <=> SomeSays(p.nodes, p.pipelines, says) /\ NodeSays(node, says)
      BY <1>3, <1>5, <3>1, AndSays
    <3>3. NextMeaning(s, k, before) = before \cap OperandHolds(s, k)
      BY <1>2, <2>1 DEF NextMeaning
    <3> HIDE DEF more
    <3> QED
      BY <1>6, <1>7, <2>1, <3>1, <3>2, <3>3
  <2>2. CASE p.op = "|"
    <3>1. nodes = more /\ pls = Append(p.pipelines, NewPipeline(n))
      BY <1>4, <2>2 DEF Built, node
    <3>2. /\ pls \in Seq(PipelinesOf(nodes)) /\ pls # <<>>
          /\ SomeSays(nodes, pls, says)
             <=> SomeSays(p.nodes, p.pipelines, says) \/ NodeSays(node, says)
      BY <1>3, <1>5, <3>1, OrSays
    <3>3. NextMeaning(s, k, before) = before \cup OperandHolds(s, k)
      BY <1>2, <2>2 DEF NextMeaning
    <3> HIDE DEF more
    <3> QED
      BY <1>6, <1>7, <2>2, <3>1, <3>2, <3>3
  <2>3. CASE p.op = ":"
    <3>1. /\ p.nodes # <<>> /\ nodes = Attach(p.nodes, uid)
          /\ pls = MarkEssential(p.pipelines)
      BY <1>4, <2>3 DEF Built
    <3>2. /\ nodes \in Seq(NodesOf) /\ nodes # <<>>
          /\ pls \in Seq(PipelinesOf(nodes)) /\ pls # <<>>
          /\ SomeSays(nodes, pls, says) <=> SomeSays(p.nodes, p.pipelines, says)
      BY <1>3, <3>1, ColonSays DEF Attach
    <3>3. NextMeaning(s, k, before) = before
      BY <1>2, <2>3 DEF NextMeaning
    <3> QED
      BY <3>2, <3>3
  <2>4. CASE p.op = "none"
    <3>1. nodes = more /\ pls = FirstPipelines(p.pipelines, n)
      BY <1>4, <2>4 DEF Built, node
    <3>2. /\ pls \in Seq(PipelinesOf(nodes)) /\ pls # <<>>
          /\ SomeSays(nodes, pls, says) <=> NodeSays(node, says)
      BY <1>2, <1>5, <2>4, <3>1, FirstSays DEF FirstPipelines
    <3>3. NextMeaning(s, k, before) = OperandHolds(s, k)
      BY <1>2, <2>4 DEF NextMeaning
    <3> HIDE DEF more
    <3> QED
      BY <1>6, <1>7, <2>4, <3>1, <3>2, <3>3
  <2> QED
    BY <1>2, <2>1, <2>2, <2>3, <2>4
<1> HIDE DEF q
<1>9. BuiltOf(q)
  BY <1>4, <1>8 DEF BuiltOf, IsParser
<1>10. ParsedUpTo(s, k, q)
  <2>1. q.op = "none" /\ q.cut = TRUE
    BY <1>4
  <2> QED
    BY <1>1, <2>1 DEF ParsedUpTo
<1>11. q.nodes = nodes /\ q.pipelines = pls
  BY <1>4
<1> QED
  BY <1>8, <1>9, <1>10, <1>11 DEF q

\* Once a null node was used the parse is void.
LEMMA ParserStays ==
    ASSUME NEW p, IsParser(p), NEW token
    PROVE  IsParser(ParseToken(p, token)) /\ ParseToken(p, token).null \in {p.null, TRUE}
<1> DEFINE r == AddPlugin(p, token)
           q == ParseToken(p, token)
           n == Len(p.nodes) + 1
           nodes == Append(p.nodes, NewNode(token, p.cut))
<1>1. PICK a, b, c, d, e : p = [nodes |-> a, pipelines |-> b, op |-> c, cut |-> d, null |-> e]
  BY DEF IsParser
<1>2. CASE token = Uncut
  <2>1. q = [p EXCEPT !.cut = FALSE]
    BY <1>2, TokensApart DEF ParseToken
  <2> HIDE DEF q
  <2> QED
    BY <1>1, <2>1 DEF IsParser, q
<1>3. CASE token \in Operators
  <2>1. q = [p EXCEPT !.op = token]
    BY <1>3, TokensApart DEF ParseToken
  <2> HIDE DEF q
  <2> QED
    BY <1>1, <2>1 DEF IsParser, q
<1>4. CASE token # Uncut /\ token \notin Operators
  <2>1. q = [r EXCEPT !.op = "none", !.cut = TRUE]
    BY <1>4 DEF ParseToken
  <2>2. \E x, y, z : /\ r = [nodes |-> x, pipelines |-> y, op |-> p.op, cut |-> p.cut, null |-> z]
                    /\ z \in {p.null, TRUE}
    <3>1. CASE p.op = "&"
      <4>1. r = [p EXCEPT !.nodes = nodes, !.pipelines = PushAll(@, n)]
        BY <3>1 DEF AddPlugin
      <4> HIDE DEF r, n, nodes
      <4> QED
        BY <1>1, <4>1
    <3>2. CASE p.op = "|"
      <4>1. r = [p EXCEPT !.nodes = nodes, !.pipelines = Append(@, NewPipeline(n))]
        BY <3>2 DEF AddPlugin
      <4> HIDE DEF r, n, nodes
      <4> QED
        BY <1>1, <4>1
    <3>3. CASE p.op = ":" /\ p.nodes = <<>>
      <4>1. r = [p EXCEPT !.null = TRUE]
        BY <3>3 DEF AddPlugin
      <4> HIDE DEF r
      <4> QED
        BY <1>1, <4>1
    <3>4. CASE p.op = ":" /\ p.nodes # <<>>
      <4>1. r = [p EXCEPT !.nodes[n - 1].plugins = Append(@, token), !.pipelines = MarkEssential(@)]
        BY <3>4 DEF AddPlugin
      <4> HIDE DEF r, n
      <4> QED
        BY <1>1, <4>1
    <3>5. CASE p.op \notin {"&", "|", ":"}
      <4>1. r = [p EXCEPT !.nodes = nodes, !.pipelines[Len(p.pipelines)].nodes = Append(@, n)]
        BY <3>5 DEF AddPlugin
      <4> HIDE DEF r, n, nodes
      <4> QED
        BY <1>1, <4>1
    <3> QED
      BY <3>1, <3>2, <3>3, <3>4, <3>5
  <2> HIDE DEF q, r
  <2>3. PICK x, y, z : /\ r = [nodes |-> x, pipelines |-> y, op |-> p.op, cut |-> p.cut, null |-> z]
                       /\ z \in {p.null, TRUE}
    BY <2>2
  <2>4. q = [nodes |-> x, pipelines |-> y, op |-> "none", cut |-> TRUE, null |-> z]
    BY <2>1, <2>3
  <2>5. IsParser(q) /\ q.null = z
    BY <2>4 DEF IsParser
  <2> QED
    BY <2>3, <2>5 DEF q
<1> QED
  BY <1>2, <1>3, <1>4

\* What the request up to each token means, the pipelines built from it say.
ParsedRight(s, k, says) ==
    LET p == Parsing(s)[k] IN
    /\ IsParser(p)
    /\ \/ p.null = TRUE
       \/ /\ p.null = FALSE
          /\ BuiltOf(p) /\ ParsedUpTo(s, k, p)
          /\ SomeSays(p.nodes, p.pipelines, says) <=> says \in Meanings(s)[k]

LEMMA ParseGoesRight ==
    ASSUME NEW s, ValidLogic(s), NoneAttachedUncut(s), NEW says \in Verdicts
    PROVE  \A k \in 0 .. Len(s) : ParsedRight(s, k, says)
<1> DEFINE at(k) == Parsing(s)[k]
           means(k) == Meanings(s)[k]
           Right(k) == ParsedRight(s, k, says)
           wrong == {k \in 0 .. Len(s) : ~Right(k)}
<1>1. Len(s) \in Nat
  BY DEF ValidLogic
<1>2. at(0) = NothingParsed /\ \A i \in 1 .. Len(s) : at(i) = ParseToken(at(i - 1), s[i])
  BY <1>1, ParsingSteps
<1>3. means(0) = Verdicts /\ \A i \in 1 .. Len(s) : means(i) = NextMeaning(s, i, means(i - 1))
  BY <1>1, MeaningSteps
<1>9. \A k : Right(k) <=> /\ IsParser(at(k))
                          /\ \/ at(k).null = TRUE
                             \/ /\ at(k).null = FALSE
                                /\ BuiltOf(at(k)) /\ ParsedUpTo(s, k, at(k))
                                /\ SomeSays(at(k).nodes, at(k).pipelines, says) <=> says \in means(k)
  BY Zenon DEF ParsedRight
<1> HIDE DEF at, means, Right
<1>4. Right(0)
  <2> DEFINE pl == [nodes |-> <<>>, essential |-> FALSE]
  <2>1. at(0) = [nodes |-> <<>>, pipelines |-> <<pl>>, op |-> "none", cut |-> TRUE, null |-> FALSE]
    BY <1>2 DEF NothingParsed
  <2>2. pl \in PipelinesOf(<<>>) /\ pl.nodes = <<>>
    BY DEF PipelinesOf
  <2> HIDE DEF pl
  <2>3. BuiltOf(at(0)) /\ IsParser(at(0)) /\ at(0).null = FALSE
    <3>1. IsParser(at(0)) /\ at(0).cut = TRUE /\ at(0).null = FALSE
          /\ at(0).nodes = <<>> /\ at(0).pipelines = <<pl>>
      BY <2>1 DEF IsParser
    <3>2. <<pl>> \in Seq(PipelinesOf(<<>>)) /\ <<pl>> # <<>> /\ <<>> \in Seq(NodesOf)
      BY <2>2
    <3> QED
      BY <3>1, <3>2 DEF BuiltOf
  <2>4. ParsedUpTo(s, 0, at(0))
    BY <1>2, <2>1 DEF ParsedUpTo
  <2>5. SomeSays(at(0).nodes, at(0).pipelines, says)
    BY <2>1, <2>2 DEF SomeSays, PipelineSays
  <2> QED
    BY <1>3, <1>9, <2>3, <2>4, <2>5
<1>5. ASSUME NEW k \in 1 .. Len(s), Right(k - 1) PROVE Right(k)
  <2>1. at(k) = ParseToken(at(k - 1), s[k]) /\ means(k) = NextMeaning(s, k, means(k - 1))
    BY <1>2, <1>3
  <2>2. CASE at(k - 1).null = TRUE
    BY <1>5, <1>9, <2>1, <2>2, ParserStays
  <2>3. CASE at(k - 1).null = FALSE /\ s[k] \notin Plugins
    <3>1. NextMeaning(s, k, means(k - 1)) = means(k - 1)
      BY <2>3 DEF NextMeaning, IsOperand
    <3>2. /\ BuiltOf(at(k)) /\ ParsedUpTo(s, k, at(k))
          /\ at(k).nodes = at(k - 1).nodes /\ at(k).pipelines = at(k - 1).pipelines
          /\ at(k).null = at(k - 1).null
      BY <1>5, <1>9, <2>1, <2>3, NoPluginStep
    <3> QED
      BY <1>5, <1>9, <2>1, <2>3, <3>1, <3>2 DEF BuiltOf
  <2>4. CASE at(k - 1).null = FALSE /\ s[k] \in Plugins
    <3>1. CASE at(k).null = FALSE
      <4>1. /\ BuiltOf(at(k)) /\ ParsedUpTo(s, k, at(k))
            /\ SomeSays(at(k).nodes, at(k).pipelines, says)
               <=> says \in NextMeaning(s, k, means(k - 1))
        BY <1>5, <1>9, <2>1, <2>4, <3>1, PluginStep
      <4> QED
        BY <1>9, <2>1, <3>1, <4>1 DEF BuiltOf
    <3>2. IsParser(at(k)) /\ at(k).null \in {FALSE, TRUE}
      <4>1. IsParser(at(k)) /\ at(k).null \in {at(k - 1).null, TRUE}
        BY <1>5, <1>9, <2>1, ParserStays
      <4> QED
        BY <2>4, <4>1
    <3> QED
      BY <1>9, <3>1, <3>2
  <2> QED
    BY <1>5, <1>9, <2>2, <2>3, <2>4
<1>6. wrong = {}
  <2> SUFFICES ASSUME wrong # {} PROVE FALSE
    OBVIOUS
  <2>1. wrong \in SUBSET Nat
    OBVIOUS
  <2>2. PICK k \in wrong : \A l \in wrong : k <= l
    <3> HIDE DEF wrong
    <3> QED
      BY <2>1, LeastNumber
  <2>3. k \in 1 .. Len(s) /\ k - 1 \notin wrong /\ k - 1 \in 0 .. Len(s)
    BY <1>1, <1>4, <2>2
  <2> QED
    BY <1>5, <1>9, <2>2, <2>3
<1> QED
  BY <1>6 DEF Right

LEMMA ParseMeans ==
    ASSUME NEW s, ValidLogic(s), NoneAttachedUncut(s), ~UsesNullNode(s), NEW says \in Verdicts
    PROVE  LET p == Parsing(s)[Len(s)] IN
           /\ BuiltOf(p) /\ p.null = FALSE /\ ParsedUpTo(s, Len(s), p)
           /\ SomeSays(p.nodes, p.pipelines, says) <=> says \in Meaning(s)
<1>1. Len(s) \in 0 .. Len(s)
  BY DEF ValidLogic
<1>2. ParsedRight(s, Len(s), says)
  BY <1>1, ParseGoesRight
<1> QED
  BY <1>2 DEF ParsedRight, UsesNullNode, Meaning

\* Only an accepted request is analysed, by the pipelines built from it.
LinkedInv ==
    expr # <<>> => ValidLogic(expr) /\ ~UsesNullNode(expr) /\ links = Parse(expr)

LEMMA LinkedInvKept == LinkedInv /\ [Next]_vars => LinkedInv'
<1> SUFFICES ASSUME LinkedInv, [Next]_vars
             PROVE  LinkedInv'
  OBVIOUS
<1>1. CASE Register
  <2>1. PICK s \in Requests :
            /\ ValidLogic(s)
            /\ IF UsesNullNode(s)
               THEN phase' = "crashed" /\ UNCHANGED <<expr, links, walk>>
               ELSE /\ expr' = s
                    /\ links' = Parse(s)
                    /\ walk' = StartOfWalk(Parse(s))
                    /\ UNCHANGED phase
    BY <1>1 DEF Register
  <2>2. CASE UsesNullNode(s)
    BY <2>1, <2>2 DEF LinkedInv
  <2>3. CASE ~UsesNullNode(s)
    BY <2>1, <2>3 DEF LinkedInv
  <2> QED
    BY <2>2, <2>3
<1>2. CASE UNCHANGED <<expr, links>>
  BY <1>2 DEF LinkedInv
<1>3. Register \/ UNCHANGED <<expr, links>>
  BY DEF Next, InnerLoop, BeginFrame, EndFrame, UseCached, ApplyEffect, RunDetector,
         DetectorFails, Interrupt, vars
<1> QED
  BY <1>1, <1>2, <1>3

LEMMA LinkedInvHolds == Spec => []LinkedInv
<1>1. Init => LinkedInv
  BY DEF Init, LinkedInv
<1> QED
  BY <1>1, LinkedInvKept, PTL DEF Spec

\* The pipelines that runAnalysis builds from an accepted request say of every frame what
\* the request says, read from left to right, however long the request is.
THEOREM PipelinesMeanRequestHolds == Spec => []PipelinesMeanRequest
<1>1. LinkedInv => PipelinesMeanRequest
  <2> SUFFICES ASSUME LinkedInv, Linked, NoneAttachedUncut(expr), NEW says \in Verdicts
               PROVE  PipelinesHold(says) <=> says \in Meaning(expr)
    BY DEF PipelinesMeanRequest
  <2> DEFINE p == Parsing(expr)[Len(expr)]
  <2>1. ValidLogic(expr) /\ ~UsesNullNode(expr) /\ links = Parse(expr)
    BY DEF LinkedInv, Linked
  <2>2. SomeSays(p.nodes, p.pipelines, says) <=> says \in Meaning(expr)
    BY <2>1, ParseMeans
  <2>3. links.nodes = p.nodes /\ links.pipelines = p.pipelines
    BY <2>1 DEF Parse
  <2> HIDE DEF p
  <2>4. PipelinesHold(says) <=> SomeSays(p.nodes, p.pipelines, says)
    BY <2>3 DEF PipelinesHold, NodeHolds, SomeSays, PipelineSays, NodeSays
  <2> QED
    BY <2>2, <2>4
<1> QED
  BY <1>1, LinkedInvHolds, PTL

----
(* What the pipelines of a plain request look like. *)

HeadOf(node) == node.plugins[1]

\* A pipeline's nodes are in the order of the request, and a detector is first.
LineShape(nodes, line) ==
    /\ nodes # <<>> => line # <<>>
    /\ \A x, y \in DOMAIN line : x < y => line[x] < line[y]
    /\ line # <<>> => HeadOf(nodes[line[1]]) \in Detectors

LinesShape(nodes, pls) == \A i \in DOMAIN pls : LineShape(nodes, pls[i].nodes)

\* Effects are attached to nodes, and an effect that is a node of its own comes after
\* nodes that cut.
NodesShape(s, k, nodes) ==
    /\ (\E j \in 1 .. k : s[j] \in Plugins) => nodes # <<>>
    /\ \A m \in DOMAIN nodes :
        /\ \A l \in 2 .. Len(nodes[m].plugins) : nodes[m].plugins[l] \in Effects
        /\ ~nodes[m].cut => \E j \in 1 .. k : s[j] = Uncut
        /\ HeadOf(nodes[m]) \in Effects => \A i \in 1 .. m : nodes[i].cut

LEMMA PushedShape ==
    ASSUME NEW nodes \in Seq(NodesOf), NEW node \in NodesOf, NEW line \in Seq(DOMAIN nodes),
           LineShape(nodes, line), line # <<>> \/ HeadOf(node) \in Detectors
    PROVE  LineShape(Append(nodes, node), Append(line, Len(nodes) + 1))
<1> DEFINE more == Append(nodes, node)
           n == Len(nodes) + 1
           longer == Append(line, n)
           len == Len(line)
<1>1. /\ Len(nodes) \in Nat /\ DOMAIN nodes = 1 .. Len(nodes) /\ more[n] = node
      /\ \A i \in 1 .. Len(nodes) : more[i] = nodes[i]
  OBVIOUS
<1>2. len \in Nat /\ DOMAIN line = 1 .. len /\ \A x \in 1 .. len : line[x] \in 1 .. Len(nodes)
  BY <1>1
<1>3. line \in Seq(Nat) /\ n \in Nat
  BY <1>1, <1>2
<1> HIDE DEF more
<1>4. /\ DOMAIN longer = 1 .. len + 1 /\ longer[len + 1] = n /\ longer # <<>>
      /\ \A x \in 1 .. len : longer[x] = line[x]
  <2> HIDE DEF n
  <2> QED
    BY <1>3
<1> HIDE DEF longer, len
<1>5. \A x, y \in 1 .. len + 1 : x < y => longer[x] < longer[y]
  <2> SUFFICES ASSUME NEW x \in 1 .. len + 1, NEW y \in 1 .. len + 1, x < y
               PROVE  longer[x] < longer[y]
    OBVIOUS
  <2>1. CASE y = len + 1
    BY <1>1, <1>2, <1>4, <2>1
  <2>2. CASE y # len + 1
    <3>1. x \in DOMAIN line /\ y \in DOMAIN line /\ longer[x] = line[x] /\ longer[y] = line[y]
      BY <1>2, <1>4, <2>2
    <3>2. line[x] < line[y]
      BY <3>1 DEF LineShape
    <3> QED
      BY <3>1, <3>2
  <2> QED
    BY <2>1, <2>2
<1>6. HeadOf(more[longer[1]]) \in Detectors
  <2>1. CASE line = <<>>
    <3>1. len = 0
      BY <2>1 DEF len
    <3> QED
      BY <1>1, <1>4, <2>1, <3>1
  <2>2. CASE line # <<>>
    <3>1. len # 0
      BY <2>2, EmptySeq DEF len
    <3>2. 1 \in 1 .. len
      BY <1>2, <3>1
    <3>3. more[longer[1]] = nodes[line[1]]
      BY <1>1, <1>2, <1>4, <3>2
    <3> QED
      BY <2>2, <3>3 DEF LineShape
  <2> QED
    BY <2>1, <2>2
<1> QED
  BY <1>4, <1>5, <1>6 DEF LineShape, more, longer, n

\* The new node of a plain request.
LEMMA MoreNodesShape ==
    ASSUME NEW s, ValidLogic(s), PlainOperands(s), NEW k \in 1 .. Len(s), s[k] \in Plugins,
           IsOperand(s, k), NEW cut \in BOOLEAN, cut <=> ~(k > 1 /\ s[k - 1] = Uncut),
           NEW nodes \in Seq(NodesOf), NodesShape(s, k - 1, nodes)
    PROVE  /\ NewNode(s[k], cut) \in NodesOf
           /\ NodesShape(s, k, Append(nodes, NewNode(s[k], cut)))
           /\ s[k] \notin Detectors => k > 1 /\ s[k - 1] = "&"
<1> DEFINE node == NewNode(s[k], cut)
           more == Append(nodes, node)
           n == Len(nodes) + 1
<1>1. Len(s) \in Nat /\ k \in Nat \ {0}
  BY TokensInPlace
<1>2. node.plugins = <<s[k]>> /\ node.cut = cut /\ node \in NodesOf
  BY DEF NewNode, NodesOf
<1> HIDE DEF node
<1>3. /\ Len(nodes) \in Nat /\ DOMAIN nodes = 1 .. Len(nodes) /\ more[n] = node /\ more # <<>>
      /\ DOMAIN more = 1 .. n /\ \A i \in 1 .. Len(nodes) : more[i] = nodes[i]
  BY <1>2
<1> HIDE DEF more, n
<1>4. s[k] \in Effects => k > 1 /\ s[k - 1] = "&" /\ \A j \in 1 .. k - 1 : s[j] # Uncut
  BY DEF PlainOperands
<1>5. ~cut => \E j \in 1 .. k : s[j] = Uncut
  BY <1>1
<1>6. s[k] \in Effects => cut /\ \A i \in 1 .. Len(nodes) : nodes[i].cut
  <2> SUFFICES ASSUME s[k] \in Effects PROVE cut /\ \A i \in 1 .. Len(nodes) : nodes[i].cut
    OBVIOUS
  <2>1. k - 1 \in 1 .. k - 1
    BY <1>1, <1>4
  <2>2. cut
    BY <1>4, <2>1
  <2>3. ASSUME NEW i \in 1 .. Len(nodes) PROVE nodes[i].cut
    BY <1>3, <1>4 DEF NodesShape
  <2> QED
    BY <2>2, <2>3
<1>7. ASSUME NEW m \in 1 .. n
      PROVE  /\ \A l \in 2 .. Len(more[m].plugins) : more[m].plugins[l] \in Effects
             /\ ~more[m].cut => \E j \in 1 .. k : s[j] = Uncut
             /\ HeadOf(more[m]) \in Effects => \A i \in 1 .. m : more[i].cut
  <2>1. CASE m = n
    <3>1. more[m].plugins = <<s[k]>> /\ more[m].cut = cut /\ HeadOf(more[m]) = s[k]
      BY <1>2, <1>3, <2>1 DEF HeadOf
    <3>2. Len(more[m].plugins) = 1
      BY <3>1
    <3>3. s[k] \in Effects => \A i \in 1 .. m : more[i].cut
      <4> SUFFICES ASSUME s[k] \in Effects, NEW i \in 1 .. m PROVE more[i].cut
        OBVIOUS
      <4>1. CASE i = n
        BY <1>3, <1>6, <3>1, <2>1, <4>1
      <4>2. CASE i # n
        BY <1>3, <1>6, <2>1, <4>2 DEF n
      <4> QED
        BY <4>1, <4>2
    <3> QED
      BY <1>5, <3>1, <3>2, <3>3
  <2>2. CASE m # n
    <3>1. m \in 1 .. Len(nodes) /\ \A i \in 1 .. m : more[i] = nodes[i]
      BY <1>3, <2>2 DEF n
    <3>2. m \in 1 .. m
      BY <3>1
    <3>3. 1 .. k - 1 \subseteq 1 .. k
      BY <1>1
    <3> QED
      BY <1>3, <3>1, <3>2, <3>3 DEF NodesShape
  <2> QED
    BY <2>1, <2>2
<1>8. NodesShape(s, k, more)
  BY <1>3, <1>7 DEF NodesShape
<1>9. s[k] \notin Detectors => s[k] \in Effects
  BY DEF Plugins
<1> QED
  BY <1>2, <1>4, <1>8, <1>9 DEF more, node

\* Before "&" and "|" there is a plugin.
LEMMA PluginBefore ==
    ASSUME NEW s, ValidLogic(s), NEW k \in 1 .. Len(s), s[k] \in Plugins, ~IsFirst(s, k),
           OperatorBefore(s, k) \in {"&", "|"}
    PROVE  \E j \in 1 .. k - 1 : s[j] \in Plugins
<1>1. Len(s) \in Nat /\ k \in Nat /\ k > 1
  BY TokensInPlace DEF IsFirst
<1>2. PICK o \in {k - 1, k - 2} : o \in 1 .. Len(s) /\ s[o] \in {"&", "|"}
  <2>1. CASE s[k - 1] = Uncut
    <3>1. k - 2 \in 1 .. Len(s)
      BY <1>1, <2>1 DEF IsFirst
    <3> QED
      BY <2>1, <3>1 DEF OperatorBefore
  <2>2. CASE s[k - 1] # Uncut
    <3>1. k - 1 \in 1 .. Len(s)
      BY <1>1
    <3> QED
      BY <2>2, <3>1 DEF OperatorBefore
  <2> QED
    BY <2>1, <2>2
<1>3. s[o] \in Operators /\ s[o] # ":"
  BY <1>2 DEF Operators
<1>4. o > 1 /\ s[o - 1] \notin Operators /\ s[o - 1] # Uncut
  BY <1>2, <1>3, TokensInPlace
<1>5. o - 1 \in 1 .. Len(s) /\ o - 1 \in 1 .. k - 1
  BY <1>1, <1>2, <1>4
<1>6. s[o - 1] \in Plugins
  BY <1>4, <1>5, TokensInPlace
<1> QED
  BY <1>5, <1>6

LEMMA OldLineShape ==
    ASSUME NEW nodes \in Seq(NodesOf), nodes # <<>>, NEW node \in NodesOf,
           NEW line \in Seq(DOMAIN nodes), LineShape(nodes, line)
    PROVE  LineShape(Append(nodes, node), line)
<1>1. line # <<>>
  BY DEF LineShape
<1>2. line[1] \in DOMAIN nodes
  BY <1>1, EmptySeq
<1>3. Append(nodes, node)[line[1]] = nodes[line[1]]
  BY <1>2
<1> QED
  BY <1>1, <1>3 DEF LineShape

\* A pipeline of the new node.
LEMMA NewLineShape ==
    ASSUME NEW nodes \in Seq(NodesOf), NEW node \in NodesOf, HeadOf(node) \in Detectors
    PROVE  LineShape(Append(nodes, node), <<Len(nodes) + 1>>)
<1> DEFINE n == Len(nodes) + 1
           line == <<n>>
<1>1. Append(nodes, node)[n] = node /\ n \in Nat
  OBVIOUS
<1>2. line # <<>> /\ DOMAIN line = {1} /\ line[1] = n
  BY <1>1
<1> HIDE DEF n, line
<1> QED
  BY <1>1, <1>2 DEF LineShape, n, line

\* Attaching an effect lengthens the last node, and leaves heads as they are.
LEMMA AttachIs ==
    ASSUME NEW nodes \in Seq(NodesOf), nodes # <<>>, NEW uid \in Plugins
    PROVE  LET n == Len(nodes)
               old == nodes[n].plugins
               grown == Attach(nodes, uid)
           IN /\ n \in Nat /\ n # 0 /\ DOMAIN nodes = 1 .. n
              /\ DOMAIN grown = 1 .. n /\ Len(grown) = n /\ grown # <<>>
              /\ Len(old) \in Nat \ {0} /\ Len(grown[n].plugins) = Len(old) + 1
              /\ grown[n].plugins[Len(old) + 1] = uid
              /\ \A l \in 1 .. Len(old) : grown[n].plugins[l] = old[l]
              /\ \A i \in 1 .. n : i # n => grown[i] = nodes[i]
              /\ \A i \in 1 .. n : /\ HeadOf(grown[i]) = HeadOf(nodes[i])
                                   /\ grown[i].cut = nodes[i].cut
<1> DEFINE n == Len(nodes)
           old == nodes[n]
           tail == Append(old.plugins, uid)
           new == [old EXCEPT !.plugins = tail]
           grown == Attach(nodes, uid)
<1>1. n \in Nat /\ n # 0 /\ DOMAIN nodes = 1 .. n /\ \A i \in 1 .. n : nodes[i] \in NodesOf
  <2>1. n # 0
    BY EmptySeq
  <2> QED
    BY <2>1
<1>2. PICK a \in Seq(Plugins) \ {<<>>}, b \in BOOLEAN : old = [plugins |-> a, cut |-> b]
  <2>1. old \in NodesOf
    BY <1>1
  <2>2. /\ old = [plugins |-> old.plugins, cut |-> old.cut]
        /\ old.plugins \in Seq(Plugins) \ {<<>>} /\ old.cut \in BOOLEAN
    BY <2>1 DEF NodesOf
  <2> QED
    BY <2>2, Zenon
<1>3. old.plugins = a /\ old.cut = b
  BY <1>2
<1>4. /\ Len(a) \in Nat \ {0} /\ Len(tail) = Len(a) + 1 /\ tail[Len(a) + 1] = uid
      /\ \A l \in 1 .. Len(a) : tail[l] = a[l]
  <2>1. tail = Append(a, uid) /\ a \in Seq(Plugins)
    BY <1>3
  <2>2. Len(a) # 0
    BY EmptySeq
  <2> HIDE DEF tail
  <2> QED
    BY <2>1, <2>2
<1>5. grown = [nodes EXCEPT ![n] = new]
  BY <1>1 DEF Attach
<1>6. new = [plugins |-> tail, cut |-> b]
  <2> HIDE DEF tail, old
  <2> QED
    BY <1>2
<1> HIDE DEF old, tail, new, grown
<1>7. /\ DOMAIN grown = 1 .. n /\ Len(grown) = n
      /\ grown[n] = new /\ \A i \in 1 .. n : i # n => grown[i] = nodes[i]
  <2>1. nodes \in [1 .. n -> NodesOf]
    BY <1>1
  <2> HIDE DEF n
  <2> QED
    BY <1>1, <1>5, <2>1
<1>8. grown[n].plugins = tail /\ grown[n].cut = nodes[n].cut
  <2>1. new.plugins = tail /\ new.cut = b
    BY <1>6
  <2>2. nodes[n].cut = b
    BY <1>3 DEF old
  <2> QED
    BY <1>7, <2>1, <2>2
<1>9. grown # <<>>
  <2>1. 1 \in DOMAIN grown
    <3> HIDE DEF n
    <3> QED
      BY <1>1, <1>7
  <2> QED
    BY <2>1
<1>10. HeadOf(grown[n]) = HeadOf(nodes[n])
  BY <1>3, <1>4, <1>8 DEF HeadOf, old
<1>11. \A i \in 1 .. n : HeadOf(grown[i]) = HeadOf(nodes[i]) /\ grown[i].cut = nodes[i].cut
  BY <1>7, <1>8, <1>10
<1> QED
  BY <1>1, <1>3, <1>4, <1>7, <1>8, <1>9, <1>11 DEF grown, old

\* Marking leaves the nodes of the pipelines as they are.
LEMMA MarkedIs ==
    ASSUME NEW nodes, NEW pls \in Seq(PipelinesOf(nodes))
    PROVE  LET marked == MarkEssential(pls)
               l == Len(pls)
           IN /\ DOMAIN marked = DOMAIN pls /\ Len(marked) = l
              /\ \A i \in DOMAIN pls : /\ marked[i].nodes = pls[i].nodes
                                       /\ pls[i].essential => marked[i].essential
              /\ l > 1 /\ Len(pls[l].nodes) = 1 => marked[l].essential
<1> DEFINE l == Len(pls)
           last == SetEssential(pls[l])
           marked == MarkEssential(pls)
<1>1. CASE ~(l > 1)
  BY <1>1 DEF MarkEssential
<1>2. CASE l > 1
  <2>1. l \in Nat /\ DOMAIN pls = 1 .. l /\ pls[l] \in PipelinesOf(nodes) /\ l > 1
    BY <1>2
  <2>2. /\ last.nodes = pls[l].nodes
        /\ last.essential = (pls[l].essential \/ Len(pls[l].nodes) = 1)
    BY <2>1 DEF SetEssential, PipelinesOf
  <2>3. marked = [pls EXCEPT ![l] = last]
    BY <1>2 DEF MarkEssential
  <2>4. last \in PipelinesOf(nodes)
    BY <2>1 DEF SetEssential, PipelinesOf
  <2> HIDE DEF last, marked
  <2>5. DOMAIN marked = 1 .. l /\ marked[l] = last /\ \A i \in 1 .. l : i # l => marked[i] = pls[i]
    <3> HIDE DEF l
    <3> QED
      BY <2>1, <2>3
  <2>6. Len(marked) = l
    <3>1. pls \in [1 .. l -> PipelinesOf(nodes)]
      BY <2>1
    <3>2. marked \in [1 .. l -> PipelinesOf(nodes)]
      <4> HIDE DEF l
      <4> QED
        BY <2>3, <2>4, <3>1
    <3> HIDE DEF l
    <3> QED
      BY <2>1, <3>2
  <2> QED
    BY <2>1, <2>2, <2>5, <2>6 DEF marked
<1> QED
  BY <1>1, <1>2

LEMMA AttachedShape ==
    ASSUME NEW s, NEW k \in Nat \ {0}, NEW uid \in Effects,
           NEW nodes \in Seq(NodesOf), nodes # <<>>, NodesShape(s, k - 1, nodes),
           NEW pls \in Seq(PipelinesOf(nodes)), LinesShape(nodes, pls)
    PROVE  NodesShape(s, k, Attach(nodes, uid)) /\ LinesShape(Attach(nodes, uid), MarkEssential(pls))
<1> DEFINE n == Len(nodes)
           old == nodes[n].plugins
           grown == Attach(nodes, uid)
           marked == MarkEssential(pls)
<1>1. /\ n \in Nat /\ n # 0 /\ DOMAIN nodes = 1 .. n
      /\ DOMAIN grown = 1 .. n /\ grown # <<>>
      /\ Len(old) \in Nat \ {0} /\ Len(grown[n].plugins) = Len(old) + 1
      /\ grown[n].plugins[Len(old) + 1] = uid
      /\ \A l \in 1 .. Len(old) : grown[n].plugins[l] = old[l]
      /\ \A i \in 1 .. n : i # n => grown[i] = nodes[i]
      /\ \A i \in 1 .. n : /\ HeadOf(grown[i]) = HeadOf(nodes[i])
                           /\ grown[i].cut = nodes[i].cut
  BY AttachIs DEF Plugins
<1> HIDE DEF grown, old
<1>9. ASSUME NEW m \in 1 .. n
      PROVE  /\ \A l \in 2 .. Len(grown[m].plugins) : grown[m].plugins[l] \in Effects
             /\ ~grown[m].cut => \E j \in 1 .. k : s[j] = Uncut
             /\ HeadOf(grown[m]) \in Effects => \A i \in 1 .. m : grown[i].cut
  <2>1. /\ \A l \in 2 .. Len(nodes[m].plugins) : nodes[m].plugins[l] \in Effects
        /\ ~nodes[m].cut => \E j \in 1 .. k - 1 : s[j] = Uncut
        /\ HeadOf(nodes[m]) \in Effects => \A i \in 1 .. m : nodes[i].cut
    BY <1>1 DEF NodesShape
  <2>2. \A l \in 2 .. Len(grown[m].plugins) : grown[m].plugins[l] \in Effects
    <3>1. CASE m = n
      <4>1. \A l \in 2 .. Len(old) : old[l] \in Effects
        BY <2>1, <3>1 DEF old
      <4>2. ASSUME NEW l \in 2 .. Len(old) + 1 PROVE grown[n].plugins[l] \in Effects
        <5>1. CASE l = Len(old) + 1
          BY <1>1, <5>1
        <5>2. CASE l # Len(old) + 1
          <6>1. l \in 1 .. Len(old) /\ l \in 2 .. Len(old)
            <7>1. Len(old) \in Nat
              BY <1>1
            <7> QED
              BY <5>2, <7>1
          <6>2. grown[n].plugins[l] = old[l]
            BY <1>1, <6>1
          <6> QED
            BY <4>1, <6>1, <6>2
        <5> QED
          BY <5>1, <5>2
      <4> QED
        BY <1>1, <3>1, <4>2
    <3>2. CASE m # n
      BY <1>1, <2>1, <3>2
    <3> QED
      BY <3>1, <3>2
  <2>3. \A i \in 1 .. m : i \in 1 .. n
    <3> HIDE DEF n
    <3> QED
      BY <1>1
  <2>4. 1 .. k - 1 \subseteq 1 .. k
    OBVIOUS
  <2> QED
    BY <1>1, <2>1, <2>2, <2>3, <2>4
<1>10. NodesShape(s, k, grown)
  BY <1>1, <1>9 DEF NodesShape
<1>11. DOMAIN marked = DOMAIN pls /\ \A i \in DOMAIN pls : marked[i].nodes = pls[i].nodes
  BY MarkedIs
<1> HIDE DEF marked
<1>12. LinesShape(grown, marked)
  <2> SUFFICES ASSUME NEW i \in DOMAIN pls
               PROVE  LineShape(grown, marked[i].nodes)
    BY <1>11 DEF LinesShape
  <2> DEFINE line == pls[i].nodes
  <2>1. LineShape(nodes, line) /\ marked[i].nodes = line
    BY <1>11 DEF LinesShape
  <2>2. line \in Seq(1 .. n)
    <3>1. pls[i] \in PipelinesOf(nodes)
      BY ElementOfSeq
    <3> QED
      BY <1>1, <3>1 DEF PipelinesOf
  <2> HIDE DEF line
  <2>3. line # <<>> => line[1] \in 1 .. n
    BY <2>2, EmptySeq
  <2> QED
    BY <1>1, <2>1, <2>3 DEF LineShape
<1> QED
  BY <1>10, <1>12 DEF grown, marked

\* A plugin keeps the shape.
LEMMA ShapeStep ==
    ASSUME NEW s, ValidLogic(s), PlainOperands(s), NEW k \in 1 .. Len(s), s[k] \in Plugins,
           NEW p, BuiltOf(p), ParsedUpTo(s, k - 1, p),
           NodesShape(s, k - 1, p.nodes), LinesShape(p.nodes, p.pipelines),
           ParseToken(p, s[k]).null = FALSE
    PROVE  LET q == ParseToken(p, s[k])
           IN NodesShape(s, k, q.nodes) /\ LinesShape(q.nodes, q.pipelines)
<1> DEFINE uid == s[k]
           q == ParseToken(p, uid)
           n == Len(p.nodes) + 1
           node == NewNode(uid, p.cut)
           more == Append(p.nodes, node)
<1>0. NoneAttachedUncut(s)
  BY DEF PlainOperands
<1>1. /\ Len(s) \in Nat /\ k \in Nat \ {0}
  BY TokensInPlace
<1>2. /\ p.op \in {"&", "|", ":", "none"}
      /\ p.op = ":" => ~IsOperand(s, k)
      /\ p.op = "none" => IsOperand(s, k) /\ IsFirst(s, k) /\ p.nodes = <<>>
                          /\ p.pipelines = NothingParsed.pipelines
      /\ p.op \in {"&", "|"} => IsOperand(s, k) /\ ~IsFirst(s, k) /\ OperatorBefore(s, k) = p.op
      /\ p.op # ":" => (p.cut <=> ~(k > 1 /\ s[k - 1] = Uncut))
  BY <1>0, OperatorIs
<1>3. /\ p.nodes \in Seq(NodesOf) /\ p.pipelines \in Seq(PipelinesOf(p.nodes)) /\ p.pipelines # <<>>
      /\ p.cut \in BOOLEAN
  BY DEF BuiltOf
<1>4. PICK nodes, pls :
          /\ Built(p, uid, nodes, pls)
          /\ q = [nodes |-> nodes, pipelines |-> pls, op |-> "none", cut |-> TRUE, null |-> p.null]
  BY <1>2, PluginBuilds
<1>5. p.op # ":" => /\ node \in NodesOf /\ NodesShape(s, k, more)
                    /\ uid \notin Detectors => k > 1 /\ s[k - 1] = "&"
  BY <1>2, <1>3, MoreNodesShape
<1>6. HeadOf(node) = uid
  BY DEF NewNode, HeadOf
<1>7. p.op \in {"&", "|"} => p.nodes # <<>>
  <2>1. p.op \in {"&", "|"} => \E j \in 1 .. k - 1 : s[j] \in Plugins
    BY <1>2, PluginBefore
  <2> QED
    BY <2>1 DEF NodesShape
<1>8. ASSUME NEW i \in DOMAIN p.pipelines
      PROVE  /\ p.pipelines[i].nodes \in Seq(DOMAIN p.nodes)
             /\ LineShape(p.nodes, p.pipelines[i].nodes)
  <2>1. p.pipelines[i] \in PipelinesOf(p.nodes)
    BY <1>3, ElementOfSeq
  <2> QED
    BY <2>1 DEF PipelinesOf, LinesShape
<1>9. NodesShape(s, k, nodes) /\ LinesShape(nodes, pls)
  <2> HIDE DEF q, node
  <2>1. CASE p.op = "&"
    <3>1. nodes = more /\ pls = PushAll(p.pipelines, n)
      BY <1>4, <2>1 DEF Built, node
    <3>2. DOMAIN pls = DOMAIN p.pipelines
          /\ \A i \in DOMAIN pls : pls[i] = [p.pipelines[i] EXCEPT !.nodes = Append(@, n)]
      BY <3>1 DEF PushAll
    <3>3. ASSUME NEW i \in DOMAIN pls PROVE LineShape(more, pls[i].nodes)
      <4>1. LineShape(more, Append(p.pipelines[i].nodes, n))
        <5>1. p.pipelines[i].nodes # <<>>
          BY <1>7, <1>8, <2>1, <3>2 DEF LineShape
        <5> QED
          BY <1>3, <1>5, <1>8, <2>1, <3>2, <5>1, PushedShape
      <4>2. p.pipelines[i] \in PipelinesOf(p.nodes)
        BY <1>3, <3>2, ElementOfSeq
      <4>3. pls[i].nodes = Append(p.pipelines[i].nodes, n)
        BY <3>2, <4>2 DEF PipelinesOf
      <4> QED
        BY <4>1, <4>3
    <3> HIDE DEF more
    <3> QED
      BY <1>5, <2>1, <3>1, <3>3 DEF LinesShape
  <2>2. CASE p.op = "|"
    <3>1. nodes = more /\ pls = Append(p.pipelines, NewPipeline(n))
      BY <1>4, <2>2 DEF Built, node
    <3>2. uid \in Detectors
      <4>1. s[k - 1] # "&"
        BY <1>2, <2>2 DEF OperatorBefore, Uncut
      <4> QED
        BY <1>5, <2>2, <4>1
    <3>3. LineShape(more, <<n>>)
      BY <1>3, <1>5, <1>6, <2>2, <3>2, NewLineShape
    <3>4. \A i \in DOMAIN p.pipelines : LineShape(more, p.pipelines[i].nodes)
      BY <1>3, <1>5, <1>7, <1>8, <2>2, OldLineShape
    <3>5. NewPipeline(n).nodes = <<n>>
      BY DEF NewPipeline
    <3> DEFINE new == NewPipeline(n)
    <3> HIDE DEF more, n, new
    <3>6. ASSUME NEW i \in DOMAIN pls PROVE LineShape(more, pls[i].nodes)
      <4>1. pls = Append(p.pipelines, new)
        BY <3>1 DEF new
      <4>2. (i \in DOMAIN p.pipelines /\ pls[i] = p.pipelines[i]) \/ pls[i] = new
        BY <1>3, <4>1
      <4> QED
        BY <3>3, <3>4, <3>5, <4>2 DEF new
    <3> QED
      BY <1>5, <2>2, <3>1, <3>6 DEF LinesShape
  <2>3. CASE p.op = ":"
    <3>1. /\ p.nodes # <<>> /\ nodes = Attach(p.nodes, uid)
          /\ pls = MarkEssential(p.pipelines)
      BY <1>4, <2>3 DEF Built
    <3>2. uid \in Effects
      <4>1. k > 1 /\ s[k - 1] = ":"
        BY <1>2, <2>3 DEF IsOperand
      <4> QED
        BY <4>1, TokensInPlace
    <3> QED
      BY <1>1, <1>3, <3>1, <3>2, AttachedShape
  <2>4. CASE p.op = "none"
    <3>1. nodes = more /\ pls = FirstPipelines(p.pipelines, n)
      BY <1>4, <2>4 DEF Built, node
    <3>2. uid \in Detectors
      <4>1. ~(k > 1 /\ s[k - 1] = "&")
        BY <1>2, <2>4 DEF IsFirst, Uncut
      <4> QED
        BY <1>5, <2>4, <4>1
    <3>3. LineShape(more, <<n>>)
      BY <1>3, <1>5, <1>6, <2>4, <3>2, NewLineShape
    <3>4. pls = <<[nodes |-> <<n>>, essential |-> FALSE]>>
      <4>1. p.pipelines = <<[nodes |-> <<>>, essential |-> FALSE]>>
        BY <1>2, <2>4 DEF NothingParsed
      <4>2. pls = [p.pipelines EXCEPT ![1].nodes = Append(@, n)]
        BY <3>1, <4>1 DEF FirstPipelines
      <4> DEFINE no == FALSE
                 empty == [nodes |-> <<>>, essential |-> no]
                 line == Append(<<>>, n)
                 first == [nodes |-> line, essential |-> no]
      <4>3. line = <<n>>
        OBVIOUS
      <4> HIDE DEF line, n, no
      <4>4. [empty EXCEPT !.nodes = line] = first
        OBVIOUS
      <4>5. empty.nodes = <<>>
        OBVIOUS
      <4> HIDE DEF empty, first
      <4>6. [<<empty>> EXCEPT ![1] = first] = <<first>>
        OBVIOUS
      <4>7. pls = [<<empty>> EXCEPT ![1].nodes = Append(@, n)]
        BY <4>1, <4>2 DEF empty, no
      <4>8. pls = [<<empty>> EXCEPT ![1] = first]
        BY <4>4, <4>5, <4>7 DEF line
      <4> QED
        BY <4>3, <4>6, <4>8 DEF first, no
    <3>5. DOMAIN pls = {1} /\ pls[1].nodes = <<n>>
      BY <3>4
    <3> HIDE DEF more, n
    <3> QED
      BY <1>5, <2>4, <3>1, <3>3, <3>5 DEF LinesShape
  <2> QED
    BY <1>2, <2>1, <2>2, <2>3, <2>4
<1>10. q.nodes = nodes /\ q.pipelines = pls
  BY <1>4
<1> QED
  BY <1>9, <1>10


----
(* Where in the request the plugins of the nodes come from. *)

\* The plugin of a node is named at place i: its head as an operand, its effects attached to
\* that operand, and the heads of the nodes before it are named before it.
NamedAt(s, nodes, m, l, i) ==
    /\ s[i] = nodes[m].plugins[l]
    /\ l = 1 => IsOperand(s, i)
    /\ l # 1 => Attached(s, i) /\ s[OperandOf(s, i)] = HeadOf(nodes[m])
    /\ \A h \in 1 .. m - 1 : \E j \in 1 .. i - 1 : s[j] = HeadOf(nodes[h])

\* An attached effect is one of a node's, whose head is the operand it hangs on.
Kept(s, nodes, i) ==
    \E m \in 1 .. Len(nodes) : \E l \in 2 .. Len(nodes[m].plugins) :
        nodes[m].plugins[l] = s[i] /\ s[OperandOf(s, i)] = HeadOf(nodes[m])

LastOperand(s, k, o) == IsOperand(s, o) /\ \A q \in o + 1 .. k : ~IsOperand(s, q)

Rooted(s, k, nodes) ==
    /\ nodes # <<>> => \E o \in 1 .. k : LastOperand(s, k, o) /\ s[o] = HeadOf(nodes[Len(nodes)])
    /\ \A m \in 1 .. Len(nodes) : \A l \in 1 .. Len(nodes[m].plugins) :
          \E i \in 1 .. k : NamedAt(s, nodes, m, l, i)
    /\ \A i \in 1 .. k : Attached(s, i) => Kept(s, nodes, i)

LEMMA OperandIs ==
    ASSUME NEW s, NEW k \in Nat, NEW o \in 1 .. k - 1, LastOperand(s, k - 1, o)
    PROVE  OperandOf(s, k) = o
<1> DEFINE Final(j) == IsOperand(s, j) /\ \A m \in j + 1 .. k - 1 : ~IsOperand(s, m)
           it == CHOOSE j \in 1 .. k - 1 : Final(j)
<1>1. Final(o)
  BY DEF LastOperand
<1>2. it \in 1 .. k - 1 /\ Final(it)
  BY <1>1
<1>3. it = OperandOf(s, k)
  BY DEF OperandOf
<1> HIDE DEF it
<1>4. ~(it < o) /\ ~(o < it)
  <2>1. it < o => o \in it + 1 .. k - 1
    BY <1>2
  <2>2. o < it => it \in o + 1 .. k - 1
    BY <1>2
  <2> QED
    BY <1>1, <1>2, <2>1, <2>2
<1> QED
  BY <1>2, <1>3, <1>4

\* A token that is no plugin.
LEMMA RootedStays ==
    ASSUME NEW s, NEW k \in Nat \ {0}, s[k] \notin Plugins, NEW nodes, Rooted(s, k - 1, nodes)
    PROVE  Rooted(s, k, nodes)
<1>1. 1 .. k - 1 \subseteq 1 .. k /\ \A i \in 1 .. k : i \in 1 .. k - 1 \/ i = k
  OBVIOUS
<1>2. ~IsOperand(s, k) /\ ~Attached(s, k)
  BY DEF IsOperand, Attached, Plugins
<1>3. ASSUME NEW o \in 1 .. k - 1, LastOperand(s, k - 1, o) PROVE LastOperand(s, k, o)
  <2>1. \A q \in o + 1 .. k : q \in o + 1 .. k - 1 \/ q = k
    OBVIOUS
  <2> QED
    BY <1>2, <1>3, <2>1 DEF LastOperand
<1>4. nodes # <<>> => \E o \in 1 .. k : LastOperand(s, k, o) /\ s[o] = HeadOf(nodes[Len(nodes)])
  BY <1>1, <1>3 DEF Rooted
<1>5. \A m \in 1 .. Len(nodes) : \A l \in 1 .. Len(nodes[m].plugins) :
          \E i \in 1 .. k : NamedAt(s, nodes, m, l, i)
  BY <1>1 DEF Rooted
<1>6. \A i \in 1 .. k : Attached(s, i) => Kept(s, nodes, i)
  BY <1>1, <1>2 DEF Rooted
<1> QED
  BY <1>4, <1>5, <1>6 DEF Rooted

\* An operand.
LEMMA RootedMore ==
    ASSUME NEW s, NEW k \in Nat \ {0}, IsOperand(s, k), NEW cut \in BOOLEAN,
           NEW nodes \in Seq(NodesOf), Rooted(s, k - 1, nodes)
    PROVE  Rooted(s, k, Append(nodes, NewNode(s[k], cut)))
<1> DEFINE node == NewNode(s[k], cut)
           more == Append(nodes, node)
           n == Len(nodes) + 1
<1>0. s[k] \in Plugins
  BY DEF IsOperand
<1>1. node.plugins = <<s[k]>> /\ HeadOf(node) = s[k] /\ node \in NodesOf
  BY <1>0 DEF NewNode, NodesOf, HeadOf
<1>2. Len(node.plugins) = 1 /\ node.plugins[1] = s[k]
  BY <1>1
<1> HIDE DEF node
<1>3. /\ Len(nodes) \in Nat /\ Len(more) = n /\ more[n] = node
      /\ \A i \in 1 .. Len(nodes) : more[i] = nodes[i]
  BY <1>1
<1> HIDE DEF more
<1>4. /\ 1 .. k - 1 \subseteq 1 .. k /\ \A i \in 1 .. k : i \in 1 .. k - 1 \/ i = k
      /\ k \in 1 .. k
  OBVIOUS
<1>5. \E o \in 1 .. k : LastOperand(s, k, o) /\ s[o] = HeadOf(more[n])
  <2>1. LastOperand(s, k, k)
    BY DEF LastOperand
  <2> QED
    BY <1>1, <1>3, <1>4, <2>1
<1>6. ASSUME NEW m \in 1 .. Len(nodes), NEW l, NEW i
      PROVE  NamedAt(s, more, m, l, i) <=> NamedAt(s, nodes, m, l, i)
  <2>1. more[m] = nodes[m] /\ \A h \in 1 .. m - 1 : more[h] = nodes[h]
    BY <1>3
  <2> QED
    BY <2>1 DEF NamedAt
<1>7. ASSUME NEW m \in 1 .. n, NEW l \in 1 .. Len(more[m].plugins)
      PROVE  \E i \in 1 .. k : NamedAt(s, more, m, l, i)
  <2>1. CASE m = n
    <3>1. l = 1 /\ more[m].plugins[l] = s[k]
      <4>1. more[m] = node
        BY <1>3, <2>1
      <4>2. l \in 1 .. 1
        BY <1>2, <4>1
      <4> QED
        BY <1>2, <4>1, <4>2
    <3>2. ASSUME NEW h \in 1 .. n - 1 PROVE \E j \in 1 .. k - 1 : s[j] = HeadOf(more[h])
      <4>1. h \in 1 .. Len(nodes) /\ more[h] = nodes[h]
        BY <1>3
      <4>2. nodes[h] \in NodesOf
        BY <4>1
      <4>3. 1 \in 1 .. Len(nodes[h].plugins)
        <5>1. nodes[h].plugins \in Seq(Plugins) /\ nodes[h].plugins # <<>>
          BY <4>2 DEF NodesOf
        <5>2. Len(nodes[h].plugins) \in Nat /\ Len(nodes[h].plugins) # 0
          BY <5>1, EmptySeq
        <5> QED
          BY <5>2
      <4>4. PICK i \in 1 .. k - 1 : NamedAt(s, nodes, h, 1, i)
        BY <4>1, <4>3 DEF Rooted
      <4> QED
        BY <4>1, <4>4 DEF NamedAt, HeadOf
    <3>3. NamedAt(s, more, m, l, k)
      BY <2>1, <3>1, <3>2 DEF NamedAt
    <3> QED
      BY <1>4, <3>3
  <2>2. CASE m # n
    <3>1. m \in 1 .. Len(nodes) /\ more[m] = nodes[m]
      BY <1>3, <2>2
    <3>2. PICK i \in 1 .. k - 1 : NamedAt(s, nodes, m, l, i)
      BY <3>1 DEF Rooted
    <3> QED
      BY <1>4, <1>6, <3>1, <3>2
  <2> QED
    BY <2>1, <2>2
<1>8. ASSUME NEW i \in 1 .. k, Attached(s, i) PROVE Kept(s, more, i)
  <2>1. i \in 1 .. k - 1
    BY <1>4, <1>8 DEF Attached
  <2>2. Kept(s, nodes, i)
    BY <1>8, <2>1 DEF Rooted
  <2>3. 1 .. Len(nodes) \subseteq 1 .. n
    BY <1>3
  <2> QED
    BY <1>3, <2>2, <2>3 DEF Kept
<1> HIDE DEF n
<1> QED
  BY <1>3, <1>5, <1>7, <1>8 DEF Rooted, more, node

\* An attached effect.
LEMMA RootedAttached ==
    ASSUME NEW s, NEW k \in Nat \ {0}, s[k] \in Effects, ~IsOperand(s, k),
           NEW nodes \in Seq(NodesOf), nodes # <<>>, Rooted(s, k - 1, nodes)
    PROVE  Rooted(s, k, Attach(nodes, s[k]))
<1> DEFINE n == Len(nodes)
           old == nodes[n].plugins
           len == Len(old)
           grown == Attach(nodes, s[k])
<1>1. /\ n \in Nat /\ n # 0
      /\ Len(grown) = n /\ grown # <<>>
      /\ len \in Nat \ {0} /\ Len(grown[n].plugins) = len + 1
      /\ grown[n].plugins[len + 1] = s[k]
      /\ \A l \in 1 .. len : grown[n].plugins[l] = old[l]
      /\ \A i \in 1 .. n : i # n => grown[i] = nodes[i]
      /\ \A i \in 1 .. n : HeadOf(grown[i]) = HeadOf(nodes[i])
  BY AttachIs DEF Plugins
<1>2. len = Len(nodes[n].plugins)
  OBVIOUS
<1>3. /\ 1 .. k - 1 \subseteq 1 .. k /\ \A i \in 1 .. k : i \in 1 .. k - 1 \/ i = k
      /\ k \in 1 .. k /\ n \in 1 .. n
  BY <1>1
<1> HIDE DEF grown, len, n
<1>4. PICK o \in 1 .. k - 1 : LastOperand(s, k - 1, o) /\ s[o] = HeadOf(nodes[n])
  BY DEF Rooted, n
<1>5. LastOperand(s, k, o)
  <2>1. \A q \in o + 1 .. k : q \in o + 1 .. k - 1 \/ q = k
    OBVIOUS
  <2> QED
    BY <1>4, <2>1 DEF LastOperand
<1>6. Attached(s, k) /\ s[OperandOf(s, k)] = HeadOf(grown[n])
  <2>1. OperandOf(s, k) = o
    BY <1>4, OperandIs
  <2> QED
    BY <1>1, <1>3, <1>4, <2>1 DEF Attached
<1>7. \E q \in 1 .. k : LastOperand(s, k, q) /\ s[q] = HeadOf(grown[n])
  BY <1>1, <1>3, <1>4, <1>5
<1>8. ASSUME NEW m \in 1 .. n, NEW l, NEW i, grown[m].plugins[l] = nodes[m].plugins[l],
             NamedAt(s, nodes, m, l, i)
      PROVE  NamedAt(s, grown, m, l, i)
  <2>1. HeadOf(grown[m]) = HeadOf(nodes[m]) /\ \A h \in 1 .. m - 1 : HeadOf(grown[h]) = HeadOf(nodes[h])
    BY <1>1
  <2> QED
    BY <1>8, <2>1 DEF NamedAt
<1>9. ASSUME NEW m \in 1 .. n, NEW l \in 1 .. Len(grown[m].plugins)
      PROVE  \E i \in 1 .. k : NamedAt(s, grown, m, l, i)
  <2>1. CASE m = n /\ l = len + 1
    <3>1. PICK i \in 1 .. k - 1 : NamedAt(s, nodes, n, 1, i)
      <4>1. 1 \in 1 .. Len(nodes[n].plugins)
        BY <1>1, <1>2
      <4> QED
        BY <1>3, <4>1 DEF Rooted, n
    <3>2. ASSUME NEW h \in 1 .. n - 1 PROVE \E j \in 1 .. k - 1 : s[j] = HeadOf(grown[h])
      <4>1. PICK j \in 1 .. i - 1 : s[j] = HeadOf(nodes[h])
        BY <3>1 DEF NamedAt
      <4>2. HeadOf(grown[h]) = HeadOf(nodes[h]) /\ j \in 1 .. k - 1
        BY <1>1
      <4> QED
        BY <4>1, <4>2
    <3>3. s[k] = grown[n].plugins[l] /\ l # 1
      BY <1>1, <2>1
    <3>4. NamedAt(s, grown, n, l, k)
      BY <1>6, <3>2, <3>3 DEF NamedAt
    <3> QED
      BY <1>3, <2>1, <3>4
  <2>2. CASE ~(m = n /\ l = len + 1)
    <3>1. l \in 1 .. Len(nodes[m].plugins) /\ grown[m].plugins[l] = nodes[m].plugins[l]
      <4>1. CASE m = n
        <5>1. l \in 1 .. len
          BY <1>1, <2>2, <4>1
        <5> QED
          BY <1>1, <1>2, <4>1, <5>1
      <4>2. CASE m # n
        BY <1>1, <4>2
      <4> QED
        BY <4>1, <4>2
    <3>2. PICK i \in 1 .. k - 1 : NamedAt(s, nodes, m, l, i)
      BY <3>1 DEF Rooted, n
    <3> QED
      BY <1>3, <1>8, <3>1, <3>2
  <2> QED
    BY <2>1, <2>2
<1>10. ASSUME NEW i \in 1 .. k, Attached(s, i) PROVE Kept(s, grown, i)
  <2>1. CASE i = k
    <3>1. len + 1 \in 2 .. Len(grown[n].plugins)
      BY <1>1
    <3> QED
      BY <1>1, <1>3, <1>6, <2>1, <3>1 DEF Kept
  <2>2. CASE i # k
    <3>1. Kept(s, nodes, i)
      BY <1>3, <1>10, <2>2 DEF Rooted
    <3>0. PICK m \in 1 .. n : \E l \in 2 .. Len(nodes[m].plugins) :
              nodes[m].plugins[l] = s[i] /\ s[OperandOf(s, i)] = HeadOf(nodes[m])
      BY <3>1 DEF Kept, n
    <3>2. PICK l \in 2 .. Len(nodes[m].plugins) :
              nodes[m].plugins[l] = s[i] /\ s[OperandOf(s, i)] = HeadOf(nodes[m])
      BY <3>0
    <3>3. l \in 2 .. Len(grown[m].plugins) /\ grown[m].plugins[l] = nodes[m].plugins[l]
      <4>1. CASE m = n
        <5>1. l \in 1 .. len /\ l \in 2 .. len + 1
          BY <1>1, <1>2, <4>1
        <5> QED
          BY <1>1, <1>2, <4>1, <5>1
      <4>2. CASE m # n
        BY <1>1, <4>2
      <4> QED
        BY <4>1, <4>2
    <3> QED
      BY <1>1, <3>2, <3>3 DEF Kept
  <2> QED
    BY <2>1, <2>2
<1> QED
  BY <1>1, <1>7, <1>9, <1>10 DEF Rooted, grown

\* In a request without "&" every operand has a node and a pipeline of its own; a pipeline
\* but the first is essential when effects are attached.
OrShape(s, nodes, pls) ==
    OnlyOr(s) /\ nodes # <<>> =>
        /\ Len(pls) = Len(nodes)
        /\ \A m \in 1 .. Len(nodes) :
              /\ pls[m].nodes = <<m>> /\ HeadOf(nodes[m]) \in Detectors
              /\ m > 1 /\ Len(nodes[m].plugins) > 1 => pls[m].essential

\* A new operand after "|".
LEMMA OrShapeMore ==
    ASSUME NEW s, NEW nodes \in Seq(NodesOf), nodes # <<>>, NEW node \in NodesOf,
           HeadOf(node) \in Detectors, Len(node.plugins) = 1,
           NEW pls \in Seq(PipelinesOf(nodes)), OrShape(s, nodes, pls), OnlyOr(s)
    PROVE  OrShape(s, Append(nodes, node), Append(pls, NewPipeline(Len(nodes) + 1)))
<1> DEFINE n == Len(nodes) + 1
           new == NewPipeline(n)
           more == Append(nodes, node)
           longer == Append(pls, new)
<1>1. Len(nodes) \in Nat /\ Len(more) = n /\ more[n] = node
      /\ \A i \in 1 .. Len(nodes) : more[i] = nodes[i]
  OBVIOUS
<1>2. new.nodes = <<n>>
  BY DEF NewPipeline
<1>3. /\ Len(pls) = Len(nodes)
      /\ \A m \in 1 .. Len(nodes) :
            /\ pls[m].nodes = <<m>> /\ HeadOf(nodes[m]) \in Detectors
            /\ m > 1 /\ Len(nodes[m].plugins) > 1 => pls[m].essential
  BY DEF OrShape
<1> HIDE DEF new, more
<1>4. Len(longer) = n /\ longer[n] = new /\ \A i \in 1 .. Len(nodes) : longer[i] = pls[i]
  BY <1>3
<1> HIDE DEF longer
<1>5. ASSUME NEW m \in 1 .. n
      PROVE  /\ longer[m].nodes = <<m>> /\ HeadOf(more[m]) \in Detectors
             /\ m > 1 /\ Len(more[m].plugins) > 1 => longer[m].essential
  <2>1. CASE m = n
    <3>1. more[m] = node /\ longer[m] = new
      BY <1>1, <1>4, <2>1
    <3>2. longer[m].nodes = <<m>>
      BY <1>2, <2>1, <3>1
    <3>3. ~(Len(more[m].plugins) > 1)
      <4>1. Len(more[m].plugins) = 1
        BY <3>1, Zenon
      <4> QED
        BY <4>1
    <3> QED
      BY <3>1, <3>2, <3>3
  <2>2. CASE m # n
    <3>1. m \in 1 .. Len(nodes)
      BY <1>1, <2>2
    <3> QED
      BY <1>1, <1>3, <1>4, <3>1
  <2> QED
    BY <2>1, <2>2
<1> HIDE DEF n
<1> QED
  BY <1>1, <1>4, <1>5 DEF OrShape, more, longer, new, n

\* An effect attached.
LEMMA OrShapeAttached ==
    ASSUME NEW s, NEW nodes \in Seq(NodesOf), nodes # <<>>, NEW uid \in Plugins,
           NEW pls \in Seq(PipelinesOf(nodes)), OrShape(s, nodes, pls), OnlyOr(s)
    PROVE  OrShape(s, Attach(nodes, uid), MarkEssential(pls))
<1> DEFINE n == Len(nodes)
           grown == Attach(nodes, uid)
           marked == MarkEssential(pls)
<1>1. /\ n \in Nat /\ n # 0 /\ Len(grown) = n
      /\ \A i \in 1 .. n : i # n => grown[i] = nodes[i]
      /\ \A i \in 1 .. n : HeadOf(grown[i]) = HeadOf(nodes[i])
  BY AttachIs
<1>2. /\ Len(pls) = n
      /\ \A m \in 1 .. n :
            /\ pls[m].nodes = <<m>> /\ HeadOf(nodes[m]) \in Detectors
            /\ m > 1 /\ Len(nodes[m].plugins) > 1 => pls[m].essential
  BY DEF OrShape
<1>3. /\ DOMAIN marked = DOMAIN pls /\ Len(marked) = Len(pls)
      /\ \A i \in DOMAIN pls : /\ marked[i].nodes = pls[i].nodes
                               /\ pls[i].essential => marked[i].essential
      /\ Len(pls) > 1 /\ Len(pls[Len(pls)].nodes) = 1 => marked[Len(pls)].essential
  BY MarkedIs
<1>4. DOMAIN pls = 1 .. Len(pls)
  OBVIOUS
<1> HIDE DEF n, grown, marked
<1>5. ASSUME NEW m \in 1 .. n
      PROVE  /\ marked[m].nodes = <<m>> /\ HeadOf(grown[m]) \in Detectors
             /\ m > 1 /\ Len(grown[m].plugins) > 1 => marked[m].essential
  <2>1. marked[m].nodes = <<m>> /\ HeadOf(grown[m]) \in Detectors
    BY <1>1, <1>2, <1>3, <1>4
  <2>2. CASE m = n
    <3>1. pls[n].nodes = <<m>>
      BY <1>2, <2>2
    <3>2. Len(pls[n].nodes) = 1
      BY <3>1
    <3> QED
      BY <1>2, <1>3, <2>1, <2>2, <3>2
  <2>3. CASE m # n
    BY <1>1, <1>2, <1>3, <1>4, <2>1, <2>3
  <2> QED
    BY <2>2, <2>3
<1> QED
  BY <1>1, <1>2, <1>3, <1>5 DEF OrShape, grown, marked

\* A plugin keeps its places.
LEMMA PlacesStep ==
    ASSUME NEW s, ValidLogic(s), PlainOperands(s), NEW k \in 1 .. Len(s), s[k] \in Plugins,
           NEW p, BuiltOf(p), ParsedUpTo(s, k - 1, p), NodesShape(s, k - 1, p.nodes),
           Rooted(s, k - 1, p.nodes), OrShape(s, p.nodes, p.pipelines),
           ParseToken(p, s[k]).null = FALSE
    PROVE  LET q == ParseToken(p, s[k])
           IN Rooted(s, k, q.nodes) /\ OrShape(s, q.nodes, q.pipelines)
<1> DEFINE uid == s[k]
           q == ParseToken(p, uid)
           n == Len(p.nodes) + 1
           node == NewNode(uid, p.cut)
           more == Append(p.nodes, node)
<1>0. NoneAttachedUncut(s)
  BY DEF PlainOperands
<1>1. /\ Len(s) \in Nat /\ k \in Nat \ {0}
  BY TokensInPlace
<1>2. /\ p.op \in {"&", "|", ":", "none"}
      /\ p.op = ":" => ~IsOperand(s, k)
      /\ p.op = "none" => IsOperand(s, k) /\ IsFirst(s, k) /\ p.nodes = <<>>
                          /\ p.pipelines = NothingParsed.pipelines
      /\ p.op \in {"&", "|"} => IsOperand(s, k) /\ ~IsFirst(s, k) /\ OperatorBefore(s, k) = p.op
      /\ p.op # ":" => (p.cut <=> ~(k > 1 /\ s[k - 1] = Uncut))
  BY <1>0, OperatorIs
<1>3. /\ p.nodes \in Seq(NodesOf) /\ p.pipelines \in Seq(PipelinesOf(p.nodes)) /\ p.pipelines # <<>>
      /\ p.cut \in BOOLEAN
  BY DEF BuiltOf
<1>4. PICK nodes, pls :
          /\ Built(p, uid, nodes, pls)
          /\ q = [nodes |-> nodes, pipelines |-> pls, op |-> "none", cut |-> TRUE, null |-> p.null]
  BY <1>2, PluginBuilds
<1>5. p.op # ":" => /\ node \in NodesOf
                    /\ uid \notin Detectors => k > 1 /\ s[k - 1] = "&"
                    /\ Rooted(s, k, more)
  BY <1>1, <1>2, <1>3, MoreNodesShape, RootedMore
<1>6. HeadOf(node) = uid /\ Len(node.plugins) = 1
  BY DEF NewNode, HeadOf
<1>7. p.op \in {"&", "|"} => p.nodes # <<>>
  <2>1. p.op \in {"&", "|"} => \E j \in 1 .. k - 1 : s[j] \in Plugins
    BY <1>2, PluginBefore
  <2> QED
    BY <2>1 DEF NodesShape
<1>8. OnlyOr(s) => p.op # "&" /\ (p.op # ":" => uid \in Detectors)
  <2> SUFFICES ASSUME OnlyOr(s) PROVE p.op # "&" /\ (p.op # ":" => uid \in Detectors)
    OBVIOUS
  <2>1. k > 1 => s[k - 1] # "&"
    BY <1>1 DEF OnlyOr
  <2>2. p.op # "&"
    <3> SUFFICES ASSUME p.op = "&" PROVE FALSE
      OBVIOUS
    <3>1. OperatorBefore(s, k) = "&" /\ ~IsFirst(s, k)
      BY <1>2
    <3>2. k > 1 /\ (s[k - 1] = Uncut => k - 2 \in 1 .. Len(s))
      BY <1>1, <3>1 DEF IsFirst
    <3> QED
      BY <2>1, <3>1, <3>2 DEF OperatorBefore, OnlyOr
  <2> QED
    BY <1>5, <2>1, <2>2
<1>9. Rooted(s, k, nodes) /\ OrShape(s, nodes, pls)
  <2> HIDE DEF q, node
  <2>1. CASE p.op = "&"
    <3>1. nodes = more
      BY <1>4, <2>1 DEF Built, node
    <3>2. ~OnlyOr(s)
      BY <1>8, <2>1
    <3> QED
      BY <1>5, <2>1, <3>1, <3>2 DEF OrShape
  <2>2. CASE p.op = "|"
    <3>1. nodes = more /\ pls = Append(p.pipelines, NewPipeline(n))
      BY <1>4, <2>2 DEF Built, node
    <3>2. OnlyOr(s) => OrShape(s, nodes, pls)
      BY <1>3, <1>5, <1>6, <1>7, <1>8, <2>2, <3>1, OrShapeMore
    <3>3. ~OnlyOr(s) => OrShape(s, nodes, pls)
      BY DEF OrShape
    <3> HIDE DEF more
    <3> QED
      BY <1>5, <2>2, <3>1, <3>2, <3>3
  <2>3. CASE p.op = ":"
    <3>1. /\ p.nodes # <<>> /\ nodes = Attach(p.nodes, uid)
          /\ pls = MarkEssential(p.pipelines)
      BY <1>4, <2>3 DEF Built
    <3>2. uid \in Effects
      <4>1. k > 1 /\ s[k - 1] = ":"
        BY <1>2, <2>3 DEF IsOperand
      <4> QED
        BY <4>1, TokensInPlace
    <3>3. Rooted(s, k, nodes)
      BY <1>1, <1>2, <1>3, <2>3, <3>1, <3>2, RootedAttached
    <3>4. OnlyOr(s) => OrShape(s, nodes, pls)
      BY <1>3, <3>1, OrShapeAttached
    <3>5. ~OnlyOr(s) => OrShape(s, nodes, pls)
      BY DEF OrShape
    <3> QED
      BY <3>3, <3>4, <3>5
  <2>4. CASE p.op = "none"
    <3>1. nodes = more /\ pls = FirstPipelines(p.pipelines, n)
      BY <1>4, <2>4 DEF Built, node
    <3>2. n = 1 /\ more = <<node>>
      <4>1. p.nodes = <<>>
        BY <1>2, <2>4
      <4> QED
        BY <4>1
    <3>3. Len(pls) = 1 /\ pls[1].nodes = <<1>>
      <4>1. p.pipelines = <<[nodes |-> <<>>, essential |-> FALSE]>>
        BY <1>2, <2>4 DEF NothingParsed
      <4>2. Len(p.pipelines) = 1 /\ p.pipelines[1].nodes = <<>>
        BY <4>1
      <4>3. pls = [p.pipelines EXCEPT ![1].nodes = Append(@, 1)]
        BY <3>1, <3>2, <4>2 DEF FirstPipelines
      <4> DEFINE first == [p.pipelines[1] EXCEPT !.nodes = Append(@, 1)]
      <4>4. pls = [p.pipelines EXCEPT ![1] = first]
        BY <4>3
      <4>5. p.pipelines[1] \in PipelinesOf(p.nodes)
        BY <1>3, <4>2, ElementOfSeq
      <4>6. first.nodes = <<1>>
        BY <4>2, <4>5 DEF PipelinesOf
      <4> HIDE DEF first
      <4>7. pls[1] = first /\ Len(pls) = 1
        BY <1>3, <4>2, <4>4
      <4> QED
        BY <4>6, <4>7
    <3>4. OrShape(s, nodes, pls)
      <4>1. Len(more) = 1 /\ more[1] = node
        BY <3>2
      <4> HIDE DEF more
      <4> QED
        BY <1>6, <1>8, <2>4, <3>1, <3>3, <4>1 DEF OrShape
    <3> HIDE DEF more
    <3> QED
      BY <1>5, <2>4, <3>1, <3>4
  <2> QED
    BY <1>2, <2>1, <2>2, <2>3, <2>4
<1>10. q.nodes = nodes /\ q.pipelines = pls
  BY <1>4
<1> QED
  BY <1>9, <1>10

\* The pipelines of an accepted plain request have the shape.
Shape(s, k, p) ==
    /\ NodesShape(s, k, p.nodes) /\ LinesShape(p.nodes, p.pipelines)
    /\ Rooted(s, k, p.nodes) /\ OrShape(s, p.nodes, p.pipelines)

LEMMA ParseShape ==
    ASSUME NEW s, ValidLogic(s), PlainOperands(s), ~UsesNullNode(s)
    PROVE  LET p == Parsing(s)[Len(s)] IN
           /\ BuiltOf(p) /\ p.nodes # <<>>
           /\ Shape(s, Len(s), p)
<1> DEFINE says == [d \in Detectors |-> TRUE]
           at(k) == Parsing(s)[k]
           Shaped(k) == at(k).null = TRUE \/ Shape(s, k, at(k))
           wrong == {k \in 0 .. Len(s) : ~Shaped(k)}
<1>1. Len(s) \in Nat /\ says \in Verdicts /\ NoneAttachedUncut(s)
  BY DEF ValidLogic, Verdicts, PlainOperands
<1>2. at(0) = NothingParsed /\ \A i \in 1 .. Len(s) : at(i) = ParseToken(at(i - 1), s[i])
  BY <1>1, ParsingSteps
<1>3. ASSUME NEW k \in 0 .. Len(s)
      PROVE  /\ IsParser(at(k))
             /\ \/ at(k).null = TRUE
                \/ at(k).null = FALSE /\ BuiltOf(at(k)) /\ ParsedUpTo(s, k, at(k))
  <2>1. ParsedRight(s, k, says)
    BY <1>1, ParseGoesRight
  <2> QED
    BY <2>1 DEF ParsedRight
<1> HIDE DEF at
<1>4. Shaped(0)
  <2> DEFINE pl == [nodes |-> <<>>, essential |-> FALSE]
  <2>0. at(0) = [nodes |-> <<>>, pipelines |-> <<pl>>, op |-> "none", cut |-> TRUE, null |-> FALSE]
    BY <1>2 DEF NothingParsed
  <2>5. pl.nodes = <<>>
    OBVIOUS
  <2> HIDE DEF pl
  <2>1. at(0).nodes = <<>> /\ at(0).pipelines = <<pl>>
    BY <2>0
  <2>2. DOMAIN at(0).pipelines = {1} /\ at(0).pipelines[1].nodes = <<>>
    BY <2>1, <2>5
  <2>3. NodesShape(s, 0, <<>>)
    BY DEF NodesShape
  <2>4. LineShape(<<>>, <<>>)
    BY DEF LineShape
  <2>6. Rooted(s, 0, <<>>) /\ OrShape(s, <<>>, <<pl>>)
    BY DEF Rooted, OrShape
  <2> QED
    BY <2>1, <2>2, <2>3, <2>4, <2>6 DEF LinesShape, Shape
<1>5. ASSUME NEW k \in 1 .. Len(s), Shaped(k - 1) PROVE Shaped(k)
  <2>1. at(k) = ParseToken(at(k - 1), s[k]) /\ k \in 0 .. Len(s) /\ k - 1 \in 0 .. Len(s)
    BY <1>1, <1>2
  <2>2. CASE at(k - 1).null = TRUE
    BY <1>3, <2>1, <2>2, ParserStays
  <2>3. CASE at(k).null = FALSE /\ at(k - 1).null = FALSE /\ s[k] \notin Plugins
    <3>1. at(k).nodes = at(k - 1).nodes /\ at(k).pipelines = at(k - 1).pipelines
      <4> DEFINE p == at(k - 1)
      <4>1. BuiltOf(p) /\ ParsedUpTo(s, k - 1, p)
        BY <1>3, <2>1, <2>3
      <4> HIDE DEF p
      <4>2. ParseToken(p, s[k]).nodes = p.nodes /\ ParseToken(p, s[k]).pipelines = p.pipelines
        BY <2>3, <4>1, NoPluginStep
      <4> QED
        BY <2>1, <4>2 DEF p
    <3>2. /\ NodesShape(s, k - 1, at(k - 1).nodes) /\ LinesShape(at(k - 1).nodes, at(k - 1).pipelines)
          /\ Rooted(s, k - 1, at(k - 1).nodes) /\ OrShape(s, at(k - 1).nodes, at(k - 1).pipelines)
      BY <1>5, <2>3 DEF Shape
    <3>3. NodesShape(s, k, at(k - 1).nodes)
      <4>1. \A j \in 1 .. k : j \in 1 .. k - 1 \/ j = k
        OBVIOUS
      <4>2. 1 .. k - 1 \subseteq 1 .. k
        OBVIOUS
      <4> QED
        BY <2>3, <3>2, <4>1, <4>2 DEF NodesShape
    <3>4. Rooted(s, k, at(k - 1).nodes)
      BY <1>1, <2>3, <3>2, RootedStays
    <3> QED
      BY <3>1, <3>2, <3>3, <3>4 DEF Shape
  <2>4. CASE at(k).null = FALSE /\ at(k - 1).null = FALSE /\ s[k] \in Plugins
    <3> DEFINE p == at(k - 1)
               q == at(k)
    <3>1. BuiltOf(p) /\ ParsedUpTo(s, k - 1, p)
      BY <1>3, <2>1, <2>4
    <3>2. Shape(s, k - 1, p)
      BY <1>5, <2>4
    <3>3. q = ParseToken(p, s[k]) /\ q.null = FALSE
      BY <2>1, <2>4
    <3> HIDE DEF p, q
    <3>4. NodesShape(s, k, q.nodes) /\ LinesShape(q.nodes, q.pipelines)
      BY <2>4, <3>1, <3>2, <3>3, ShapeStep DEF Shape
    <3>5. Rooted(s, k, q.nodes) /\ OrShape(s, q.nodes, q.pipelines)
      BY <2>4, <3>1, <3>2, <3>3, PlacesStep DEF Shape
    <3>6. Shape(s, k, q)
      BY <3>4, <3>5 DEF Shape
    <3> QED
      BY <3>6 DEF q
  <2> QED
    BY <1>3, <2>1, <2>2, <2>3, <2>4
<1> HIDE DEF Shaped
<1>6. wrong = {}
  <2> SUFFICES ASSUME wrong # {} PROVE FALSE
    OBVIOUS
  <2>1. wrong \in SUBSET Nat
    OBVIOUS
  <2>2. PICK k \in wrong : \A l \in wrong : k <= l
    <3> HIDE DEF wrong
    <3> QED
      BY <2>1, LeastNumber
  <2>3. k \in 1 .. Len(s) /\ k - 1 \notin wrong /\ k - 1 \in 0 .. Len(s)
    BY <1>1, <1>4, <2>2
  <2> QED
    BY <1>5, <2>2, <2>3
<1>7. Len(s) \in 0 .. Len(s) /\ Shaped(Len(s))
  BY <1>1, <1>6
<1>8. ~at(Len(s)).null
  BY DEF UsesNullNode, at
<1>9. BuiltOf(at(Len(s))) /\ Shape(s, Len(s), at(Len(s)))
  BY <1>3, <1>7, <1>8 DEF Shaped
<1>10. \E j \in 1 .. Len(s) : s[j] \in Plugins
  <2>1. Len(s) \in 1 .. Len(s) /\ s[Len(s)] \notin Operators \cup {Uncut}
    BY DEF ValidLogic
  <2>2. s[Len(s)] \in Plugins \cup Operators \cup {Uncut}
    BY <2>1, TokensInPlace
  <2> QED
    BY <2>1, <2>2
<1> QED
  BY <1>9, <1>10 DEF NodesShape, Shape, at

----
(* The walk over the pipelines of a plain request. *)

WalksOf(l) ==
    [pos : Nat, include : BOOLEAN, ppos : [DOMAIN l.pipelines -> Nat],
     npos : [DOMAIN l.nodes -> Nat], live : [DOMAIN l.nodes -> BOOLEAN]]

LineOf(l, i) == l.pipelines[i + 1].nodes

\* The position in the line of the current node.
PlaceOf(wk) == wk.ppos[wk.pos + 1] + 1

\* A node that includes the frame by what is said of it, not by being uncut.
Affirmed(node, says) == HeadOf(node) \in Effects \/ says[HeadOf(node)]

NoneEssential(l) == \A i \in DOMAIN l.pipelines : ~l.pipelines[i].essential

\* The walk is somewhere in a pipeline: the nodes before the current one do not exclude the
\* frame, and those after it are as good as new.  The pipelines before it exclude the
\* frame, unless an essential one is walked for its effects.
InPlace(l, wk, says) ==
    /\ wk \in WalksOf(l)
    /\ wk.pos < Len(l.pipelines)
    /\ PlaceOf(wk) \in DOMAIN LineOf(l, wk.pos)
    /\ NoneEssential(l) =>
          \A i \in 1 .. wk.pos : ~PipelineSays(l.nodes, l.pipelines[i], says)
    /\ \A x \in DOMAIN LineOf(l, wk.pos) :
          LET n == LineOf(l, wk.pos)[x] IN
          /\ x < PlaceOf(wk) => NodeSays(l.nodes[n], says)
          /\ x > PlaceOf(wk) => wk.npos[n] = 0
          /\ x >= PlaceOf(wk) => wk.live[n]

NodeAt(l, wk) == LineOf(l, wk.pos)[PlaceOf(wk)]

\* What the walk is told next, by where it is in the current node.
Told(node, k, says, include) ==
    /\ include \in BOOLEAN
    /\ k = 0 => include
    /\ k = 1 => (include <=> Affirmed(node, says))
    /\ k > 1 => include /\ Affirmed(node, says)

\* The links of a plain request.
PlainLinks(l) ==
    /\ l.nodes \in Seq(NodesOf) /\ l.nodes # <<>>
    /\ l.pipelines \in Seq(PipelinesOf(l.nodes)) /\ l.pipelines # <<>>
    /\ LinesShape(l.nodes, l.pipelines)
    /\ \A m \in DOMAIN l.nodes :
          /\ \A k \in 2 .. Len(l.nodes[m].plugins) : l.nodes[m].plugins[k] \in Effects
          /\ HeadOf(l.nodes[m]) \in Effects => \A i \in 1 .. m : l.nodes[i].cut

PlainRequest == expr # <<>> /\ PlainOperands(expr)

\* Between two plugins of a frame.
Underway(l, wk, says, include) ==
    /\ InPlace(l, wk, says)
    /\ Told(l.nodes[NodeAt(l, wk)], wk.npos[NodeAt(l, wk)], says, include)

WalkInv ==
    /\ verdict \in Verdicts
    /\ frames \in Nat /\ (frames > 0 \/ phase = "loop" => expr # <<>>)
    /\ PlainRequest => walk \in WalksOf(links)
    /\ PlainRequest /\ phase = "loop" => Underway(links, walk, verdict, ResultDetect)
    /\ PlainRequest /\ NoEssential /\ Appended =>
          walk.include = SomeSays(links.nodes, links.pipelines, verdict)

\* The answer of nextPlugin() that names a plugin.
Called(r, include, says) ==
    LET n == NodeAt(links, r.walk)
        k == r.walk.npos[n]
    IN /\ InPlace(links, r.walk, says)
       /\ r.uid \in Plugins
       /\ k \in 1 .. Len(links.nodes[n].plugins) /\ r.uid = links.nodes[n].plugins[k]
       /\ \/ k = 1 /\ r.uid = HeadOf(links.nodes[n]) /\ (r.uid \in Effects => include)
          \/ k > 1 /\ r.uid \in Effects /\ include /\ Affirmed(links.nodes[n], says)

\* The current node has no plugin for this frame any more.
Left(include) ==
    LET n == NodeAt(links, walk)
    IN /\ walk.npos[n] # 0
       /\ (walk.npos[n] = 1 /\ ~include) \/ walk.npos[n] >= Len(links.nodes[n].plugins)

\* The answer is the next plugin of the node, the first of the next node, or the first of
\* a later pipeline, where no essential pipeline is skipped.
Stepped(r, include) ==
    \/ /\ r.walk.pos = walk.pos /\ PlaceOf(r.walk) = PlaceOf(walk)
       /\ r.walk.npos[NodeAt(links, walk)] = walk.npos[NodeAt(links, walk)] + 1
    \/ /\ r.walk.pos = walk.pos /\ PlaceOf(r.walk) = PlaceOf(walk) + 1
       /\ r.walk.npos[NodeAt(links, r.walk)] = 1
       /\ Left(include)
    \/ /\ r.walk.pos > walk.pos /\ PlaceOf(r.walk) = 1
       /\ r.walk.npos[NodeAt(links, r.walk)] = 1
       /\ Left(include)
       /\ \A y \in walk.pos + 1 .. r.walk.pos - 1 : ~Pipeline(y).essential

\* nextPlugin() names the next plugin of the walk, or it ends it, with the frame included
\* exactly when one of the pipelines says so, if none is essential.
NextRight(r, include, says) ==
    \/ Called(r, include, says) /\ Stepped(r, include)
    \/ /\ r.uid = EOP /\ r.walk \in WalksOf(links)
       /\ NoneEssential(links) =>
             r.walk.include = SomeSays(links.nodes, links.pipelines, says)
       /\ Left(include)
       /\ \A y \in walk.pos + 1 .. PipelineCount - 1 : ~Pipeline(y).essential

\* The fields of a walk.
LEMMA WalkFields ==
    ASSUME NEW l, NEW wk \in WalksOf(l)
    PROVE  /\ wk = [pos |-> wk.pos, include |-> wk.include, ppos |-> wk.ppos,
                    npos |-> wk.npos, live |-> wk.live]
           /\ wk.pos \in Nat /\ wk.include \in BOOLEAN
           /\ wk.ppos \in [DOMAIN l.pipelines -> Nat]
           /\ wk.npos \in [DOMAIN l.nodes -> Nat]
           /\ wk.live \in [DOMAIN l.nodes -> BOOLEAN]
BY DEF WalksOf

LEMMA WalkParts ==
    ASSUME NEW l, NEW wk \in WalksOf(l)
    PROVE  \E p \in Nat, i \in BOOLEAN, pp \in [DOMAIN l.pipelines -> Nat],
              np \in [DOMAIN l.nodes -> Nat], lv \in [DOMAIN l.nodes -> BOOLEAN] :
              wk = [pos |-> p, include |-> i, ppos |-> pp, npos |-> np, live |-> lv]
<1>1. /\ wk = [pos |-> wk.pos, include |-> wk.include, ppos |-> wk.ppos,
               npos |-> wk.npos, live |-> wk.live]
      /\ wk.pos \in Nat /\ wk.include \in BOOLEAN
      /\ wk.ppos \in [DOMAIN l.pipelines -> Nat]
      /\ wk.npos \in [DOMAIN l.nodes -> Nat]
      /\ wk.live \in [DOMAIN l.nodes -> BOOLEAN]
  BY WalkFields
<1> QED
  BY <1>1, Zenon

LEMMA WalkOfFields ==
    ASSUME NEW l, NEW p \in Nat, NEW i \in BOOLEAN, NEW pp \in [DOMAIN l.pipelines -> Nat],
           NEW np \in [DOMAIN l.nodes -> Nat], NEW lv \in [DOMAIN l.nodes -> BOOLEAN]
    PROVE  LET wk == [pos |-> p, include |-> i, ppos |-> pp, npos |-> np, live |-> lv]
           IN /\ wk \in WalksOf(l)
              /\ wk.pos = p /\ wk.include = i /\ wk.ppos = pp /\ wk.npos = np /\ wk.live = lv
BY DEF WalksOf

\* The verdict on the last plugin, at the current node.
LEMMA PostIs ==
    ASSUME NEW wk \in WalksOf(links), NEW n \in DOMAIN links.nodes, n = CurrentNode(wk),
           NEW include \in BOOLEAN, links.nodes[n].cut \in BOOLEAN
    PROVE  LET q == Post(wk, include) IN
           /\ q \in WalksOf(links)
           /\ q.pos = wk.pos /\ q.ppos = wk.ppos /\ q.npos = wk.npos
           /\ q.include = (~links.nodes[n].cut \/ include)
           /\ \A m \in DOMAIN links.nodes : m # n => q.live[m] = wk.live[m]
           /\ q.live[n] = IF wk.npos[n] = 1 THEN include ELSE wk.live[n]
<1> DEFINE q == Post(wk, include)
           lives == IF wk.npos[n] = 1 THEN include ELSE wk.live[n]
           lv == [wk.live EXCEPT ![n] = lives]
           inc == ~links.nodes[n].cut \/ include
<1>1. PICK p \in Nat, i \in BOOLEAN, pp \in [DOMAIN links.pipelines -> Nat],
           np \in [DOMAIN links.nodes -> Nat], l \in [DOMAIN links.nodes -> BOOLEAN] :
           wk = [pos |-> p, include |-> i, ppos |-> pp, npos |-> np, live |-> l]
  BY WalkParts
<1>2. wk.pos = p /\ wk.ppos = pp /\ wk.npos = np /\ wk.live = l
  BY <1>1
<1>3. lives \in BOOLEAN /\ inc \in BOOLEAN
  BY <1>2
<1>4. /\ lv \in [DOMAIN links.nodes -> BOOLEAN] /\ lv[n] = lives
      /\ \A m \in DOMAIN links.nodes : m # n => lv[m] = wk.live[m]
  <2> HIDE DEF lives
  <2> QED
    BY <1>2, <1>3
<1>5. q = [wk EXCEPT !.live = lv, !.include = inc]
  BY DEF Post
<1>6. q = [pos |-> p, include |-> inc, ppos |-> pp, npos |-> np, live |-> lv]
  <2> HIDE DEF q, lives, lv, inc
  <2> QED
    BY <1>1, <1>5
<1>7. q \in WalksOf(links) /\ q.pos = p /\ q.include = inc /\ q.ppos = pp /\ q.npos = np /\ q.live = lv
  <2> HIDE DEF q, lv, inc
  <2> QED
    BY <1>3, <1>4, <1>6, WalkOfFields
<1> QED
  BY <1>2, <1>4, <1>7

\* The next plugin of a node that is live and has one left.
LEMMA PopNodeIs ==
    ASSUME NEW wk \in WalksOf(links), NEW n \in DOMAIN links.nodes, wk.live[n],
           links.nodes[n].plugins \in Seq(Plugins), wk.npos[n] < Len(links.nodes[n].plugins)
    PROVE  LET r == PopNode(wk, n) IN
           /\ r.uid = links.nodes[n].plugins[wk.npos[n] + 1] /\ r.uid \in Plugins
           /\ r.walk \in WalksOf(links)
           /\ r.walk.pos = wk.pos /\ r.walk.ppos = wk.ppos /\ r.walk.live = wk.live
           /\ \A m \in DOMAIN links.nodes : m # n => r.walk.npos[m] = wk.npos[m]
           /\ r.walk.npos[n] = wk.npos[n] + 1
<1> DEFINE r == PopNode(wk, n)
           k == wk.npos[n]
           next == [wk.npos EXCEPT ![n] = k + 1]
<1>1. PICK p \in Nat, i \in BOOLEAN, pp \in [DOMAIN links.pipelines -> Nat],
           np \in [DOMAIN links.nodes -> Nat], l \in [DOMAIN links.nodes -> BOOLEAN] :
           wk = [pos |-> p, include |-> i, ppos |-> pp, npos |-> np, live |-> l]
  BY WalkParts
<1>2. wk.pos = p /\ wk.ppos = pp /\ wk.npos = np /\ wk.live = l
  BY <1>1
<1>3. k \in Nat /\ k + 1 \in 1 .. Len(links.nodes[n].plugins)
  BY <1>2
<1>4. links.nodes[n].plugins[k + 1] \in Plugins
  BY <1>3, ElementOfSeq
<1>5. /\ next \in [DOMAIN links.nodes -> Nat] /\ next[n] = k + 1
      /\ \A m \in DOMAIN links.nodes : m # n => next[m] = wk.npos[m]
  <2>1. k + 1 \in Nat
    BY <1>3
  <2> HIDE DEF k
  <2> QED
    BY <1>2, <2>1
<1>6. r.uid = links.nodes[n].plugins[k + 1] /\ r.walk = [wk EXCEPT !.npos = next]
  BY DEF PopNode
<1>7. r.walk = [pos |-> p, include |-> i, ppos |-> pp, npos |-> next, live |-> l]
  <2> HIDE DEF r, next
  <2> QED
    BY <1>1, <1>6
<1>8. r.walk \in WalksOf(links) /\ r.walk.pos = p /\ r.walk.ppos = pp /\ r.walk.npos = next /\ r.walk.live = l
  <2> DEFINE q == r.walk
  <2>1. next \in [DOMAIN links.nodes -> Nat]
    BY <1>5
  <2>2. q = [pos |-> p, include |-> i, ppos |-> pp, npos |-> next, live |-> l]
    BY <1>7
  <2> HIDE DEF q, next
  <2>3. /\ q \in WalksOf(links) /\ q.pos = p /\ q.ppos = pp /\ q.npos = next /\ q.live = l
    BY <2>1, <2>2, WalkOfFields
  <2> QED
    BY <2>3 DEF q
<1> QED
  BY <1>2, <1>4, <1>5, <1>6, <1>8

\* One node on in the pipeline.
LEMMA MovedIs ==
    ASSUME NEW wk \in WalksOf(links), wk.pos + 1 \in DOMAIN links.pipelines
    PROVE  LET q == [wk EXCEPT !.ppos[wk.pos + 1] = @ + 1] IN
           /\ q \in WalksOf(links)
           /\ q.pos = wk.pos /\ q.include = wk.include /\ q.npos = wk.npos /\ q.live = wk.live
           /\ q.ppos[wk.pos + 1] = wk.ppos[wk.pos + 1] + 1
<1> DEFINE q == [wk EXCEPT !.ppos[wk.pos + 1] = @ + 1]
           h == wk.pos + 1
           more == [wk.ppos EXCEPT ![h] = wk.ppos[h] + 1]
<1>1. PICK p \in Nat, i \in BOOLEAN, pp \in [DOMAIN links.pipelines -> Nat],
           np \in [DOMAIN links.nodes -> Nat], l \in [DOMAIN links.nodes -> BOOLEAN] :
           wk = [pos |-> p, include |-> i, ppos |-> pp, npos |-> np, live |-> l]
  BY WalkParts
<1>2. wk.pos = p /\ wk.include = i /\ wk.ppos = pp /\ wk.npos = np /\ wk.live = l
  BY <1>1
<1>3. more \in [DOMAIN links.pipelines -> Nat] /\ more[h] = wk.ppos[h] + 1
  <2>1. wk.ppos[h] \in Nat
    BY <1>2
  <2> HIDE DEF h
  <2> QED
    BY <1>2, <2>1 DEF h
<1>4. q = [wk EXCEPT !.ppos = more]
  OBVIOUS
<1>5. q = [pos |-> p, include |-> i, ppos |-> more, npos |-> np, live |-> l]
  <2> HIDE DEF q, more
  <2> QED
    BY <1>1, <1>4
<1>6. /\ q \in WalksOf(links) /\ q.pos = p /\ q.include = i /\ q.ppos = more
      /\ q.npos = np /\ q.live = l
  <2>1. more \in [DOMAIN links.pipelines -> Nat]
    BY <1>3
  <2> HIDE DEF q, more
  <2> QED
    BY <1>5, <2>1, WalkOfFields
<1> QED
  BY <1>2, <1>3, <1>6

LEMMA NodeFacts ==
    ASSUME NEW l, PlainLinks(l), NEW n \in DOMAIN l.nodes
    PROVE  LET node == l.nodes[n] IN
           /\ node.plugins \in Seq(Plugins) /\ Len(node.plugins) \in Nat \ {0}
           /\ node.cut \in BOOLEAN
           /\ \A k \in 2 .. Len(node.plugins) : node.plugins[k] \in Effects
           /\ HeadOf(node) = node.plugins[1] /\ HeadOf(node) \in Plugins
           /\ HeadOf(node) \in Effects => \A i \in 1 .. n : l.nodes[i].cut
<1> DEFINE node == l.nodes[n]
<1>1. node \in NodesOf
  BY ElementOfSeq DEF PlainLinks
<1>2. /\ \A k \in 2 .. Len(node.plugins) : node.plugins[k] \in Effects
      /\ HeadOf(node) \in Effects => \A i \in 1 .. n : l.nodes[i].cut
  BY DEF PlainLinks
<1> HIDE DEF node
<1>3. node.plugins \in Seq(Plugins) /\ node.plugins # <<>> /\ node.cut \in BOOLEAN
  BY <1>1 DEF NodesOf
<1>4. Len(node.plugins) \in Nat \ {0} /\ 1 \in 1 .. Len(node.plugins)
  BY <1>3, EmptySeq
<1>5. node.plugins[1] \in Plugins
  BY <1>3, <1>4, ElementOfSeq
<1> QED
  BY <1>2, <1>3, <1>4, <1>5 DEF node, HeadOf

LEMMA LineFacts ==
    ASSUME NEW l, PlainLinks(l), NEW i \in Nat, i < Len(l.pipelines)
    PROVE  LET line == LineOf(l, i) IN
           /\ i + 1 \in DOMAIN l.pipelines /\ line = l.pipelines[i + 1].nodes
           /\ Len(line) \in Nat \ {0} /\ DOMAIN line = 1 .. Len(line)
           /\ \A x \in DOMAIN line : line[x] \in DOMAIN l.nodes /\ line[x] \in Nat
           /\ \A x, y \in DOMAIN line : x < y => line[x] < line[y]
           /\ HeadOf(l.nodes[line[1]]) \in Detectors
<1> DEFINE line == LineOf(l, i)
<1>1. l.pipelines \in Seq(PipelinesOf(l.nodes)) /\ Len(l.pipelines) \in Nat
      /\ l.nodes \in Seq(NodesOf) /\ DOMAIN l.nodes = 1 .. Len(l.nodes) /\ Len(l.nodes) \in Nat
  BY DEF PlainLinks
<1>2. i + 1 \in DOMAIN l.pipelines /\ line = l.pipelines[i + 1].nodes
  BY <1>1 DEF LineOf
<1>3. l.pipelines[i + 1] \in PipelinesOf(l.nodes)
  BY <1>1, <1>2, ElementOfSeq
<1>4. line \in Seq(DOMAIN l.nodes) /\ LineShape(l.nodes, line) /\ l.nodes # <<>>
  BY <1>2, <1>3 DEF PipelinesOf, PlainLinks, LinesShape
<1> HIDE DEF line
<1>5. line # <<>>
  BY <1>4 DEF LineShape
<1>6. Len(line) \in Nat \ {0} /\ DOMAIN line = 1 .. Len(line)
  BY <1>4, <1>5, EmptySeq
<1>7. \A x \in DOMAIN line : line[x] \in DOMAIN l.nodes
  BY <1>4, ElementOfSeq
<1>8. DOMAIN l.nodes \subseteq Nat
  BY <1>1
<1> QED
  BY <1>2, <1>4, <1>5, <1>6, <1>7, <1>8 DEF LineShape, line

\* Entering a pipeline makes its nodes as good as new, and names the first of them.
LEMMA EnterIs ==
    ASSUME PlainLinks(links), NEW says \in Verdicts, NEW wk \in WalksOf(links),
           NEW i \in Nat, i < Len(links.pipelines),
           NoneEssential(links) =>
               \A x \in 1 .. i : ~PipelineSays(links.nodes, links.pipelines[x], says),
           NEW include
    PROVE  LET r == EnterPipeline(wk, i) IN
           /\ Called(r, include, says)
           /\ r.walk.pos = i /\ PlaceOf(r.walk) = 1 /\ r.walk.npos[NodeAt(links, r.walk)] = 1
<1> DEFINE r == EnterPipeline(wk, i)
           line == LineOf(links, i)
           nodes == Range(line)
           first == line[1]
           pp2 == [wk.ppos EXCEPT ![i + 1] = 0]
           np2 == [n \in DOMAIN wk.npos |->
                      IF n = first THEN 1 ELSE IF n \in nodes THEN 0 ELSE wk.npos[n]]
           lv2 == [n \in DOMAIN wk.live |-> n \in nodes \/ wk.live[n]]
           yes == TRUE
<1>1. PICK p \in Nat, inc \in BOOLEAN, pp \in [DOMAIN links.pipelines -> Nat],
           np \in [DOMAIN links.nodes -> Nat], l \in [DOMAIN links.nodes -> BOOLEAN] :
           wk = [pos |-> p, include |-> inc, ppos |-> pp, npos |-> np, live |-> l]
  BY WalkParts
<1>2. wk.pos = p /\ wk.include = inc /\ wk.ppos = pp /\ wk.npos = np /\ wk.live = l
  BY <1>1
<1>3. /\ i + 1 \in DOMAIN links.pipelines /\ line = Pipeline(i).nodes
      /\ Len(line) \in Nat \ {0} /\ DOMAIN line = 1 .. Len(line)
      /\ \A x \in DOMAIN line : line[x] \in DOMAIN links.nodes /\ line[x] \in Nat
      /\ \A x, y \in DOMAIN line : x < y => line[x] < line[y]
      /\ HeadOf(links.nodes[line[1]]) \in Detectors
  <2> HIDE DEF line
  <2> QED
    BY LineFacts DEF Pipeline, line
<1>4. 1 \in DOMAIN line
  BY <1>3
<1>5. \A x \in DOMAIN line : line[x] \in nodes
  BY DEF Range
<1> HIDE DEF line, nodes
<1>6. pp2 \in [DOMAIN links.pipelines -> Nat] /\ pp2[i + 1] = 0
  BY <1>2, <1>3
<1>7. /\ np2 \in [DOMAIN links.nodes -> Nat] /\ np2[first] = 1
      /\ \A x \in DOMAIN line : x > 1 => np2[line[x]] = 0
  <2>1. DOMAIN wk.npos = DOMAIN links.nodes /\ \A n \in DOMAIN links.nodes : wk.npos[n] \in Nat
    BY <1>2
  <2>2. ASSUME NEW x \in DOMAIN line, x > 1 PROVE line[x] # first
    <3>1. line[1] < line[x] /\ line[1] \in Nat /\ line[x] \in Nat
      BY <1>3, <1>4, <2>2
    <3> QED
      BY <3>1
  <2>3. first \in DOMAIN links.nodes
    BY <1>3, <1>4
  <2> HIDE DEF first
  <2> QED
    BY <1>3, <1>5, <2>1, <2>2, <2>3
<1>8. lv2 \in [DOMAIN links.nodes -> BOOLEAN] /\ \A x \in DOMAIN line : lv2[line[x]]
  BY <1>2, <1>3, <1>5
<1>9. r.walk = [wk EXCEPT !.pos = i, !.include = yes, !.ppos = pp2, !.npos = np2, !.live = lv2]
      /\ r.uid = links.nodes[first].plugins[1]
  <2>1. line = Pipeline(i).nodes /\ nodes = Range(Pipeline(i).nodes)
    BY <1>3 DEF nodes
  <2> QED
    BY <2>1 DEF EnterPipeline
<1>10. r.walk = [pos |-> i, include |-> yes, ppos |-> pp2, npos |-> np2, live |-> lv2]
  <2> DEFINE q == r.walk
  <2>1. q = [wk EXCEPT !.pos = i, !.include = yes, !.ppos = pp2, !.npos = np2, !.live = lv2]
    BY <1>9
  <2> HIDE DEF q, pp2, np2, lv2, yes
  <2>2. q = [pos |-> i, include |-> yes, ppos |-> pp2, npos |-> np2, live |-> lv2]
    BY <1>1, <2>1
  <2> QED
    BY <2>2 DEF q
<1>11. /\ r.walk \in WalksOf(links) /\ r.walk.pos = i /\ r.walk.ppos = pp2
       /\ r.walk.npos = np2 /\ r.walk.live = lv2
  <2> DEFINE q == r.walk
  <2>1. yes \in BOOLEAN
    OBVIOUS
  <2>2. q = [pos |-> i, include |-> yes, ppos |-> pp2, npos |-> np2, live |-> lv2]
    BY <1>10
  <2>3. /\ pp2 \in [DOMAIN links.pipelines -> Nat] /\ np2 \in [DOMAIN links.nodes -> Nat]
        /\ lv2 \in [DOMAIN links.nodes -> BOOLEAN]
    BY <1>6, <1>7, <1>8
  <2> HIDE DEF q, pp2, np2, lv2, yes
  <2>4. /\ q \in WalksOf(links) /\ q.pos = i /\ q.ppos = pp2 /\ q.npos = np2 /\ q.live = lv2
    BY <2>1, <2>2, <2>3, WalkOfFields
  <2> QED
    BY <2>4 DEF q
<1>12. /\ r.uid = HeadOf(links.nodes[first]) /\ r.uid \in Plugins /\ r.uid \notin Effects
       /\ r.uid = links.nodes[first].plugins[1] /\ 1 \in 1 .. Len(links.nodes[first].plugins)
  <2>1. HeadOf(links.nodes[first]) = links.nodes[first].plugins[1]
    BY DEF HeadOf
  <2>2. Len(links.nodes[first].plugins) \in Nat \ {0}
    BY <1>3, <1>4, NodeFacts
  <2>3. HeadOf(links.nodes[first]) \in Detectors
    BY <1>3
  <2>4. r.uid = HeadOf(links.nodes[first]) /\ r.uid = links.nodes[first].plugins[1]
    BY <1>9, <2>1
  <2>5. r.uid \in Plugins /\ r.uid \notin Effects
    <3> HIDE DEF r, first
    <3> QED
      BY <2>3, <2>4, PluginsDistinct DEF Plugins
  <2>6. 1 \in 1 .. Len(links.nodes[first].plugins)
    <3> HIDE DEF first
    <3> QED
      BY <2>2
  <2> HIDE DEF r, first
  <2> QED
    BY <2>4, <2>5, <2>6
<1> HIDE DEF r, pp2, np2, lv2, first
<1>13. PlaceOf(r.walk) = 1 /\ LineOf(links, r.walk.pos) = line /\ NodeAt(links, r.walk) = first
  BY <1>6, <1>11 DEF PlaceOf, NodeAt, line, first
<1>14. InPlace(links, r.walk, says)
  <2>1. ASSUME NEW x \in DOMAIN line
        PROVE  /\ ~(x < 1)
               /\ x > 1 => r.walk.npos[line[x]] = 0
               /\ r.walk.live[line[x]]
    BY <1>3, <1>7, <1>8, <1>11
  <2> QED
    BY <1>4, <1>11, <1>13, <2>1 DEF InPlace
<1>15. r.walk.npos[NodeAt(links, r.walk)] = 1
  BY <1>7, <1>11, <1>13
<1> QED
  BY <1>11, <1>12, <1>13, <1>14, <1>15 DEF Called, r

\* A node that gives a plugin: the walk stays, and the rest of the line is as it was.
LEMMA StaysInPlace ==
    ASSUME PlainLinks(links), NEW says \in Verdicts, InPlace(links, walk, says),
           NEW wk \in WalksOf(links), wk.pos = walk.pos, wk.ppos = walk.ppos,
           LET n == NodeAt(links, walk) IN
               /\ wk.live[n]
               /\ \A m \in DOMAIN links.nodes :
                     m # n => wk.live[m] = walk.live[m] /\ wk.npos[m] = walk.npos[m]
    PROVE  InPlace(links, wk, says) /\ NodeAt(links, wk) = NodeAt(links, walk)
<1> DEFINE line == LineOf(links, walk.pos)
           j == PlaceOf(walk)
<1>1. PlaceOf(wk) = j /\ LineOf(links, wk.pos) = line /\ NodeAt(links, walk) = line[j]
      /\ NodeAt(links, wk) = line[j]
  BY DEF PlaceOf, NodeAt
<1>2. /\ \A x \in DOMAIN line : line[x] \in DOMAIN links.nodes /\ line[x] \in Nat
      /\ \A x, y \in DOMAIN line : x < y => line[x] < line[y]
      /\ DOMAIN line = 1 .. Len(line) /\ Len(line) \in Nat
  <2>1. walk.pos \in Nat /\ walk.pos < Len(links.pipelines)
    BY WalkFields DEF InPlace
  <2> QED
    BY <2>1, LineFacts
<1>3. j \in DOMAIN line
  BY DEF InPlace
<1>4. \A x \in DOMAIN line :
          /\ x < j => NodeSays(links.nodes[line[x]], says)
          /\ x > j => walk.npos[line[x]] = 0
          /\ x >= j => walk.live[line[x]]
  BY DEF InPlace
<1> HIDE DEF line, j
<1>5. ASSUME NEW x \in DOMAIN line
      PROVE  /\ x < j => NodeSays(links.nodes[line[x]], says)
             /\ x > j => wk.npos[line[x]] = 0
             /\ x >= j => wk.live[line[x]]
  <2>1. x > j => line[x] # line[j]
    <3> SUFFICES ASSUME x > j PROVE line[x] # line[j]
      OBVIOUS
    <3>1. line[j] < line[x] /\ line[j] \in Nat /\ line[x] \in Nat
      BY <1>2, <1>3
    <3> QED
      BY <3>1
  <2>2. x < j \/ x = j \/ x > j
    BY <1>2, <1>3
  <2>3. wk.live[line[j]]
    BY <1>1
  <2>4. line[x] \in DOMAIN links.nodes
    BY <1>2
  <2>5. CASE x > j
    BY <1>1, <1>4, <2>1, <2>4, <2>5
  <2>6. CASE x = j
    BY <1>2, <1>3, <2>3, <2>6
  <2>7. CASE x < j
    BY <1>2, <1>3, <1>4, <2>7
  <2> QED
    BY <2>2, <2>5, <2>6, <2>7
<1> QED
  BY <1>1, <1>3, <1>5 DEF InPlace, j, line

LEMMA EndIs ==
    ASSUME NEW wk \in WalksOf(links), PipelineCount \in Nat
    PROVE  /\ EndOfWalk(wk).uid = EOP /\ EndOfWalk(wk).walk \in WalksOf(links)
           /\ EndOfWalk(wk).walk.include = wk.include
<1> DEFINE q == EndOfWalk(wk).walk
           z == PipelineCount
<1>1. PICK p \in Nat, i \in BOOLEAN, pp \in [DOMAIN links.pipelines -> Nat],
           np \in [DOMAIN links.nodes -> Nat], l \in [DOMAIN links.nodes -> BOOLEAN] :
           wk = [pos |-> p, include |-> i, ppos |-> pp, npos |-> np, live |-> l]
  BY WalkParts
<1>2. wk.include = i
  BY <1>1
<1>3. q = [wk EXCEPT !.pos = z] /\ EndOfWalk(wk).uid = EOP
  BY DEF EndOfWalk
<1>4. q = [pos |-> z, include |-> i, ppos |-> pp, npos |-> np, live |-> l]
  <2> HIDE DEF q, z
  <2> QED
    BY <1>1, <1>3
<1>5. q \in WalksOf(links) /\ q.include = i
  <2>1. z \in Nat
    OBVIOUS
  <2> HIDE DEF q, z
  <2> QED
    BY <1>4, <2>1, WalkOfFields
<1> QED
  BY <1>2, <1>3, <1>5

LEMMA UidsApart ==
    /\ EOP # EOPP /\ EOP # NoPlugin /\ EOPP # NoPlugin
    /\ \A uid \in Plugins : uid # EOP /\ uid # EOPP /\ uid # NoPlugin
BY UidsAssumption DEF EOP, EOPP, NoPlugin

\* Where the walk is, and what the verdict on the last plugin makes of it.
LEMMA PlaceFacts ==
    ASSUME PlainLinks(links), NEW says \in Verdicts, InPlace(links, walk, says),
           NEW include \in BOOLEAN
    PROVE  LET n == NodeAt(links, walk)
               q == Post(walk, include)
           IN /\ walk.pos \in Nat /\ walk.pos < Len(links.pipelines) /\ PipelineCount \in Nat
              /\ walk.pos + 1 \in DOMAIN links.pipelines
              /\ n \in DOMAIN links.nodes /\ CurrentNode(walk) = n /\ CurrentNode(q) = n
              /\ walk.npos[n] \in Nat /\ walk.live[n]
              /\ q \in WalksOf(links)
              /\ q.pos = walk.pos /\ q.ppos = walk.ppos /\ q.npos = walk.npos
              /\ q.include = (~links.nodes[n].cut \/ include)
              /\ \A m \in DOMAIN links.nodes : m # n => q.live[m] = walk.live[m]
              /\ q.live[n] = IF walk.npos[n] = 1 THEN include ELSE walk.live[n]
<1> DEFINE n == NodeAt(links, walk)
           line == LineOf(links, walk.pos)
           j == PlaceOf(walk)
           q == Post(walk, include)
<1>1. /\ walk \in WalksOf(links) /\ walk.pos \in Nat /\ walk.pos < Len(links.pipelines)
      /\ walk.npos \in [DOMAIN links.nodes -> Nat] /\ walk.ppos \in [DOMAIN links.pipelines -> Nat]
  BY WalkFields DEF InPlace
<1>2. /\ walk.pos + 1 \in DOMAIN links.pipelines
      /\ \A x \in DOMAIN line : line[x] \in DOMAIN links.nodes
      /\ DOMAIN line = 1 .. Len(line) /\ Len(line) \in Nat
  BY <1>1, LineFacts
<1>3. j \in DOMAIN line /\ n = line[j] /\ walk.live[n]
  <2>1. j \in DOMAIN line /\ n = line[j]
    BY DEF InPlace, NodeAt
  <2>2. j >= j
    BY <1>2, <2>1
  <2> QED
    BY <2>1, <2>2 DEF InPlace
<1>4. n \in DOMAIN links.nodes /\ CurrentNode(walk) = n
  BY <1>2, <1>3 DEF CurrentNode, NodeAt, PlaceOf, LineOf, Pipeline
<1>5. PipelineCount \in Nat
  BY DEF PlainLinks, PipelineCount
<1>6. links.nodes[n].cut \in BOOLEAN
  BY <1>4, NodeFacts
<1> HIDE DEF n
<1>7. /\ q \in WalksOf(links)
      /\ q.pos = walk.pos /\ q.ppos = walk.ppos /\ q.npos = walk.npos
      /\ q.include = (~links.nodes[n].cut \/ include)
      /\ \A m \in DOMAIN links.nodes : m # n => q.live[m] = walk.live[m]
      /\ q.live[n] = IF walk.npos[n] = 1 THEN include ELSE walk.live[n]
  BY <1>1, <1>4, <1>6, PostIs
<1>8. CurrentNode(q) = n
  BY <1>4, <1>7 DEF CurrentNode
<1> QED
  BY <1>1, <1>2, <1>3, <1>4, <1>5, <1>7, <1>8 DEF n

\* The current node excludes the frame: on to the next pipeline.
LEMMA NextAfterNo ==
    ASSUME PlainLinks(links), NEW says \in Verdicts, InPlace(links, walk, says), NEW include,
           Told(links.nodes[NodeAt(links, walk)], walk.npos[NodeAt(links, walk)], says, include),
           links.nodes[NodeAt(links, walk)].cut, ~include
    PROVE  NextRight(NextPlugin(include), include, says)
<1> DEFINE n == NodeAt(links, walk)
           node == links.nodes[n]
           q == Post(walk, include)
           i == walk.pos + 1
           later == i .. PipelineCount - 1
           r == NextPlugin(include)
<1>1. include \in BOOLEAN
  BY DEF Told
<1>2. /\ walk.pos \in Nat /\ walk.pos < Len(links.pipelines) /\ PipelineCount \in Nat
      /\ i \in DOMAIN links.pipelines /\ n \in DOMAIN links.nodes
      /\ walk.npos[n] \in Nat /\ q \in WalksOf(links) /\ q.include = (~node.cut \/ include)
  BY <1>1, PlaceFacts
<1>3. ~q.include
  BY <1>2
<1>4. ~NodeSays(node, says)
  <2>1. ~Affirmed(node, says)
    <3>1. walk.npos[n] = 1
      BY <1>2 DEF Told
    <3> QED
      BY <3>1 DEF Told
  <2> QED
    BY <2>1 DEF NodeSays, Affirmed, HeadOf
<1>4a. Left(include)
  <2>1. walk.npos[n] = 1
    BY <1>2 DEF Told
  <2> QED
    BY <2>1 DEF Left
<1>5. ~PipelineSays(links.nodes, links.pipelines[i], says)
  <2>1. PlaceOf(walk) \in DOMAIN links.pipelines[i].nodes
        /\ n = links.pipelines[i].nodes[PlaceOf(walk)]
    BY DEF InPlace, LineOf, NodeAt
  <2> QED
    BY <1>4, <2>1 DEF PipelineSays
<1>6. NoneEssential(links) =>
          \A x \in 1 .. i : ~PipelineSays(links.nodes, links.pipelines[x], says)
  <2>1. \A x \in 1 .. i : x = i \/ x \in 1 .. walk.pos
    BY <1>2
  <2> QED
    BY <1>5, <2>1 DEF InPlace
<1>7. r = IF later = {} THEN EndOfWalk(q)
          ELSE EnterPipeline(q, CHOOSE j \in later : \A k \in later : j <= k)
  <2>1. PopPipeline(q) = [walk |-> q, uid |-> NoPlugin]
    BY <1>3 DEF PopPipeline
  <2> HIDE DEF q
  <2>2. PopPipeline(q).uid = NoPlugin /\ PopPipeline(q).walk = q
    BY <2>1
  <2>3. PopPipeline(Post(walk, include)).uid = NoPlugin /\ PopPipeline(Post(walk, include)).walk = q
    BY <2>2 DEF q
  <2> DEFINE popped == PopPipeline(Post(walk, include))
             least(S) == CHOOSE j \in S : \A k \in S : j <= k
             rest == IF popped.uid = EOPP THEN EssentialAfter(walk.pos)
                     ELSE walk.pos + 1 .. PipelineCount - 1
  <2>4. r = IF popped.uid \notin {EOPP, NoPlugin} THEN popped
            ELSE IF rest = {} THEN EndOfWalk(popped.walk)
            ELSE EnterPipeline(popped.walk, least(rest))
    BY DEF NextPlugin
  <2>5. popped.uid = NoPlugin /\ popped.walk = q
    BY <2>3
  <2> HIDE DEF popped
  <2>6. rest = later
    BY <2>5, UidsApart
  <2> HIDE DEF rest, least, later
  <2>7. r = IF later = {} THEN EndOfWalk(q) ELSE EnterPipeline(q, least(later))
    BY <2>4, <2>5, <2>6
  <2> QED
    BY <2>7 DEF least
<1> HIDE DEF q, r
<1>8. CASE later = {}
  <2>1. r.uid = EOP /\ r.walk \in WalksOf(links) /\ r.walk.include = q.include
    BY <1>2, <1>7, <1>8, EndIs
  <2>2. q.include = FALSE
    BY <1>2 DEF q
  <2>3. NoneEssential(links) => ~SomeSays(links.nodes, links.pipelines, says)
    <3>1. \A x \in DOMAIN links.pipelines : x \in 1 .. i
      <4>1. links.pipelines \in Seq(PipelinesOf(links.nodes)) /\ PipelineCount = Len(links.pipelines)
        BY DEF PlainLinks, PipelineCount
      <4>2. DOMAIN links.pipelines = 1 .. PipelineCount
        BY <4>1
      <4>3. ~(i <= PipelineCount - 1)
        BY <1>2, <1>8
      <4> QED
        BY <1>2, <4>2, <4>3
    <3> QED
      BY <1>6, <3>1 DEF SomeSays
  <2>4. SomeSays(links.nodes, links.pipelines, says) \in BOOLEAN
    BY DEF SomeSays
  <2> QED
    BY <1>4a, <1>8, <2>1, <2>2, <2>3, <2>4 DEF r, NextRight
<1>9. CASE later # {}
  <2> DEFINE least == CHOOSE j \in later : \A k \in later : j <= k
  <2>1. least = i
    <3>1. i \in later /\ \A z \in later : i <= z
      BY <1>2, <1>9
    <3>2. \A y \in later : (\A z \in later : y <= z) => y = i
      BY <1>2, <3>1
    <3> HIDE DEF later, i
    <3> QED
      BY <3>1, <3>2
  <2>2. r = EnterPipeline(q, i) /\ i \in Nat /\ i < Len(links.pipelines)
    <3>1. i < PipelineCount
      BY <1>2, <1>9
    <3> QED
      <4> HIDE DEF least
      <4>1. r = EnterPipeline(q, least)
        BY <1>7, <1>9 DEF least
      <4> QED
        BY <1>2, <2>1, <3>1, <4>1 DEF PipelineCount
  <2>4. i > walk.pos /\ \A y \in walk.pos + 1 .. i - 1 : FALSE
    BY <1>2
  <2> HIDE DEF i, later
  <2>3. /\ Called(EnterPipeline(q, i), include, says)
        /\ EnterPipeline(q, i).walk.pos = i /\ PlaceOf(EnterPipeline(q, i).walk) = 1
        /\ EnterPipeline(q, i).walk.npos[NodeAt(links, EnterPipeline(q, i).walk)] = 1
    BY <1>2, <1>6, <2>2, EnterIs
  <2>5. /\ Called(r, include, says) /\ r.walk.pos = i /\ PlaceOf(r.walk) = 1
        /\ r.walk.npos[NodeAt(links, r.walk)] = 1
    BY <2>2, <2>3
  <2>6. Stepped(r, include)
    BY <1>4a, <2>4, <2>5 DEF Stepped
  <2> QED
    BY <2>5, <2>6 DEF r, NextRight
<1> QED
  BY <1>8, <1>9

\* The current node has a plugin left, and is live.
LEMMA NextInNode ==
    ASSUME PlainLinks(links), NEW says \in Verdicts, InPlace(links, walk, says), NEW include,
           Told(links.nodes[NodeAt(links, walk)], walk.npos[NodeAt(links, walk)], says, include),
           LET n == NodeAt(links, walk) IN
               /\ ~links.nodes[n].cut \/ include
               /\ walk.npos[n] = 1 => include
               /\ walk.npos[n] < Len(links.nodes[n].plugins)
    PROVE  NextRight(NextPlugin(include), include, says)
<1> DEFINE n == NodeAt(links, walk)
           node == links.nodes[n]
           k == walk.npos[n]
           q == Post(walk, include)
           here == PopNode(q, n)
           r == NextPlugin(include)
<1>1. include \in BOOLEAN
  BY DEF Told
<1>2. /\ n \in DOMAIN links.nodes /\ CurrentNode(q) = n
      /\ k \in Nat /\ walk.live[n] /\ q \in WalksOf(links)
      /\ q.pos = walk.pos /\ q.ppos = walk.ppos /\ q.npos = walk.npos
      /\ q.include = (~node.cut \/ include)
      /\ \A m \in DOMAIN links.nodes : m # n => q.live[m] = walk.live[m]
      /\ q.live[n] = IF k = 1 THEN include ELSE walk.live[n]
  BY <1>1, PlaceFacts
<1>3. /\ node.plugins \in Seq(Plugins) /\ Len(node.plugins) \in Nat
      /\ \A x \in 2 .. Len(node.plugins) : node.plugins[x] \in Effects
      /\ HeadOf(node) = node.plugins[1]
  BY <1>2, NodeFacts
<1>4. q.include /\ q.live[n] /\ q.npos[n] < Len(node.plugins)
  BY <1>2
<1>5. /\ here.uid = node.plugins[k + 1] /\ here.uid \in Plugins
      /\ here.walk \in WalksOf(links)
      /\ here.walk.pos = walk.pos /\ here.walk.ppos = walk.ppos /\ here.walk.live = q.live
      /\ \A m \in DOMAIN links.nodes : m # n => here.walk.npos[m] = walk.npos[m]
      /\ here.walk.npos[n] = k + 1
  <2> HIDE DEF q, n
  <2> QED
    BY <1>2, <1>3, <1>4, PopNodeIs
<1>6. r = here
  <2>1. PopPipeline(q) = here
    <3>1. here.uid # NoPlugin /\ CurrentNode(q) = n /\ q.include
      BY <1>2, <1>4, <1>5, UidsApart
    <3> HIDE DEF q, n
    <3> QED
      BY <3>1 DEF PopPipeline
  <2>2. here.uid \notin {EOPP, NoPlugin}
    BY <1>5, UidsApart
  <2> HIDE DEF here
  <2> QED
    BY <2>1, <2>2 DEF NextPlugin
<1> HIDE DEF r, here, q
<1>7. InPlace(links, r.walk, says) /\ NodeAt(links, r.walk) = n
      /\ r.walk.pos = walk.pos /\ PlaceOf(r.walk) = PlaceOf(walk)
  <2> DEFINE wk == here.walk
  <2>1. /\ wk \in WalksOf(links) /\ wk.pos = walk.pos /\ wk.ppos = walk.ppos /\ wk.live[n]
        /\ \A m \in DOMAIN links.nodes :
              m # n => wk.live[m] = walk.live[m] /\ wk.npos[m] = walk.npos[m]
    BY <1>2, <1>4, <1>5
  <2> HIDE DEF wk
  <2>2. InPlace(links, wk, says) /\ NodeAt(links, wk) = n
    BY <2>1, StaysInPlace
  <2>3. wk.pos = walk.pos /\ PlaceOf(wk) = PlaceOf(walk)
    BY <2>1 DEF PlaceOf
  <2> QED
    BY <1>6, <2>2, <2>3 DEF wk
<1> HIDE DEF n
<1>8. r.walk.npos[n] = k + 1 /\ r.uid = node.plugins[k + 1] /\ r.uid \in Plugins
  BY <1>5, <1>6
<1>8a. Stepped(r, include)
  BY <1>7, <1>8 DEF Stepped, n
<1>8b. k + 1 \in 1 .. Len(node.plugins)
  BY <1>2, <1>3, <1>4
<1>9. Told(node, k, says, include)
  BY DEF n
<1>10. CASE k = 0
  <2>1. include
    BY <1>9, <1>10 DEF Told
  <2>2. /\ r.walk.npos[n] = 1 /\ 1 \in 1 .. Len(node.plugins)
        /\ r.uid = HeadOf(node) /\ r.uid = node.plugins[1]
    BY <1>3, <1>8, <1>8b, <1>10
  <2> QED
    BY <1>7, <1>8, <1>8a, <2>1, <2>2 DEF Called, NextRight, r
<1>11. CASE k # 0
  <2>1. include /\ Affirmed(node, says)
    <3>1. k = 1 => include
      BY DEF n
    <3> QED
      BY <1>2, <1>9, <1>11, <3>1 DEF Told
  <2>2. k + 1 \in 2 .. Len(node.plugins)
    BY <1>2, <1>3, <1>4, <1>11
  <2>3. r.walk.npos[n] > 1 /\ r.uid \in Effects
    BY <1>2, <1>3, <1>8, <1>11, <2>2
  <2> QED
    BY <1>7, <1>8, <1>8a, <1>8b, <2>1, <2>3 DEF Called, NextRight, r
<1> QED
  BY <1>10, <1>11

\* The current node does not exclude the frame and has no more to give: on along the
\* line, or, at its end, to the end of the walk.
LEMMA NextAfterYes ==
    ASSUME PlainLinks(links), NEW says \in Verdicts, InPlace(links, walk, says), NEW include,
           Told(links.nodes[NodeAt(links, walk)], walk.npos[NodeAt(links, walk)], says, include),
           LET n == NodeAt(links, walk) IN
               /\ ~links.nodes[n].cut \/ include
               /\ \/ walk.npos[n] = 1 /\ ~include
                  \/ walk.npos[n] >= Len(links.nodes[n].plugins)
    PROVE  NextRight(NextPlugin(include), include, says)
<1> DEFINE n == NodeAt(links, walk)
           node == links.nodes[n]
           k == walk.npos[n]
           line == LineOf(links, walk.pos)
           j == PlaceOf(walk)
           q == Post(walk, include)
           here == PopNode(q, n)
           moved == [q EXCEPT !.ppos[q.pos + 1] = @ + 1]
           r == NextPlugin(include)
<1>1. include \in BOOLEAN
  BY DEF Told
<1>2. /\ walk.pos \in Nat /\ walk.pos < Len(links.pipelines) /\ PipelineCount \in Nat
      /\ walk.pos + 1 \in DOMAIN links.pipelines
      /\ n \in DOMAIN links.nodes /\ CurrentNode(q) = n
      /\ k \in Nat /\ q \in WalksOf(links)
      /\ q.pos = walk.pos /\ q.ppos = walk.ppos /\ q.npos = walk.npos
      /\ q.include = (~node.cut \/ include)
      /\ \A m \in DOMAIN links.nodes : m # n => q.live[m] = walk.live[m]
      /\ q.live[n] = IF k = 1 THEN include ELSE walk.live[n]
  BY <1>1, PlaceFacts
<1>3. /\ \A x \in DOMAIN line : line[x] \in DOMAIN links.nodes /\ line[x] \in Nat
      /\ \A x, y \in DOMAIN line : x < y => line[x] < line[y]
      /\ DOMAIN line = 1 .. Len(line) /\ Len(line) \in Nat
      /\ line = links.pipelines[walk.pos + 1].nodes
  BY <1>2, LineFacts
<1>4. j \in DOMAIN line /\ n = line[j] /\ j = walk.ppos[walk.pos + 1] + 1
      /\ \A x \in DOMAIN line : /\ x < j => NodeSays(links.nodes[line[x]], says)
                                /\ x > j => walk.npos[line[x]] = 0
                                /\ x >= j => walk.live[line[x]]
  BY DEF InPlace, NodeAt, PlaceOf
<1> HIDE DEF line, j
<1>4a. j \in Nat /\ j <= Len(line) /\ Len(line) \in Nat /\ j \in DOMAIN line
  <2>1. j \in DOMAIN line
    BY <1>4
  <2>2. DOMAIN line = 1 .. Len(line) /\ Len(line) \in Nat
    BY <1>3
  <2> QED
    BY <2>1, <2>2
<1>4b. k # 0 /\ Left(include)
  <2>1. Len(node.plugins) \in Nat \ {0}
    BY <1>2, NodeFacts
  <2>2. k # 0
    BY <1>2, <2>1
  <2> QED
    BY <2>2 DEF Left
<1>5. NodeSays(node, says)
  <2>1. include => Affirmed(node, says)
    BY <1>2, <1>4b DEF Told
  <2> QED
    BY <2>1 DEF NodeSays, Affirmed, HeadOf
<1>6. /\ moved \in WalksOf(links) /\ moved.pos = walk.pos /\ moved.include = q.include
      /\ moved.npos = walk.npos /\ moved.live = q.live
      /\ moved.ppos[walk.pos + 1] = walk.ppos[walk.pos + 1] + 1
  <2> HIDE DEF q
  <2> QED
    BY <1>2, MovedIs
<1>7. q.include
  BY <1>2
<1>8. here.uid = NoPlugin
  <2>1. ~(q.live[n] /\ q.npos[n] < Len(links.nodes[n].plugins))
    <3>1. Len(node.plugins) \in Nat
      BY <1>2, NodeFacts
    <3> QED
      BY <1>2, <3>1
  <2> HIDE DEF q, n
  <2> QED
    BY <2>1 DEF PopNode
<1> DEFINE next == CurrentNode(moved)
           there == PopNode(moved, next)
<1>9. PopPipeline(q) = IF j >= Len(line) THEN [walk |-> moved, uid |-> EOPP] ELSE there
  <2>1. Pipeline(q.pos).nodes = line
    BY <1>2, <1>3 DEF Pipeline
  <2>2. moved.ppos[q.pos + 1] = j
    BY <1>2, <1>4, <1>6
  <2>3. PopPipeline(q) =
            IF ~q.include THEN [walk |-> q, uid |-> NoPlugin]
            ELSE IF PopNode(q, CurrentNode(q)).uid # NoPlugin THEN PopNode(q, CurrentNode(q))
            ELSE IF moved.ppos[q.pos + 1] >= Len(Pipeline(q.pos).nodes)
                 THEN [walk |-> moved, uid |-> EOPP]
                 ELSE PopNode(moved, CurrentNode(moved))
    <3> HIDE DEF n
    <3> QED
      BY DEF PopPipeline
  <2>4. PopNode(q, CurrentNode(q)).uid = NoPlugin
    BY <1>2, <1>8
  <2> HIDE DEF moved, q, line, j
  <2> QED
    BY <1>7, <2>1, <2>2, <2>3, <2>4
<1>10. CASE j >= Len(line)
  <2> DEFINE rest == EssentialAfter(walk.pos)
             least == CHOOSE y \in rest : \A z \in rest : y <= z
  <2>1. PopPipeline(q).uid = EOPP /\ PopPipeline(q).walk = moved
    BY <1>9, <1>10
  <2>2. r = IF rest = {} THEN EndOfWalk(moved) ELSE EnterPipeline(moved, least)
    <3> DEFINE popped == PopPipeline(q)
               first(S) == CHOOSE y \in S : \A z \in S : y <= z
               ahead == IF popped.uid = EOPP THEN EssentialAfter(walk.pos)
                        ELSE walk.pos + 1 .. PipelineCount - 1
    <3>1. r = IF popped.uid \notin {EOPP, NoPlugin} THEN popped
              ELSE IF ahead = {} THEN EndOfWalk(popped.walk)
              ELSE EnterPipeline(popped.walk, first(ahead))
      BY DEF NextPlugin
    <3>2. popped.uid = EOPP /\ popped.walk = moved
      BY <2>1
    <3> HIDE DEF popped, moved
    <3>3. ahead = rest
      BY <3>2
    <3> HIDE DEF ahead, rest, first
    <3>4. r = IF rest = {} THEN EndOfWalk(moved) ELSE EnterPipeline(moved, first(rest))
      BY <3>1, <3>2, <3>3
    <3> QED
      BY <3>4 DEF first
  <2>3. rest \subseteq walk.pos + 1 .. PipelineCount - 1
        /\ \A y \in walk.pos + 1 .. PipelineCount - 1 : Pipeline(y).essential => y \in rest
    BY DEF EssentialAfter
  <2> HIDE DEF rest
  <2>4. CASE rest = {}
    <3>1. r.uid = EOP /\ r.walk \in WalksOf(links) /\ r.walk.include = moved.include
      <4>1. r = EndOfWalk(moved)
        BY <2>2, <2>4
      <4> HIDE DEF moved, r
      <4> QED
        BY <1>2, <1>6, <4>1, EndIs
    <3>2. moved.include = TRUE
      BY <1>2, <1>6
    <3>3. PipelineSays(links.nodes, links.pipelines[walk.pos + 1], says)
      <4>1. ASSUME NEW x \in DOMAIN line PROVE NodeSays(links.nodes[line[x]], says)
        <5>1. x < j \/ x = j
          BY <1>3, <1>4a, <1>10
        <5> QED
          BY <1>4, <1>5, <5>1
      <4> QED
        BY <1>3, <4>1 DEF PipelineSays
    <3>4. SomeSays(links.nodes, links.pipelines, says) = TRUE
      BY <1>2, <3>3 DEF SomeSays
    <3> HIDE DEF r, moved
    <3> QED
      BY <1>4b, <2>3, <2>4, <3>1, <3>2, <3>4 DEF r, NextRight
  <2>5. CASE rest # {}
    <3>1. least \in rest /\ \A z \in rest : least <= z
      <4>1. rest \in SUBSET Nat
        BY <1>2, <2>3
      <4>2. \E y \in rest : \A z \in rest : y <= z
        BY <2>5, <4>1, LeastNumber
      <4> QED
        BY <4>2
    <3> HIDE DEF least
    <3>2. least \in Nat /\ least > walk.pos /\ least < Len(links.pipelines)
      BY <1>2, <2>3, <3>1 DEF PipelineCount
    <3>3. ~NoneEssential(links)
      <4>1. Pipeline(least).essential
        BY <3>1 DEF rest, EssentialAfter
      <4>2. least + 1 \in DOMAIN links.pipelines
        BY <3>2, LineFacts
      <4> QED
        BY <4>1, <4>2 DEF NoneEssential, Pipeline
    <3>4. r = EnterPipeline(moved, least)
      BY <2>2, <2>5
    <3> HIDE DEF moved, r
    <3>5. /\ Called(r, include, says) /\ r.walk.pos = least /\ PlaceOf(r.walk) = 1
          /\ r.walk.npos[NodeAt(links, r.walk)] = 1
      BY <1>6, <3>2, <3>3, <3>4, EnterIs
    <3>6. ASSUME NEW y \in walk.pos + 1 .. least - 1 PROVE ~Pipeline(y).essential
      <4>1. y \in walk.pos + 1 .. PipelineCount - 1 /\ ~(least <= y)
        BY <1>2, <3>2 DEF PipelineCount
      <4> QED
        BY <2>3, <3>1, <4>1
    <3>7. Stepped(r, include)
      BY <1>4b, <3>2, <3>5, <3>6 DEF Stepped
    <3> QED
      BY <3>5, <3>7 DEF r, NextRight
  <2> QED
    BY <2>4, <2>5
<1>11. CASE ~(j >= Len(line))
  <2>1. /\ PlaceOf(moved) = j + 1 /\ LineOf(links, moved.pos) = line /\ next = line[j + 1]
        /\ NodeAt(links, moved) = next
    <3>1. moved.ppos[moved.pos + 1] = j
      BY <1>4, <1>6
    <3>2. LineOf(links, moved.pos) = line /\ Pipeline(moved.pos).nodes = line
      BY <1>3, <1>6 DEF Pipeline, line
    <3> HIDE DEF moved, line, j
    <3> QED
      BY <3>1, <3>2 DEF PlaceOf, CurrentNode, NodeAt
  <2>2. j + 1 \in DOMAIN line /\ next \in DOMAIN links.nodes
    BY <1>3, <1>4a, <1>11, <2>1
  <2>3. n < next /\ n \in Nat /\ next \in Nat
    <3>1. line[j] < line[j + 1] /\ line[j] \in Nat /\ line[j + 1] \in Nat
      <4>1. j < j + 1
        BY <1>4a
      <4> QED
        BY <1>3, <1>4a, <2>2, <4>1
    <3> HIDE DEF n, next
    <3> QED
      BY <1>4, <2>1, <3>1
  <2>4. moved.live[next] /\ moved.npos[next] = 0
    <3>1. walk.npos[line[j + 1]] = 0 /\ walk.live[line[j + 1]]
      <4>1. j + 1 > j /\ j + 1 >= j
        BY <1>4a
      <4> QED
        BY <1>4, <2>2, <4>1
    <3>2. next # n
      BY <2>3
    <3> QED
      BY <1>2, <1>6, <2>1, <2>2, <3>1, <3>2
  <2>5. /\ links.nodes[next].plugins \in Seq(Plugins) /\ Len(links.nodes[next].plugins) \in Nat \ {0}
        /\ HeadOf(links.nodes[next]) = links.nodes[next].plugins[1]
        /\ HeadOf(links.nodes[next]) \in Effects => \A i \in 1 .. next : links.nodes[i].cut
    BY <2>2, NodeFacts
  <2>6. /\ there.uid = HeadOf(links.nodes[next]) /\ there.uid \in Plugins
        /\ there.walk \in WalksOf(links)
        /\ there.walk.pos = moved.pos /\ there.walk.ppos = moved.ppos
        /\ there.walk.live = moved.live
        /\ \A m \in DOMAIN links.nodes : m # next => there.walk.npos[m] = moved.npos[m]
        /\ there.walk.npos[next] = 1
    <3> HIDE DEF moved, next
    <3>1. moved.npos[next] < Len(links.nodes[next].plugins)
      BY <2>4, <2>5
    <3> QED
      BY <1>6, <2>2, <2>4, <2>5, <3>1, PopNodeIs
  <2>7. r = there
    <3>1. PopPipeline(q) = there /\ there.uid \notin {EOPP, NoPlugin}
      BY <1>9, <1>11, <2>6, UidsApart
    <3> HIDE DEF there
    <3> QED
      BY <3>1 DEF NextPlugin
  <2> HIDE DEF r, there
  <2>8. PlaceOf(r.walk) = j + 1 /\ LineOf(links, r.walk.pos) = line /\ NodeAt(links, r.walk) = next
    <3> DEFINE wk == there.walk
    <3>1. wk.pos = moved.pos /\ wk.ppos = moved.ppos
      BY <2>6
    <3> HIDE DEF wk, moved, line, j, next
    <3>2. PlaceOf(wk) = j + 1 /\ LineOf(links, wk.pos) = line /\ NodeAt(links, wk) = next
      BY <2>1, <3>1 DEF PlaceOf, NodeAt
    <3> QED
      BY <2>7, <3>2 DEF wk
  <2>9. ASSUME NEW x \in DOMAIN line
        PROVE  /\ x < j + 1 => NodeSays(links.nodes[line[x]], says)
               /\ x > j + 1 => there.walk.npos[line[x]] = 0
               /\ x >= j + 1 => there.walk.live[line[x]]
    <3>1. j \in Nat /\ x \in Nat /\ line[x] \in DOMAIN links.nodes
      BY <1>3, <1>4a
    <3>2. x < j + 1 => NodeSays(links.nodes[line[x]], says)
      <4>1. x < j + 1 => x < j \/ x = j
        BY <3>1
      <4> QED
        BY <1>4, <1>5, <4>1
    <3>3. x > j + 1 => there.walk.npos[line[x]] = 0
      <4> SUFFICES ASSUME x > j + 1 PROVE there.walk.npos[line[x]] = 0
        OBVIOUS
      <4>1. line[x] # next
        <5>1. line[j + 1] < line[x] /\ line[j + 1] \in Nat /\ line[x] \in Nat
          BY <1>3, <2>2
        <5> QED
          BY <2>1, <5>1
      <4>2. walk.npos[line[x]] = 0
        BY <1>4, <3>1
      <4> QED
        BY <1>6, <2>6, <3>1, <4>1, <4>2
    <3>4. x >= j + 1 => there.walk.live[line[x]]
      <4> SUFFICES ASSUME x >= j + 1 PROVE there.walk.live[line[x]]
        OBVIOUS
      <4>1. line[x] # n
        <5>1. line[j] < line[x] /\ line[j] \in Nat /\ line[x] \in Nat
          <6>1. j < x
            BY <3>1
          <6> QED
            BY <1>3, <1>4a, <6>1
        <5> HIDE DEF n
        <5> QED
          BY <1>4, <5>1
      <4>2. walk.live[line[x]]
        BY <1>4, <3>1
      <4> QED
        BY <1>2, <1>6, <2>6, <3>1, <4>1, <4>2
    <3> QED
      BY <3>2, <3>3, <3>4
  <2>10. InPlace(links, r.walk, says)
    <3> DEFINE wk == there.walk
    <3>1. /\ wk \in WalksOf(links) /\ wk.pos = walk.pos
          /\ PlaceOf(wk) = j + 1 /\ LineOf(links, wk.pos) = line
      BY <1>6, <2>6, <2>7, <2>8
    <3>2. NoneEssential(links) =>
              \A i \in 1 .. walk.pos : ~PipelineSays(links.nodes, links.pipelines[i], says)
      BY DEF InPlace
    <3>3. \A x \in DOMAIN line :
              /\ x < j + 1 => NodeSays(links.nodes[line[x]], says)
              /\ x > j + 1 => wk.npos[line[x]] = 0
              /\ x >= j + 1 => wk.live[line[x]]
      BY <2>9
    <3> HIDE DEF wk, line, j
    <3>4. InPlace(links, wk, says)
      BY <1>2, <2>2, <3>1, <3>2, <3>3 DEF InPlace
    <3> QED
      BY <2>7, <3>4 DEF wk
  <2>11. r.uid \in Effects => include
    <3>1. r.uid \in Effects => node.cut
      <4>1. n \in 1 .. next
        <5>1. DOMAIN links.nodes = 1 .. Len(links.nodes) /\ Len(links.nodes) \in Nat
          BY DEF PlainLinks
        <5> QED
          BY <1>2, <2>2, <2>3, <5>1
      <4> QED
        BY <2>5, <2>6, <2>7, <4>1
    <3> QED
      BY <3>1
  <2>12. r.walk.npos[next] = 1 /\ r.uid = HeadOf(links.nodes[next]) /\ r.uid \in Plugins
    BY <2>6, <2>7
  <2>13. r.uid = links.nodes[next].plugins[1] /\ 1 \in 1 .. Len(links.nodes[next].plugins)
    BY <2>5, <2>6, <2>7
  <2>14. r.walk.pos = walk.pos
    BY <1>6, <2>6, <2>7
  <2> HIDE DEF next
  <2>15. Stepped(r, include)
    BY <1>4b, <2>8, <2>12, <2>14 DEF Stepped, j
  <2> QED
    BY <2>8, <2>10, <2>11, <2>12, <2>13, <2>15 DEF Called, NextRight, r
<1> QED
  BY <1>10, <1>11

LEMMA NextIs ==
    ASSUME PlainLinks(links), NEW says \in Verdicts, NEW include,
           Underway(links, walk, says, include)
    PROVE  NextRight(NextPlugin(include), include, says)
<1> DEFINE n == NodeAt(links, walk)
           node == links.nodes[n]
           k == walk.npos[n]
<1>1. InPlace(links, walk, says) /\ Told(node, k, says, include)
  BY DEF Underway
<1>2. include \in BOOLEAN
  BY <1>1 DEF Told
<1>3. k \in Nat /\ Len(node.plugins) \in Nat /\ node.cut \in BOOLEAN
  <2>1. n \in DOMAIN links.nodes /\ k \in Nat
    BY <1>1, <1>2, PlaceFacts
  <2> QED
    BY <2>1, NodeFacts
<1>4. CASE node.cut /\ ~include
  BY <1>1, <1>4, NextAfterNo
<1>5. CASE /\ ~node.cut \/ include
           /\ k = 1 => include
           /\ k < Len(node.plugins)
  BY <1>1, <1>5, NextInNode
<1>6. CASE /\ ~node.cut \/ include
           /\ (k = 1 /\ ~include) \/ k >= Len(node.plugins)
  BY <1>1, <1>6, NextAfterYes
<1> HIDE DEF n, k, node
<1> QED
  BY <1>2, <1>3, <1>4, <1>5, <1>6

\* A request's pipelines, if it is plain.
LEMMA PlainLinksHold ==
    ASSUME LinkedInv, PlainRequest
    PROVE  /\ PlainLinks(links)
           /\ Rooted(expr, Len(expr), links.nodes)
           /\ OrShape(expr, links.nodes, links.pipelines)
<1> DEFINE p == Parsing(expr)[Len(expr)]
<1>1. ValidLogic(expr) /\ ~UsesNullNode(expr) /\ links = Parse(expr) /\ PlainOperands(expr)
  BY DEF LinkedInv, PlainRequest
<1>2. /\ BuiltOf(p) /\ p.nodes # <<>>
      /\ NodesShape(expr, Len(expr), p.nodes) /\ LinesShape(p.nodes, p.pipelines)
      /\ Rooted(expr, Len(expr), p.nodes) /\ OrShape(expr, p.nodes, p.pipelines)
  BY <1>1, ParseShape DEF Shape
<1>3. links.nodes = p.nodes /\ links.pipelines = p.pipelines
  BY <1>1 DEF Parse
<1> HIDE DEF p
<1>4. /\ links.nodes \in Seq(NodesOf) /\ links.nodes # <<>>
      /\ links.pipelines \in Seq(PipelinesOf(links.nodes)) /\ links.pipelines # <<>>
      /\ LinesShape(links.nodes, links.pipelines)
  BY <1>2, <1>3 DEF BuiltOf
<1>5. \A m \in DOMAIN links.nodes :
          /\ \A k \in 2 .. Len(links.nodes[m].plugins) : links.nodes[m].plugins[k] \in Effects
          /\ HeadOf(links.nodes[m]) \in Effects => \A i \in 1 .. m : links.nodes[i].cut
  BY <1>2, <1>3 DEF NodesShape
<1>6. Rooted(expr, Len(expr), links.nodes) /\ OrShape(expr, links.nodes, links.pipelines)
  BY <1>2, <1>3
<1> QED
  BY <1>4, <1>5, <1>6 DEF PlainLinks

LEMMA StartIs ==
    ASSUME NEW l, NEW include \in BOOLEAN
    PROVE  LET wk == [StartOfWalk(l) EXCEPT !.include = include] IN
           /\ wk \in WalksOf(l)
           /\ wk.pos = 0 /\ wk.ppos = [i \in DOMAIN l.pipelines |-> 0]
           /\ wk.npos = [n \in DOMAIN l.nodes |-> 0]
           /\ wk.live = [n \in DOMAIN l.nodes |-> TRUE]
<1> DEFINE pp == [i \in DOMAIN l.pipelines |-> 0]
           np == [n \in DOMAIN l.nodes |-> 0]
           lv == [n \in DOMAIN l.nodes |-> TRUE]
           no == FALSE
           start == [pos |-> 0, include |-> no, ppos |-> pp, npos |-> np, live |-> lv]
           wk == [StartOfWalk(l) EXCEPT !.include = include]
<1>1. StartOfWalk(l) = start
  BY DEF StartOfWalk
<1>2. /\ pp \in [DOMAIN l.pipelines -> Nat] /\ np \in [DOMAIN l.nodes -> Nat]
      /\ lv \in [DOMAIN l.nodes -> BOOLEAN]
  OBVIOUS
<1>3. wk = [start EXCEPT !.include = include]
  BY <1>1
<1> HIDE DEF pp, np, lv, no, wk
<1>4. wk = [pos |-> 0, include |-> include, ppos |-> pp, npos |-> np, live |-> lv]
  BY <1>3
<1>5. wk \in WalksOf(l) /\ wk.pos = 0 /\ wk.ppos = pp /\ wk.npos = np /\ wk.live = lv
  BY <1>2, <1>4, WalkOfFields
<1> QED
  BY <1>5 DEF pp, np, lv, wk

\* The walk at the beginning of a frame.
LEMMA BeginsUnderway ==
    ASSUME PlainLinks(links), NEW says, NEW include \in BOOLEAN
    PROVE  LET wk == [StartOfWalk(links) EXCEPT !.include = include] IN
           /\ Underway(links, wk, says, TRUE)
           /\ wk.pos = 0 /\ PlaceOf(wk) = 1 /\ wk.npos[NodeAt(links, wk)] = 0
<1> DEFINE wk == [StartOfWalk(links) EXCEPT !.include = include]
           line == LineOf(links, 0)
           n == line[1]
<1>1. /\ wk \in WalksOf(links) /\ wk.pos = 0 /\ wk.ppos = [i \in DOMAIN links.pipelines |-> 0]
      /\ wk.npos = [m \in DOMAIN links.nodes |-> 0]
      /\ wk.live = [m \in DOMAIN links.nodes |-> TRUE]
  BY StartIs
<1>2. 0 < Len(links.pipelines)
  <2>1. links.pipelines \in Seq(PipelinesOf(links.nodes)) /\ links.pipelines # <<>>
    BY DEF PlainLinks
  <2>2. Len(links.pipelines) \in Nat /\ Len(links.pipelines) # 0
    BY <2>1, EmptySeq
  <2> QED
    BY <2>2
<1>3. /\ 0 + 1 \in DOMAIN links.pipelines /\ Len(line) \in Nat \ {0} /\ DOMAIN line = 1 .. Len(line)
      /\ \A x \in DOMAIN line : line[x] \in DOMAIN links.nodes
  BY <1>2, LineFacts
<1> HIDE DEF wk, line
<1>4. wk.ppos[1] = 0
  BY <1>1, <1>3
<1>5. PlaceOf(wk) = 1 /\ LineOf(links, wk.pos) = line /\ NodeAt(links, wk) = n
  <2>1. wk.ppos[wk.pos + 1] = 0
    BY <1>1, <1>4
  <2>2. PlaceOf(wk) = 1
    BY <2>1 DEF PlaceOf
  <2> QED
    BY <1>1, <2>2 DEF NodeAt, line
<1>6. 1 \in DOMAIN line /\ n \in DOMAIN links.nodes
  BY <1>3
<1>7. ASSUME NEW x \in DOMAIN line
      PROVE  ~(x < 1) /\ wk.npos[line[x]] = 0 /\ wk.live[line[x]]
  BY <1>1, <1>3
<1>8. InPlace(links, wk, says)
  <2>1. \A i \in 1 .. wk.pos : FALSE
    BY <1>1
  <2> QED
    BY <1>1, <1>2, <1>5, <1>6, <1>7, <2>1 DEF InPlace
<1>9. Told(links.nodes[n], 0, says, TRUE)
  BY DEF Told
<1>10. wk.npos[n] = 0
  BY <1>1, <1>6
<1> QED
  BY <1>1, <1>5, <1>8, <1>9, <1>10 DEF Underway, wk

\* What the call of nextPlugin() in the inner loop answers.
LEMMA Next1Is ==
    ASSUME LinkedInv, WalkInv, PlainRequest, phase = "loop"
    PROVE  NextRight(Next1, ResultDetect, verdict)
<1>1. PlainLinks(links) /\ verdict \in Verdicts /\ Underway(links, walk, verdict, ResultDetect)
  BY PlainLinksHold DEF WalkInv
<1> QED
  BY <1>1, NextIs DEF Next1

\* A detector's answer, run or cached, is what the walk is told next.
LEMMA DetectorTold ==
    ASSUME NEW r, NEW include, NEW says \in Verdicts, Called(r, include, says),
           r.uid \in Detectors
    PROVE  Underway(links, r.walk, says, says[r.uid])
<1> DEFINE n == NodeAt(links, r.walk)
           k == r.walk.npos[n]
           node == links.nodes[n]
<1>1. /\ InPlace(links, r.walk, says)
      /\ \/ k = 1 /\ r.uid = HeadOf(node)
         \/ k > 1 /\ r.uid \in Effects
  BY DEF Called
<1>2. r.uid \notin Effects /\ says[r.uid] \in BOOLEAN
  BY PluginsDistinct DEF Verdicts
<1>3. k = 1 /\ r.uid = HeadOf(node)
  BY <1>1, <1>2
<1> HIDE DEF k, node
<1>4. Told(node, k, says, says[r.uid])
  BY <1>2, <1>3 DEF Told, Affirmed
<1> QED
  BY <1>1, <1>4 DEF Underway, k, node

\* An effect leaves the last result as it is.
LEMMA EffectTold ==
    ASSUME NEW r, NEW include \in BOOLEAN, NEW says \in Verdicts, Called(r, include, says),
           r.uid \in Effects
    PROVE  Underway(links, r.walk, says, include)
<1> DEFINE n == NodeAt(links, r.walk)
           k == r.walk.npos[n]
           node == links.nodes[n]
<1>1. /\ InPlace(links, r.walk, says)
      /\ \/ k = 1 /\ r.uid = HeadOf(node) /\ include
         \/ k > 1 /\ include /\ Affirmed(node, says)
  BY DEF Called
<1>2. include /\ Affirmed(node, says) /\ k # 0
  BY <1>1 DEF Affirmed
<1> HIDE DEF k, node
<1>3. Told(node, k, says, include)
  BY <1>2 DEF Told
<1> QED
  BY <1>1, <1>3 DEF Underway, k, node

LEMMA WalkInvInit == Init => WalkInv
BY DEF Init, WalkInv, PlainRequest, Appended, Verdicts

LEMMA WalkInvKept == IInv /\ LinkedInv /\ WalkInv /\ [Next]_vars => WalkInv'
<1> SUFFICES ASSUME IInv, LinkedInv, WalkInv, [Next]_vars
             PROVE  WalkInv'
  OBVIOUS
<1>1. CASE Register
  <2>1. expr = <<>> /\ frames = 0 /\ phase = "between" /\ phase' # "loop"
        /\ UNCHANGED <<frames, verdict>>
    BY <1>1 DEF Register, WalkInv
  <2>2. PICK s \in Requests :
            IF UsesNullNode(s)
            THEN phase' = "crashed" /\ UNCHANGED <<expr, links, walk>>
            ELSE /\ expr' = s
                 /\ links' = Parse(s)
                 /\ walk' = StartOfWalk(Parse(s))
                 /\ UNCHANGED phase
    BY <1>1 DEF Register
  <2>3. expr' # <<>> => walk' \in WalksOf(links')
    <3> SUFFICES ASSUME expr' # <<>> PROVE walk' \in WalksOf(links')
      OBVIOUS
    <3>1. links' = Parse(s) /\ walk' = StartOfWalk(Parse(s))
      BY <2>1, <2>2
    <3>2. StartOfWalk(Parse(s)) \in WalksOf(Parse(s))
      BY DEF StartOfWalk, WalksOf
    <3> QED
      BY <3>1, <3>2
  <2>4. frames' = 0 /\ verdict' \in Verdicts
    BY <2>1 DEF WalkInv
  <2> QED
    BY <2>1, <2>3, <2>4 DEF WalkInv, PlainRequest, Appended
<1>2. CASE BeginFrame
  <2>1. /\ expr # <<>> /\ phase' = "loop" /\ frames' = frames + 1 /\ UNCHANGED <<expr, links>>
        /\ walk' = ResetWalk(walk) /\ verdict' \in Verdicts /\ resultUid' = NoPlugin
    BY <1>2 DEF BeginFrame, ClearCache
  <2>2. ResultDetect' = TRUE
    BY <2>1 DEF ResultDetect, CacheEmpty
  <2>3. ASSUME PlainRequest
        PROVE  walk' \in WalksOf(links) /\ Underway(links, walk', verdict', TRUE)
    <3>1. PlainLinks(links) /\ walk.include \in BOOLEAN
      BY <2>3, PlainLinksHold, WalkFields DEF WalkInv
    <3>2. Underway(links, walk', verdict', TRUE)
      BY <2>1, <3>1, BeginsUnderway DEF ResetWalk
    <3> QED
      BY <3>2 DEF Underway, InPlace
  <2>4. PlainRequest' => PlainRequest
    BY <2>1 DEF PlainRequest, NoEssential
  <2>5. frames' \in Nat
    BY <2>1 DEF WalkInv
  <2> QED
    BY <2>1, <2>2, <2>3, <2>4, <2>5 DEF WalkInv, Appended
<1>3. CASE EndFrame
  <2>1. /\ phase = "loop" /\ Next1.uid = EOP /\ walk' = Next1.walk /\ phase' = "between"
        /\ UNCHANGED <<expr, links, frames, verdict>>
    BY <1>3 DEF EndFrame
  <2>2. ASSUME PlainRequest
        PROVE  /\ walk' \in WalksOf(links)
               /\ NoEssential =>
                     walk'.include = SomeSays(links.nodes, links.pipelines, verdict)
    <3>1. NextRight(Next1, ResultDetect, verdict)
      BY <2>1, <2>2, Next1Is
    <3>2. ~Called(Next1, ResultDetect, verdict)
      BY <2>1, UidsApart DEF Called
    <3> QED
      BY <2>1, <3>1, <3>2 DEF NextRight, NoEssential, NoneEssential
  <2>3. (PlainRequest' => PlainRequest) /\ (NoEssential' => NoEssential)
    BY <2>1 DEF PlainRequest, NoEssential
  <2> QED
    BY <2>1, <2>2, <2>3 DEF WalkInv
<1>4. CASE UseCached
  <2>1. /\ phase = "loop" /\ Next1.uid \in DOMAIN storage
        /\ walk' = Next1.walk /\ resultUid' = Next1.uid
        /\ UNCHANGED <<expr, links, storage, phase, frames, verdict>>
    BY <1>4 DEF UseCached, Hit
  <2>2. Next1.uid \in Detectors /\ storage[Next1.uid] = verdict[Next1.uid]
    BY <2>1 DEF IInv, CallTypes, StorageOfFrame
  <2>3. ResultDetect' = verdict[Next1.uid]
    <3>1. storage # NoOutcome
      BY <2>1 DEF NoOutcome
    <3>2. Next1.uid # NoPlugin
      BY <2>2, UidsApart DEF Plugins
    <3> DEFINE uid == Next1.uid
    <3>3. uid # NoPlugin /\ resultUid' = uid /\ storage' = storage /\ storage[uid] = verdict[uid]
      BY <2>1, <2>2, <3>2
    <3> HIDE DEF uid
    <3>4. ResultDetect' = verdict[uid]
      BY <3>1, <3>3 DEF ResultDetect, CacheEmpty
    <3> QED
      BY <3>4 DEF uid
  <2>4. ASSUME PlainRequest
        PROVE  walk' \in WalksOf(links) /\ Underway(links, walk', verdict, ResultDetect')
    <3>1. NextRight(Next1, ResultDetect, verdict)
      BY <2>1, <2>4, Next1Is
    <3>2. Next1.uid # EOP
      BY <2>2, UidsApart DEF Plugins
    <3>3. Called(Next1, ResultDetect, verdict) /\ verdict \in Verdicts
      BY <3>1, <3>2 DEF NextRight, WalkInv
    <3>4. Underway(links, walk', verdict, ResultDetect')
      BY <2>1, <2>2, <2>3, <3>3, DetectorTold
    <3> QED
      BY <3>4 DEF Underway, InPlace
  <2>5. PlainRequest' => PlainRequest
    BY <2>1 DEF PlainRequest, NoEssential
  <2> QED
    BY <2>1, <2>4, <2>5 DEF WalkInv, Appended
<1>5. CASE ApplyEffect
  <2>1. /\ phase = "loop" /\ Next1.uid \in Effects
        /\ walk' = Next1.walk
        /\ UNCHANGED <<expr, links, storage, resultUid, phase, frames, verdict>>
    BY <1>5 DEF ApplyEffect, SetDetected
  <2>2. ResultDetect' = ResultDetect
    BY <2>1 DEF ResultDetect, CacheEmpty
  <2>3. ASSUME PlainRequest
        PROVE  walk' \in WalksOf(links) /\ Underway(links, walk', verdict, ResultDetect)
    <3>1. NextRight(Next1, ResultDetect, verdict)
      BY <2>1, <2>3, Next1Is
    <3>2. Next1.uid # EOP
      BY <2>1, UidsApart DEF Plugins
    <3>3. Called(Next1, ResultDetect, verdict) /\ verdict \in Verdicts
      BY <3>1, <3>2 DEF NextRight, WalkInv
    <3>4. ResultDetect \in BOOLEAN
      BY <2>1, <2>3 DEF WalkInv, Underway, Told
    <3>5. Underway(links, walk', verdict, ResultDetect)
      BY <2>1, <3>3, <3>4, EffectTold
    <3> QED
      BY <3>5 DEF Underway, InPlace
  <2>4. PlainRequest' => PlainRequest
    BY <2>1 DEF PlainRequest, NoEssential
  <2> QED
    BY <2>1, <2>2, <2>3, <2>4 DEF WalkInv, Appended
<1>6. CASE RunDetector
  <2> DEFINE uid == Next1.uid
  <2>1. /\ phase = "loop" /\ uid \in Detectors
        /\ walk' = Next1.walk /\ resultUid' = uid
        /\ storage' = [d \in DOMAIN storage \cup {uid} |->
                          IF d = uid THEN verdict[uid] ELSE storage[d]]
        /\ UNCHANGED <<expr, links, phase, frames, verdict>>
    BY <1>6 DEF RunDetector, WriteCache
  <2>2. ResultDetect' = verdict[uid]
    <3>1. uid # NoPlugin
      BY <2>1, UidsApart DEF Plugins
    <3> HIDE DEF uid
    <3>2. uid \in DOMAIN storage' /\ storage'[uid] = verdict[uid]
      BY <2>1
    <3>3. storage' # NoOutcome
      BY <3>2 DEF NoOutcome
    <3> QED
      BY <2>1, <3>1, <3>2, <3>3 DEF ResultDetect, CacheEmpty
  <2>3. ASSUME PlainRequest
        PROVE  walk' \in WalksOf(links) /\ Underway(links, walk', verdict, ResultDetect')
    <3>1. NextRight(Next1, ResultDetect, verdict)
      BY <2>1, <2>3, Next1Is
    <3>2. Next1.uid # EOP
      BY <2>1, UidsApart DEF Plugins
    <3>3. Called(Next1, ResultDetect, verdict) /\ verdict \in Verdicts
      BY <3>1, <3>2 DEF NextRight, WalkInv
    <3>4. Underway(links, walk', verdict, ResultDetect')
      BY <2>1, <2>2, <3>3, DetectorTold
    <3> QED
      BY <3>4 DEF Underway, InPlace
  <2>4. PlainRequest' => PlainRequest
    BY <2>1 DEF PlainRequest, NoEssential
  <2> HIDE DEF uid
  <2> QED
    BY <2>1, <2>3, <2>4 DEF WalkInv, Appended
<1>7. CASE DetectorFails
  <2>1. /\ phase = "loop" /\ Next1.uid \in Detectors
        /\ walk' = Next1.walk /\ failed' = TRUE /\ phase' = "between"
        /\ UNCHANGED <<expr, links, frames, verdict>>
    BY <1>7 DEF DetectorFails
  <2>2. ASSUME PlainRequest PROVE walk' \in WalksOf(links)
    <3>1. NextRight(Next1, ResultDetect, verdict)
      BY <2>1, <2>2, Next1Is
    <3> QED
      BY <2>1, <3>1 DEF NextRight, Called, InPlace
  <2>3. PlainRequest' => PlainRequest
    BY <2>1 DEF PlainRequest, NoEssential
  <2> QED
    BY <2>1, <2>2, <2>3 DEF WalkInv, Appended
<1>8. CASE Interrupt
  <2>1. phase' = "stopped" /\ UNCHANGED <<expr, links, walk, frames, verdict>>
    BY <1>8 DEF Interrupt
  <2>2. PlainRequest' => PlainRequest
    BY <2>1 DEF PlainRequest, NoEssential
  <2> QED
    BY <2>1, <2>2 DEF WalkInv, Appended
<1>9. CASE UNCHANGED vars
  <2>1. UNCHANGED <<expr, links, walk, storage, resultUid, phase, frames, failed, verdict>>
    BY <1>9 DEF vars
  <2>2. (PlainRequest' => PlainRequest) /\ (NoEssential' => NoEssential)
    BY <2>1 DEF PlainRequest, NoEssential
  <2>3. ResultDetect' = ResultDetect
    BY <2>1 DEF ResultDetect, CacheEmpty
  <2>4. Appended' => Appended
    BY <2>1 DEF Appended
  <2> QED
    BY <2>1, <2>2, <2>3, <2>4 DEF WalkInv
<1> QED
  BY <1>1, <1>2, <1>3, <1>4, <1>5, <1>6, <1>7, <1>8, <1>9 DEF Next, InnerLoop

LEMMA WalkInvHolds == Spec => []WalkInv
  BY WalkInvInit, WalkInvKept, InductiveInvariant, LinkedInvHolds, PTL DEF Spec

\* A frame is kept exactly when the request, read from left to right, holds of what the
\* detectors said, for every length of a plain request without essential pipelines.
THEOREM IncludeIsMeaningPlainHolds == Spec => []IncludeIsMeaningPlain
<1>1. LinkedInv /\ WalkInv => IncludeIsMeaningPlain
  <2> SUFFICES ASSUME LinkedInv, WalkInv, NoEssential, AppendedPlain
               PROVE  walk.include = (verdict \in Meaning(expr))
    BY DEF IncludeIsMeaningPlain, IncludeIsMeaning
  <2> DEFINE p == Parsing(expr)[Len(expr)]
  <2>1. expr # <<>> /\ PlainOperands(expr) /\ Appended /\ verdict \in Verdicts
    BY DEF AppendedPlain, Appended, WalkInv
  <2>2. ValidLogic(expr) /\ ~UsesNullNode(expr) /\ links = Parse(expr)
    BY <2>1 DEF LinkedInv
  <2>3. SomeSays(p.nodes, p.pipelines, verdict) <=> verdict \in Meaning(expr)
    BY <2>1, <2>2, ParseMeans DEF PlainOperands
  <2>4. links.nodes = p.nodes /\ links.pipelines = p.pipelines
    BY <2>2 DEF Parse
  <2> HIDE DEF p
  <2>5. walk.include = SomeSays(links.nodes, links.pipelines, verdict)
    BY <2>1 DEF WalkInv, PlainRequest
  <2>6. walk.include \in BOOLEAN
    BY <2>5 DEF SomeSays
  <2>7. walk.include <=> verdict \in Meaning(expr)
    BY <2>3, <2>4, <2>5
  <2> QED
    BY <2>6, <2>7
<1> QED
  BY <1>1, WalkInvHolds, LinkedInvHolds, PTL

----
(* Which detector the last result is from, while effects are applied. *)

\* The result is of a detector that heads a node of the line so far: the current one,
\* unless an effect heads it.
HeardFrom(l, wk, uid) ==
    \E x \in 1 .. PlaceOf(wk) :
        /\ uid = HeadOf(l.nodes[LineOf(l, wk.pos)[x]]) /\ uid \in Detectors
        /\ HeadOf(l.nodes[NodeAt(l, wk)]) \in Detectors => x = PlaceOf(wk)

Heard(l, wk, uid) ==
    IF wk.npos[NodeAt(l, wk)] = 0 THEN PlaceOf(wk) = 1 ELSE HeardFrom(l, wk, uid)

HeardInv ==
    PlainRequest /\ phase = "loop" =>
        /\ resultUid = NoPlugin \/ resultUid \in DOMAIN storage
        /\ Heard(links, walk, resultUid)

LEMMA DetectorHeard ==
    ASSUME PlainLinks(links), NEW r, NEW include, NEW says, Called(r, include, says),
           r.uid \in Detectors
    PROVE  Heard(links, r.walk, r.uid)
<1> DEFINE n == NodeAt(links, r.walk)
           k == r.walk.npos[n]
           line == LineOf(links, r.walk.pos)
           j == PlaceOf(r.walk)
<1>1. r.uid \notin Effects
  BY PluginsDistinct
<1>2. k = 1 /\ r.uid = HeadOf(links.nodes[n]) /\ InPlace(links, r.walk, says)
  BY <1>1 DEF Called
<1>3. j \in 1 .. j /\ n = line[j]
  <2>1. r.walk.pos \in Nat /\ r.walk.pos < Len(links.pipelines) /\ j \in DOMAIN line
    BY <1>2, WalkFields DEF InPlace
  <2>2. DOMAIN line = 1 .. Len(line) /\ Len(line) \in Nat
    BY <2>1, LineFacts
  <2>3. j \in Nat /\ j >= 1
    BY <2>1, <2>2
  <2> HIDE DEF j
  <2> QED
    BY <2>3 DEF NodeAt, j
<1> HIDE DEF n, k, line, j
<1>4. HeardFrom(links, r.walk, r.uid)
  BY <1>2, <1>3 DEF HeardFrom, n, line, j
<1> QED
  BY <1>2, <1>4 DEF Heard, k, n

LEMMA EffectHeard ==
    ASSUME PlainLinks(links), NEW r, NEW include \in BOOLEAN, NEW says \in Verdicts,
           InPlace(links, walk, says), Called(r, include, says), Stepped(r, include),
           r.uid \in Effects, NEW uid, Heard(links, walk, uid)
    PROVE  HeardFrom(links, r.walk, uid) /\ Heard(links, r.walk, uid)
<1> DEFINE n == NodeAt(links, walk)
           m == NodeAt(links, r.walk)
           line == LineOf(links, walk.pos)
           j == PlaceOf(walk)
<1>1. r.uid \notin Detectors
  BY PluginsDistinct
<1>2. /\ walk.pos \in Nat /\ walk.pos < Len(links.pipelines) /\ walk.npos[n] \in Nat
  BY PlaceFacts
<1>3. /\ HeadOf(links.nodes[line[1]]) \in Detectors
      /\ DOMAIN line = 1 .. Len(line) /\ Len(line) \in Nat
  BY <1>2, LineFacts
<1>4. j \in Nat
  BY <1>3 DEF InPlace
<1>5. r.walk.npos[m] >= 1 /\ (r.walk.npos[m] = 1 => r.uid = HeadOf(links.nodes[m]))
  <2>1. r.walk.npos[m] = 1 \/ r.walk.npos[m] > 1
    BY DEF Called
  <2>2. r.walk.npos[m] \in 1 .. Len(links.nodes[m].plugins)
    BY DEF Called
  <2> QED
    BY <2>1, <2>2 DEF Called
<1>6. HeardFrom(links, r.walk, uid)
  <2>1. CASE /\ r.walk.pos = walk.pos /\ PlaceOf(r.walk) = PlaceOf(walk)
             /\ r.walk.npos[n] = walk.npos[n] + 1
    <3>1. m = n
      BY <2>1 DEF NodeAt
    <3>2. walk.npos[n] # 0
      <4> SUFFICES ASSUME walk.npos[n] = 0 PROVE FALSE
        OBVIOUS
      <4>1. j = 1
        BY DEF Heard
      <4>2. n = line[1]
        BY <4>1 DEF NodeAt
      <4>3. r.uid = HeadOf(links.nodes[n])
        BY <1>5, <2>1, <3>1
      <4> HIDE DEF n, line
      <4> QED
        BY <1>1, <1>3, <4>2, <4>3
    <3>3. HeardFrom(links, walk, uid)
      BY <3>2 DEF Heard
    <3> HIDE DEF n, m
    <3> QED
      BY <2>1, <3>1, <3>3 DEF HeardFrom, n, m
  <2>2. CASE /\ r.walk.pos = walk.pos /\ PlaceOf(r.walk) = PlaceOf(walk) + 1
             /\ r.walk.npos[m] = 1
             /\ Left(include)
    <3>1. HeardFrom(links, walk, uid)
      BY <2>2 DEF Heard, Left
    <3>2. PICK x \in 1 .. j : uid = HeadOf(links.nodes[line[x]]) /\ uid \in Detectors
      BY <3>1 DEF HeardFrom
    <3>3. x \in 1 .. PlaceOf(r.walk) /\ LineOf(links, r.walk.pos) = line
      BY <1>4, <2>2, <3>2
    <3>4. HeadOf(links.nodes[m]) \notin Detectors
      BY <1>1, <1>5, <2>2
    <3> HIDE DEF m, line
    <3> QED
      BY <3>2, <3>3, <3>4 DEF HeardFrom, m
  <2>3. CASE PlaceOf(r.walk) = 1 /\ r.walk.npos[m] = 1
    <3>1. r.walk.pos \in Nat /\ r.walk.pos < Len(links.pipelines)
      BY WalkFields DEF Called, InPlace
    <3>2. HeadOf(links.nodes[LineOf(links, r.walk.pos)[1]]) \in Detectors
      BY <3>1, LineFacts
    <3>3. m = LineOf(links, r.walk.pos)[1]
      BY <2>3 DEF NodeAt
    <3> HIDE DEF m
    <3> QED
      BY <1>1, <1>5, <2>3, <3>2, <3>3
  <2> QED
    BY <2>1, <2>2, <2>3 DEF Stepped
<1>7. r.walk.npos[m] # 0
  BY <1>5
<1> QED
  BY <1>6, <1>7 DEF Heard

LEMMA HeardInvKept == IInv /\ LinkedInv /\ WalkInv /\ HeardInv /\ [Next]_vars => HeardInv'
<1> SUFFICES ASSUME IInv, LinkedInv, WalkInv, HeardInv, [Next]_vars, PlainRequest',
                    phase' = "loop"
             PROVE  /\ resultUid' = NoPlugin \/ resultUid' \in DOMAIN storage'
                    /\ Heard(links', walk', resultUid')
  BY DEF HeardInv
<1>1. CASE BeginFrame
  <2>1. /\ UNCHANGED <<expr, links>> /\ walk' = ResetWalk(walk) /\ resultUid' = NoPlugin
    BY <1>1 DEF BeginFrame, ClearCache
  <2>2. PlainLinks(links) /\ walk.include \in BOOLEAN
    <3>1. PlainRequest
      BY <2>1 DEF PlainRequest
    <3> QED
      BY <3>1, PlainLinksHold, WalkFields DEF WalkInv
  <2>3. PlaceOf(walk') = 1 /\ walk'.npos[NodeAt(links, walk')] = 0
    BY <2>1, <2>2, BeginsUnderway DEF ResetWalk
  <2> QED
    BY <2>1, <2>3 DEF Heard
<1>2. CASE UseCached \/ ApplyEffect \/ RunDetector
  <2>1. phase = "loop" /\ walk' = Next1.walk /\ UNCHANGED <<expr, links>>
    BY <1>2 DEF UseCached, ApplyEffect, RunDetector
  <2>2. PlainRequest
    BY <2>1 DEF PlainRequest
  <2>3. PlainLinks(links) /\ verdict \in Verdicts /\ InPlace(links, walk, verdict)
        /\ ResultDetect \in BOOLEAN
    BY <2>1, <2>2, PlainLinksHold DEF WalkInv, Underway, Told
  <2>4. Next1.uid \in Plugins => Called(Next1, ResultDetect, verdict) /\ Stepped(Next1, ResultDetect)
    BY <2>1, <2>2, Next1Is, UidsApart DEF NextRight
  <2>5. CASE UseCached
    <3>1. Next1.uid \in DOMAIN storage /\ resultUid' = Next1.uid /\ UNCHANGED storage
      BY <2>5 DEF UseCached, Hit
    <3>2. Next1.uid \in Detectors
      BY <3>1 DEF IInv, CallTypes
    <3>3. Heard(links, Next1.walk, Next1.uid)
      BY <2>3, <2>4, <3>2, DetectorHeard DEF Plugins
    <3> QED
      BY <2>1, <3>1, <3>3
  <2>6. CASE RunDetector
    <3>1. Next1.uid \in Detectors /\ resultUid' = Next1.uid /\ Next1.uid \in DOMAIN storage'
      BY <2>6 DEF RunDetector, WriteCache
    <3>2. Heard(links, Next1.walk, Next1.uid)
      BY <2>3, <2>4, <3>1, DetectorHeard DEF Plugins
    <3> QED
      BY <2>1, <3>1, <3>2
  <2>7. CASE ApplyEffect
    <3>1. Next1.uid \in Effects /\ UNCHANGED <<storage, resultUid>>
      BY <2>7 DEF ApplyEffect, SetDetected
    <3>2. /\ resultUid = NoPlugin \/ resultUid \in DOMAIN storage
          /\ Heard(links, walk, resultUid)
      BY <2>1, <2>2 DEF HeardInv
    <3>3. Heard(links, Next1.walk, resultUid)
      BY <2>3, <2>4, <3>1, <3>2, EffectHeard DEF Plugins
    <3> QED
      BY <2>1, <3>1, <3>2, <3>3
  <2> QED
    BY <1>2, <2>5, <2>6, <2>7
<1>3. CASE UNCHANGED vars
  <2>1. UNCHANGED <<expr, links, walk, storage, resultUid, phase>>
    BY <1>3 DEF vars
  <2>2. PlainRequest /\ phase = "loop"
    BY <2>1 DEF PlainRequest
  <2> QED
    BY <2>1, <2>2 DEF HeardInv
<1>4. CASE EndFrame \/ DetectorFails \/ Interrupt \/ Register
  BY <1>4 DEF EndFrame, DetectorFails, Interrupt, Register
<1> QED
  BY <1>1, <1>2, <1>3, <1>4 DEF Next, InnerLoop


LEMMA HeardInvHolds == Spec => []HeardInv
<1>1. Init => HeardInv
  BY DEF Init, HeardInv, PlainRequest
<1> QED
  BY <1>1, HeardInvKept, WalkInvHolds, InductiveInvariant, LinkedInvHolds, PTL DEF Spec

\* The effect with the metadata of a detector is as the request has it.
RightFor(s, says, e, d) ==
    /\ \E i \in 1 .. Len(s) :
          /\ s[i] = e
          /\ IF Attached(s, i) /\ s[OperandOf(s, i)] \in Detectors
             THEN d = s[OperandOf(s, i)]
             ELSE \E j \in 1 .. i - 1 : d = s[j]
    /\ d \in Detectors /\ says[d]

EffectInv ==
    PlainRequest /\ (phase = "loop" \/ Appended) =>
        \A e \in DOMAIN detected : RightFor(expr, verdict, e, detected[e])

\* What the inner loop knows when nextPlugin() has named an effect.
LEMMA EffectNamed ==
    ASSUME IInv, LinkedInv, WalkInv, HeardInv, PlainRequest, phase = "loop",
           Next1.uid \in Effects
    PROVE  /\ PlainLinks(links) /\ verdict \in Verdicts
           /\ Called(Next1, ResultDetect, verdict) /\ Stepped(Next1, ResultDetect)
           /\ ResultDetect = TRUE
           /\ HeardFrom(links, Next1.walk, resultUid)
           /\ resultUid \in Detectors /\ verdict[resultUid] /\ ResultList = resultUid
<1>1. PlainLinks(links) /\ verdict \in Verdicts /\ InPlace(links, walk, verdict)
      /\ ResultDetect \in BOOLEAN
  BY PlainLinksHold DEF WalkInv, Underway, Told
<1>2. Called(Next1, ResultDetect, verdict) /\ Stepped(Next1, ResultDetect)
  BY Next1Is, UidsApart DEF NextRight, Plugins
<1>3. ResultDetect = TRUE
  BY <1>1, <1>2 DEF Called
<1>4. /\ resultUid = NoPlugin \/ resultUid \in DOMAIN storage
      /\ Heard(links, walk, resultUid)
  BY DEF HeardInv
<1>5. HeardFrom(links, Next1.walk, resultUid)
  BY <1>1, <1>2, <1>4, EffectHeard
<1>6. resultUid \in Detectors
  BY <1>5 DEF HeardFrom
<1>7. resultUid # NoPlugin /\ resultUid \in DOMAIN storage
  BY <1>4, <1>6, UidsApart DEF Plugins
<1>8. storage # NoOutcome
  BY <1>7 DEF NoOutcome
<1>9. ~CacheEmpty
  BY <1>7, <1>8 DEF CacheEmpty
<1>10. ResultList = resultUid /\ ResultDetect = storage[resultUid]
  BY <1>9 DEF ResultList, ResultDetect
<1>11. storage[resultUid] = verdict[resultUid]
  BY <1>6, <1>7 DEF IInv, StorageOfFrame
<1> QED
  BY <1>1, <1>2, <1>3, <1>5, <1>6, <1>10, <1>11

LEMMA EffectIsRight ==
    ASSUME IInv, LinkedInv, WalkInv, HeardInv, PlainRequest, phase = "loop",
           Next1.uid \in Effects
    PROVE  RightFor(expr, verdict, Next1.uid, resultUid)
<1> DEFINE wk == Next1.walk
           n == NodeAt(links, wk)
           k == wk.npos[n]
           line == LineOf(links, wk.pos)
           j == PlaceOf(wk)
           head == HeadOf(links.nodes[n])
<1>1. /\ PlainLinks(links) /\ HeardFrom(links, wk, resultUid)
      /\ resultUid \in Detectors /\ verdict[resultUid]
      /\ InPlace(links, wk, verdict) /\ k \in 1 .. Len(links.nodes[n].plugins)
      /\ Next1.uid = links.nodes[n].plugins[k]
  BY EffectNamed DEF Called
<1>2. wk.pos \in Nat /\ wk.pos < Len(links.pipelines) /\ j \in DOMAIN line /\ n = line[j]
  BY <1>1, WalkFields DEF InPlace, NodeAt
<1>3. /\ DOMAIN line = 1 .. Len(line) /\ Len(line) \in Nat
      /\ \A x \in DOMAIN line : line[x] \in DOMAIN links.nodes /\ line[x] \in Nat
      /\ \A x, y \in DOMAIN line : x < y => line[x] < line[y]
  BY <1>1, <1>2, LineFacts
<1>4. DOMAIN links.nodes = 1 .. Len(links.nodes) /\ Len(links.nodes) \in Nat
  BY <1>1 DEF PlainLinks
<1>5. Rooted(expr, Len(expr), links.nodes)
  BY PlainLinksHold
<1>6. PICK x \in 1 .. j : /\ resultUid = HeadOf(links.nodes[line[x]])
                          /\ head \in Detectors => x = j
  BY <1>1 DEF HeardFrom
<1> HIDE DEF wk, n, k, line, j, head
<1>7. n \in 1 .. Len(links.nodes) /\ x \in DOMAIN line /\ j \in Nat
  BY <1>2, <1>3, <1>4
<1>8. PICK i \in 1 .. Len(expr) : NamedAt(expr, links.nodes, n, k, i)
  BY <1>1, <1>5, <1>7 DEF Rooted
<1>9. /\ expr[i] = Next1.uid
      /\ k = 1 => IsOperand(expr, i)
      /\ k # 1 => Attached(expr, i) /\ expr[OperandOf(expr, i)] = head
      /\ \A h \in 1 .. n - 1 : \E y \in 1 .. i - 1 : expr[y] = HeadOf(links.nodes[h])
  BY <1>1, <1>8 DEF NamedAt, head
<1>10. CASE head \in Detectors
  <2>1. k # 1
    <3> SUFFICES ASSUME k = 1 PROVE FALSE
      OBVIOUS
    <3>1. Next1.uid = head
      BY <1>1 DEF head, HeadOf
    <3> QED
      BY <1>10, <3>1, PluginsDistinct
  <2>2. resultUid = head
    BY <1>2, <1>6, <1>10 DEF head
  <2> QED
    BY <1>1, <1>9, <1>10, <2>1, <2>2 DEF RightFor
<1>11. CASE head \notin Detectors
  <2>1. ~(Attached(expr, i) /\ expr[OperandOf(expr, i)] \in Detectors)
    BY <1>9, <1>11 DEF Attached
  <2>2. x # j
    BY <1>1, <1>2, <1>6, <1>11 DEF head
  <2>3. line[x] < n /\ line[x] \in Nat /\ n \in Nat
    BY <1>2, <1>3, <1>7, <2>2
  <2>4. line[x] \in 1 .. n - 1
    <3>1. line[x] \in 1 .. Len(links.nodes)
      BY <1>3, <1>4, <1>7
    <3> QED
      BY <2>3, <3>1
  <2>5. PICK y \in 1 .. i - 1 : expr[y] = resultUid
    BY <1>6, <1>9, <2>4
  <2> QED
    BY <1>1, <1>9, <2>1, <2>5 DEF RightFor
<1> QED
  BY <1>10, <1>11

LEMMA EffectInvKept ==
    IInv /\ LinkedInv /\ WalkInv /\ HeardInv /\ EffectInv /\ [Next]_vars => EffectInv'
<1> SUFFICES ASSUME IInv, LinkedInv, WalkInv, HeardInv, EffectInv, [Next]_vars, PlainRequest',
                    (phase = "loop" \/ Appended)', NEW e \in DOMAIN detected'
             PROVE  RightFor(expr', verdict', e, detected'[e])
  BY DEF EffectInv
<1>1. CASE BeginFrame
  BY <1>1 DEF BeginFrame, ClearCache, NoEffects
<1>2. CASE EndFrame \/ UseCached \/ RunDetector \/ UNCHANGED vars
  <2>1. UNCHANGED <<expr, detected, verdict>> /\ (phase = "loop" \/ Appended)
    BY <1>2 DEF EndFrame, UseCached, RunDetector, WriteCache, vars, cache, Appended
  <2> QED
    BY <2>1 DEF EffectInv, PlainRequest
<1>3. CASE ApplyEffect
  <2>1. /\ phase = "loop" /\ Next1.uid \in Effects /\ UNCHANGED <<expr, verdict>>
        /\ detected' = [d \in DOMAIN detected \cup {Next1.uid} |->
                           IF d = Next1.uid THEN ResultList ELSE detected[d]]
    BY <1>3 DEF ApplyEffect, SetDetected
  <2>2. PlainRequest
    BY <2>1 DEF PlainRequest
  <2>3. CASE e = Next1.uid
    <3>1. ResultList = resultUid /\ RightFor(expr, verdict, Next1.uid, resultUid)
      BY <2>1, <2>2, EffectNamed, EffectIsRight
    <3>2. detected'[e] = resultUid
      BY <2>1, <2>3, <3>1
    <3> QED
      BY <2>1, <2>3, <3>1, <3>2
  <2>4. CASE e # Next1.uid
    <3>1. e \in DOMAIN detected /\ detected'[e] = detected[e]
      BY <2>1, <2>4
    <3>2. RightFor(expr, verdict, e, detected[e])
      BY <2>1, <2>2, <3>1 DEF EffectInv
    <3> QED
      BY <2>1, <3>1, <3>2
  <2> QED
    BY <2>3, <2>4
<1>4. CASE DetectorFails \/ Interrupt
  BY <1>4 DEF DetectorFails, Interrupt, Appended
<1>5. CASE Register
  BY <1>5 DEF Register, Appended, WalkInv
<1> QED
  BY <1>1, <1>2, <1>3, <1>4, <1>5 DEF Next, InnerLoop

LEMMA EffectInvHolds == Spec => []EffectInv
<1>1. Init => EffectInv
  BY DEF Init, EffectInv, PlainRequest
<1> QED
  BY <1>1, EffectInvKept, HeardInvHolds, WalkInvHolds, InductiveInvariant, LinkedInvHolds, PTL
     DEF Spec

----
(* That no effect is left out of a request without "&". *)

\* A node whose detector says yes has had all its effects applied.
Drawn(nodes, says, seen, m) ==
    says[HeadOf(nodes[m])] =>
        \A l \in 2 .. Len(nodes[m].plugins) : nodes[m].plugins[l] \in seen

\* The nodes of the pipelines before the current one are drawn, or were skipped because
\* nothing is attached to them; of the current node, the effects up to where the walk is.
DrawnInv ==
    PlainRequest /\ OnlyOr(expr) =>
        /\ phase = "loop" =>
              /\ \A m \in 1 .. walk.pos : Drawn(links.nodes, verdict, DOMAIN detected, m)
              /\ LET n == NodeAt(links, walk) IN
                 \A l \in 2 .. walk.npos[n] : links.nodes[n].plugins[l] \in DOMAIN detected
        /\ Appended =>
              \A m \in 1 .. Len(links.nodes) : Drawn(links.nodes, verdict, DOMAIN detected, m)

\* The pipelines of a request without "&" have one node each.
LEMMA OrPlace ==
    ASSUME LinkedInv, PlainRequest, OnlyOr(expr), NEW says, NEW wk, InPlace(links, wk, says)
    PROVE  /\ wk.pos \in Nat /\ wk.pos < Len(links.nodes) /\ PlaceOf(wk) = 1
           /\ NodeAt(links, wk) = wk.pos + 1
<1>1. PlainLinks(links) /\ OrShape(expr, links.nodes, links.pipelines)
  BY PlainLinksHold
<1>2. wk.pos \in Nat /\ wk.pos < Len(links.pipelines) /\ PlaceOf(wk) \in DOMAIN LineOf(links, wk.pos)
  BY WalkFields DEF InPlace
<1>3. /\ Len(links.pipelines) = Len(links.nodes) /\ Len(links.nodes) \in Nat
      /\ \A m \in 1 .. Len(links.nodes) : links.pipelines[m].nodes = <<m>>
  BY <1>1 DEF OrShape, PlainLinks
<1>4. wk.pos + 1 \in 1 .. Len(links.nodes)
  BY <1>2, <1>3
<1>5. LineOf(links, wk.pos) = <<wk.pos + 1>>
  BY <1>3, <1>4 DEF LineOf
<1>6. PlaceOf(wk) = 1 /\ NodeAt(links, wk) = wk.pos + 1
  BY <1>2, <1>5 DEF NodeAt
<1> QED
  BY <1>2, <1>3, <1>6

\* When the walk leaves a node, what is before the next essential pipeline is drawn.
LEMMA LeftIsDrawn ==
    ASSUME LinkedInv, WalkInv, PlainRequest, OnlyOr(expr), phase = "loop",
           Left(ResultDetect), NEW seen,
           \A m \in 1 .. walk.pos : Drawn(links.nodes, verdict, seen, m),
           LET n == NodeAt(links, walk) IN
               \A l \in 2 .. walk.npos[n] : links.nodes[n].plugins[l] \in seen,
           NEW q \in Nat, q <= Len(links.nodes),
           \A y \in walk.pos + 1 .. q - 1 : ~Pipeline(y).essential
    PROVE  \A m \in 1 .. q : Drawn(links.nodes, verdict, seen, m)
<1> DEFINE n == walk.pos + 1
           node == links.nodes[n]
           k == walk.npos[n]
<1>1. /\ PlainLinks(links) /\ OrShape(expr, links.nodes, links.pipelines)
      /\ verdict \in Verdicts /\ InPlace(links, walk, verdict)
      /\ Told(links.nodes[NodeAt(links, walk)], walk.npos[NodeAt(links, walk)],
              verdict, ResultDetect)
  BY PlainLinksHold DEF WalkInv, Underway
<1>2. /\ walk.pos \in Nat /\ walk.pos < Len(links.nodes) /\ NodeAt(links, walk) = n
  BY <1>1, OrPlace
<1>3. /\ Len(links.nodes) \in Nat
      /\ \A m \in 1 .. Len(links.nodes) :
            /\ HeadOf(links.nodes[m]) \in Detectors
            /\ m > 1 /\ Len(links.nodes[m].plugins) > 1 => links.pipelines[m].essential
  BY <1>1 DEF OrShape, PlainLinks
<1>4. DOMAIN links.nodes = 1 .. Len(links.nodes)
  BY <1>1 DEF PlainLinks
<1>5. n \in 1 .. Len(links.nodes) /\ n \in DOMAIN links.nodes
  BY <1>2, <1>3, <1>4
<1>6. k \in Nat /\ Len(node.plugins) \in Nat
  <2>1. walk.npos \in [DOMAIN links.nodes -> Nat]
    BY <1>1, WalkFields DEF InPlace
  <2> QED
    BY <1>1, <1>5, <2>1, NodeFacts
<1>7. Drawn(links.nodes, verdict, seen, n)
  <2> SUFFICES ASSUME verdict[HeadOf(node)], NEW l \in 2 .. Len(node.plugins)
               PROVE  node.plugins[l] \in seen
    BY DEF Drawn
  <2>1. Affirmed(node, verdict)
    BY DEF Affirmed
  <2>2. k # 0 /\ ((k = 1 /\ ~ResultDetect) \/ k >= Len(node.plugins))
    BY <1>2 DEF Left
  <2>3. k = 1 => ResultDetect
    BY <1>1, <1>2, <2>1 DEF Told
  <2>4. k >= Len(node.plugins)
    BY <2>2, <2>3
  <2>5. \A x \in 2 .. k : node.plugins[x] \in seen
    BY <1>2
  <2> HIDE DEF k, node
  <2> QED
    BY <1>6, <2>4, <2>5
<1>8. ASSUME NEW m \in 1 .. q PROVE Drawn(links.nodes, verdict, seen, m)
  <2>1. CASE m <= walk.pos
    BY <1>2, <2>1
  <2>2. CASE m = n
    BY <1>7, <2>2
  <2>3. CASE m > n
    <3>1. m - 1 \in walk.pos + 1 .. q - 1 /\ (m - 1) + 1 = m /\ m > 1
      BY <1>2, <2>3
    <3>2. ~links.pipelines[m].essential
      BY <3>1 DEF Pipeline
    <3>3. m \in 1 .. Len(links.nodes)
      BY <1>3
    <3>4. ~(Len(links.nodes[m].plugins) > 1)
      BY <1>3, <3>1, <3>2, <3>3
    <3>5. Len(links.nodes[m].plugins) \in Nat
      BY <1>1, <1>4, <3>3, NodeFacts
    <3>6. \A l \in 2 .. Len(links.nodes[m].plugins) : FALSE
      BY <3>4, <3>5
    <3> QED
      BY <3>6 DEF Drawn
  <2> QED
    BY <1>2, <2>1, <2>2, <2>3
<1> QED
  BY <1>8

\* A plugin is named: what is applied by then.
LEMMA NamedIsDrawn ==
    ASSUME LinkedInv, WalkInv, DrawnInv, PlainRequest, OnlyOr(expr), phase = "loop",
           Called(Next1, ResultDetect, verdict), Stepped(Next1, ResultDetect),
           NEW seen, DOMAIN detected \subseteq seen, Next1.uid \in Effects => Next1.uid \in seen
    PROVE  LET wk == Next1.walk
               n == NodeAt(links, wk)
           IN /\ \A m \in 1 .. wk.pos : Drawn(links.nodes, verdict, seen, m)
              /\ \A l \in 2 .. wk.npos[n] : links.nodes[n].plugins[l] \in seen
<1> DEFINE wk == Next1.walk
           n == NodeAt(links, wk)
           here == NodeAt(links, walk)
<1>1. InPlace(links, walk, verdict) /\ InPlace(links, wk, verdict)
  BY DEF WalkInv, Underway, Called
<1>2. /\ walk.pos \in Nat /\ walk.pos < Len(links.nodes) /\ here = walk.pos + 1
      /\ PlaceOf(walk) = 1
      /\ wk.pos \in Nat /\ wk.pos < Len(links.nodes) /\ n = wk.pos + 1 /\ PlaceOf(wk) = 1
  BY <1>1, OrPlace
<1>3. /\ \A m \in 1 .. walk.pos : Drawn(links.nodes, verdict, seen, m)
      /\ \A l \in 2 .. walk.npos[here] : links.nodes[here].plugins[l] \in seen
  BY DEF DrawnInv, Drawn
<1>4. /\ wk.npos[n] \in 1 .. Len(links.nodes[n].plugins)
      /\ wk.npos[n] > 1 => links.nodes[n].plugins[wk.npos[n]] \in seen
  BY DEF Called
<1>5. walk.npos[here] \in Nat
  <2>1. here \in DOMAIN links.nodes /\ walk.npos \in [DOMAIN links.nodes -> Nat]
    <3>1. DOMAIN links.nodes = 1 .. Len(links.nodes) /\ Len(links.nodes) \in Nat
      BY PlainLinksHold DEF PlainLinks
    <3>2. walk.npos \in [DOMAIN links.nodes -> Nat]
      BY <1>1, WalkFields DEF InPlace
    <3> QED
      BY <1>2, <3>1, <3>2
  <2> QED
    BY <2>1
<1>6. CASE wk.pos = walk.pos /\ wk.npos[here] = walk.npos[here] + 1
  <2>1. n = here
    BY <1>2, <1>6
  <2>2. ASSUME NEW l \in 2 .. wk.npos[n] PROVE links.nodes[n].plugins[l] \in seen
    <3>1. CASE l = wk.npos[n]
      BY <1>4, <3>1
    <3>2. CASE l # wk.npos[n]
      <4>1. wk.npos[n] = walk.npos[here] + 1
        BY <1>6, <2>1
      <4>2. l \in 2 .. walk.npos[here]
        BY <1>5, <3>2, <4>1
      <4> QED
        BY <1>3, <2>1, <4>2
    <3> QED
      BY <3>1, <3>2
  <2> QED
    BY <1>3, <1>6, <2>2
<1>7. CASE /\ wk.pos > walk.pos /\ wk.npos[n] = 1 /\ Left(ResultDetect)
           /\ \A y \in walk.pos + 1 .. wk.pos - 1 : ~Pipeline(y).essential
  <2>1. \A m \in 1 .. wk.pos : Drawn(links.nodes, verdict, seen, m)
    <3> DEFINE q == wk.pos
    <3>1. q \in Nat /\ q <= Len(links.nodes)
      <4>1. Len(links.nodes) \in Nat
        BY PlainLinksHold DEF PlainLinks
      <4> QED
        BY <1>2, <4>1
    <3>2. \A y \in walk.pos + 1 .. q - 1 : ~Pipeline(y).essential
      BY <1>7
    <3> HIDE DEF q
    <3>3. \A m \in 1 .. q : Drawn(links.nodes, verdict, seen, m)
      BY <1>3, <1>7, <3>1, <3>2, LeftIsDrawn
    <3> QED
      BY <3>3 DEF q
  <2>2. \A l \in 2 .. wk.npos[n] : FALSE
    BY <1>7
  <2> QED
    BY <2>1, <2>2
<1>8. PlaceOf(wk) # PlaceOf(walk) + 1
  BY <1>2
<1> QED
  BY <1>6, <1>7, <1>8 DEF Stepped

LEMMA DrawnInvKept ==
    IInv /\ LinkedInv /\ WalkInv /\ DrawnInv /\ [Next]_vars => DrawnInv'
<1> SUFFICES ASSUME IInv, LinkedInv, WalkInv, DrawnInv, [Next]_vars, PlainRequest',
                    OnlyOr(expr)'
             PROVE  /\ phase' = "loop" =>
                          LET n == NodeAt(links', walk') IN
                          /\ \A m \in 1 .. walk'.pos :
                                Drawn(links'.nodes, verdict', DOMAIN detected', m)
                          /\ \A l \in 2 .. walk'.npos[n] :
                                links'.nodes[n].plugins[l] \in DOMAIN detected'
                    /\ Appended' =>
                          \A m \in 1 .. Len(links'.nodes) :
                              Drawn(links'.nodes, verdict', DOMAIN detected', m)
  BY DEF DrawnInv
<1>1. CASE BeginFrame
  <2>1. /\ UNCHANGED <<expr, links>> /\ walk' = ResetWalk(walk) /\ phase' = "loop"
    BY <1>1 DEF BeginFrame
  <2>2. PlainLinks(links) /\ walk.include \in BOOLEAN
    <3>1. PlainRequest
      BY <2>1 DEF PlainRequest
    <3> QED
      BY <3>1, PlainLinksHold, WalkFields DEF WalkInv
  <2>3. walk'.pos = 0 /\ walk'.npos[NodeAt(links, walk')] = 0
    BY <2>1, <2>2, BeginsUnderway DEF ResetWalk
  <2>4. ~Appended'
    BY <2>1 DEF Appended
  <2> QED
    BY <2>1, <2>3, <2>4
<1>2. CASE UseCached \/ ApplyEffect \/ RunDetector
  <2>1. /\ phase = "loop" /\ phase' = "loop" /\ walk' = Next1.walk
        /\ UNCHANGED <<expr, links, verdict>>
        /\ Next1.uid \in Plugins
        /\ DOMAIN detected \subseteq DOMAIN detected'
        /\ Next1.uid \in Effects => Next1.uid \in DOMAIN detected'
    <3>1. CASE UseCached
      BY <3>1, PluginsDistinct DEF UseCached, Hit, IInv, CallTypes, Plugins
    <3>2. CASE RunDetector
      BY <3>2, PluginsDistinct DEF RunDetector, WriteCache, Plugins
    <3>3. CASE ApplyEffect
      BY <3>3 DEF ApplyEffect, SetDetected, Plugins
    <3> QED
      BY <1>2, <3>1, <3>2, <3>3
  <2>2. PlainRequest /\ OnlyOr(expr)
    BY <2>1 DEF PlainRequest
  <2>3. Called(Next1, ResultDetect, verdict) /\ Stepped(Next1, ResultDetect)
    BY <2>1, <2>2, Next1Is, UidsApart DEF NextRight
  <2>4. ~Appended'
    BY <2>1 DEF Appended
  <2> DEFINE seen == DOMAIN detected'
  <2>5. DOMAIN detected \subseteq seen /\ (Next1.uid \in Effects => Next1.uid \in seen)
    BY <2>1
  <2> HIDE DEF seen
  <2>6. LET n == NodeAt(links, Next1.walk) IN
        /\ \A m \in 1 .. Next1.walk.pos : Drawn(links.nodes, verdict, seen, m)
        /\ \A l \in 2 .. Next1.walk.npos[n] : links.nodes[n].plugins[l] \in seen
    BY <2>1, <2>2, <2>3, <2>5, NamedIsDrawn
  <2> QED
    BY <2>1, <2>4, <2>6 DEF seen
<1>3. CASE EndFrame
  <2>1. /\ phase = "loop" /\ phase' = "between" /\ Next1.uid = EOP
        /\ UNCHANGED <<expr, links, verdict, detected>>
    BY <1>3 DEF EndFrame, cache
  <2>2. PlainRequest /\ OnlyOr(expr)
    BY <2>1 DEF PlainRequest
  <2>3. /\ Left(ResultDetect)
        /\ \A y \in walk.pos + 1 .. PipelineCount - 1 : ~Pipeline(y).essential
    <3>1. NextRight(Next1, ResultDetect, verdict)
      BY <2>1, <2>2, Next1Is
    <3>2. ~Called(Next1, ResultDetect, verdict)
      BY <2>1, UidsApart DEF Called
    <3> QED
      BY <3>1, <3>2 DEF NextRight
  <2>4. PipelineCount = Len(links.nodes) /\ Len(links.nodes) \in Nat
    BY <2>2, PlainLinksHold DEF OrShape, PlainLinks, PipelineCount
  <2>5. \A m \in 1 .. Len(links.nodes) : Drawn(links.nodes, verdict, DOMAIN detected, m)
    <3> DEFINE q == Len(links.nodes)
    <3>1. q \in Nat /\ q <= Len(links.nodes)
          /\ \A y \in walk.pos + 1 .. q - 1 : ~Pipeline(y).essential
      BY <2>3, <2>4
    <3>2. LET n == NodeAt(links, walk) IN
          /\ \A m \in 1 .. walk.pos : Drawn(links.nodes, verdict, DOMAIN detected, m)
          /\ \A l \in 2 .. walk.npos[n] : links.nodes[n].plugins[l] \in DOMAIN detected
      BY <2>1, <2>2 DEF DrawnInv
    <3> DEFINE seen == DOMAIN detected
    <3> HIDE DEF q, seen
    <3>3. \A m \in 1 .. q : Drawn(links.nodes, verdict, seen, m)
      BY <2>1, <2>2, <2>3, <3>1, <3>2, LeftIsDrawn DEF seen
    <3> QED
      BY <3>3 DEF q, seen
  <2> QED
    BY <2>1, <2>5
<1>4. CASE DetectorFails \/ Interrupt
  BY <1>4 DEF DetectorFails, Interrupt, Appended
<1>5. CASE Register
  BY <1>5 DEF Register, Appended, WalkInv
<1>6. CASE UNCHANGED vars
  <2>1. UNCHANGED <<expr, links, walk, detected, phase, verdict>> /\ (Appended' <=> Appended)
    BY <1>6 DEF vars, Appended
  <2>2. PlainRequest /\ OnlyOr(expr)
    BY <2>1 DEF PlainRequest
  <2> QED
    BY <2>1, <2>2 DEF DrawnInv
<1> QED
  BY <1>1, <1>2, <1>3, <1>4, <1>5, <1>6 DEF Next, InnerLoop

LEMMA DrawnInvHolds == Spec => []DrawnInv
<1>1. Init => DrawnInv
  BY DEF Init, DrawnInv, PlainRequest
<1> QED
  BY <1>1, DrawnInvKept, WalkInvHolds, InductiveInvariant, LinkedInvHolds, PTL DEF Spec

\* The effects of a frame are those that the request attaches to detectors that said yes,
\* each with the metadata of its own detector, whatever the order of the pipelines and the
\* cache; without "&" none of them is left out.  For every plain request.
THEOREM EffectsRightHolds == Spec => []EffectsRight
<1>1. LinkedInv /\ WalkInv /\ EffectInv => EffectsOfDetected
  <2> SUFFICES ASSUME LinkedInv, WalkInv, EffectInv, AppendedPlain, NEW e \in DOMAIN detected
               PROVE  \E i \in 1 .. Len(expr) :
                          /\ expr[i] = e
                          /\ IF Attached(expr, i) /\ expr[OperandOf(expr, i)] \in Detectors
                             THEN detected[e] = expr[OperandOf(expr, i)]
                             ELSE \E j \in 1 .. i - 1 : detected[e] = expr[j]
                          /\ detected[e] \in Detectors /\ verdict[detected[e]]
    BY DEF EffectsOfDetected
  <2>1. PlainRequest /\ Appended
    BY DEF AppendedPlain, Appended, WalkInv, PlainRequest
  <2>2. RightFor(expr, verdict, e, detected[e])
    BY <2>1 DEF EffectInv
  <2> QED
    BY <2>2 DEF RightFor
<1>2. LinkedInv /\ WalkInv /\ DrawnInv => EffectsComplete
  <2> SUFFICES ASSUME LinkedInv, WalkInv, DrawnInv, AppendedPlain, OnlyOr(expr),
                      NEW i \in 1 .. Len(expr), Attached(expr, i),
                      verdict[expr[OperandOf(expr, i)]]
               PROVE  expr[i] \in DOMAIN detected
    BY DEF EffectsComplete
  <2>1. PlainRequest /\ Appended
    BY DEF AppendedPlain, Appended, WalkInv, PlainRequest
  <2>2. Kept(expr, links.nodes, i)
    BY <2>1, PlainLinksHold DEF Rooted
  <2>3. PICK m \in 1 .. Len(links.nodes) : \E l \in 2 .. Len(links.nodes[m].plugins) :
            /\ links.nodes[m].plugins[l] = expr[i]
            /\ expr[OperandOf(expr, i)] = HeadOf(links.nodes[m])
    BY <2>2 DEF Kept
  <2>4. Drawn(links.nodes, verdict, DOMAIN detected, m)
    BY <2>1 DEF DrawnInv
  <2> QED
    BY <2>3, <2>4 DEF Drawn
<1>3. LinkedInv /\ WalkInv /\ EffectInv /\ DrawnInv => EffectsRight
  BY <1>1, <1>2 DEF EffectsRight
<1> QED
  BY <1>3, EffectInvHolds, DrawnInvHolds, WalkInvHolds, LinkedInvHolds, PTL

----
(* The walk of any accepted request, plain or not. *)

\* What runAnalysis builds of it, unless it has met a null node: no pipeline is empty.
BuiltLinks(l) ==
    /\ l.nodes \in Seq(NodesOf) /\ l.nodes # <<>>
    /\ l.pipelines \in Seq(PipelinesOf(l.nodes)) /\ l.pipelines # <<>>
    /\ \A i \in DOMAIN l.pipelines : l.pipelines[i].nodes # <<>>

\* No plugin among the first k tokens.
NoneSoFar(s, k) == k = 0 \/ (s[1] = Uncut /\ (k = 1 \/ (k = 2 /\ s[2] = ":")))

LinesFull(s, k, p) ==
    /\ p.nodes = <<>> => NoneSoFar(s, k)
    /\ p.nodes # <<>> => \A i \in DOMAIN p.pipelines : p.pipelines[i].nodes # <<>>

\* The operator before a plugin; there is none only before the first.
LEMMA AnyOperatorIs ==
    ASSUME NEW s, ValidLogic(s), NEW k \in 1 .. Len(s), s[k] \in Plugins,
           NEW p, ParsedUpTo(s, k - 1, p)
    PROVE  /\ p.op \in {"&", "|", ":", "none"}
           /\ p.op = "none" => p.nodes = <<>> /\ p.pipelines = NothingParsed.pipelines
           /\ NoneSoFar(s, k - 1) => p.op \in {"none", ":"}
<1>0. Len(s) \in Nat /\ k \in Nat
  BY TokensInPlace
<1>1. CASE k = 1
  BY <1>1 DEF ParsedUpTo
<1>2. CASE k > 1
  <2>1. k - 1 \in 1 .. Len(s) /\ s[k - 1] \in Operators \cup {Uncut}
    BY <1>0, <1>2, TokensInPlace, TokensApart
  <2>2. CASE s[k - 1] \in Operators
    <3>1. p.op = s[k - 1]
      BY <1>0, <1>2, <2>1, <2>2, TokensApart DEF ParsedUpTo
    <3>2. NoneSoFar(s, k - 1) => s[k - 1] = ":"
      BY <1>0, <1>2, <2>2, TokensApart DEF NoneSoFar
    <3> QED
      BY <3>1, <3>2, <2>2 DEF Operators
  <2>3. CASE s[k - 1] = Uncut /\ k = 2
    BY <2>3, TokensApart DEF ParsedUpTo
  <2>4. CASE s[k - 1] = Uncut /\ k > 2
    <3>0. (k - 1) - 1 = k - 2 /\ k - 1 # 0 /\ k - 1 > 1
      BY <1>0, <2>4
    <3>1. s[k - 2] \in Operators
      BY <2>1, <2>4, <3>0, TokensInPlace
    <3>2. p.op = s[k - 2]
      BY <2>4, <3>0, TokensApart DEF ParsedUpTo
    <3>3. ~NoneSoFar(s, k - 1)
      BY <2>4, <3>0, TokensApart DEF NoneSoFar, Uncut
    <3> QED
      BY <3>1, <3>2, <3>3 DEF Operators
  <2> QED
    BY <1>0, <1>2, <2>1, <2>2, <2>3, <2>4
<1> QED
  BY <1>0, <1>1, <1>2

\* A plugin leaves no pipeline empty.
LEMMA AnyPluginStep ==
    ASSUME NEW s, ValidLogic(s), NEW k \in 1 .. Len(s), s[k] \in Plugins,
           NEW p, BuiltOf(p), ParsedUpTo(s, k - 1, p), LinesFull(s, k - 1, p),
           ParseToken(p, s[k]).null = FALSE
    PROVE  LET q == ParseToken(p, s[k]) IN
           BuiltOf(q) /\ ParsedUpTo(s, k, q) /\ LinesFull(s, k, q)
<1> DEFINE uid == s[k]
           q == ParseToken(p, uid)
           n == Len(p.nodes) + 1
           node == NewNode(uid, p.cut)
           more == Append(p.nodes, node)
           says == [d \in Detectors |-> TRUE]
<1>1. /\ Len(s) \in Nat /\ k \in Nat \ {0} /\ uid \notin Operators /\ uid # Uncut
  BY TokensInPlace, TokensApart
<1>2. /\ p.op \in {"&", "|", ":", "none"}
      /\ p.op = "none" => p.nodes = <<>> /\ p.pipelines = NothingParsed.pipelines
      /\ NoneSoFar(s, k - 1) => p.op \in {"none", ":"}
  BY AnyOperatorIs
<1>3. /\ p.nodes \in Seq(NodesOf) /\ p.pipelines \in Seq(PipelinesOf(p.nodes)) /\ p.pipelines # <<>>
      /\ p.cut \in BOOLEAN
  BY DEF BuiltOf
<1>4. PICK nodes, pls :
          /\ Built(p, uid, nodes, pls)
          /\ q = [nodes |-> nodes, pipelines |-> pls, op |-> "none", cut |-> TRUE, null |-> p.null]
  BY <1>2, PluginBuilds
<1>5. node \in NodesOf
  BY <1>3 DEF NewNode, NodesOf
<1>7. more \in Seq(NodesOf) /\ more # <<>>
  BY <1>3, <1>5
<1>8. p.op \in {"&", "|"} => \A i \in DOMAIN p.pipelines : p.pipelines[i].nodes # <<>>
  BY <1>2 DEF LinesFull
<1>9. ASSUME NEW i \in DOMAIN p.pipelines
      PROVE  /\ p.pipelines[i] \in PipelinesOf(p.nodes)
             /\ p.pipelines[i].nodes \in Seq(DOMAIN p.nodes)
  <2>1. p.pipelines[i] \in PipelinesOf(p.nodes)
    BY <1>3, ElementOfSeq
  <2> QED
    BY <2>1 DEF PipelinesOf
<1>10. /\ nodes \in Seq(NodesOf) /\ nodes # <<>>
       /\ pls \in Seq(PipelinesOf(nodes)) /\ pls # <<>>
       /\ \A i \in DOMAIN pls : pls[i].nodes # <<>>
  <2> HIDE DEF q, node, says
  <2>1. CASE p.op = "&"
    <3>1. nodes = more /\ pls = PushAll(p.pipelines, n)
      BY <1>4, <2>1 DEF Built, node
    <3>2. pls \in Seq(PipelinesOf(nodes)) /\ pls # <<>>
      BY <1>3, <1>5, <3>1, AndSays
    <3>3. DOMAIN pls = DOMAIN p.pipelines
          /\ \A i \in DOMAIN pls : pls[i] = [p.pipelines[i] EXCEPT !.nodes = Append(@, n)]
      BY <3>1 DEF PushAll
    <3>4. ASSUME NEW i \in DOMAIN pls PROVE pls[i].nodes # <<>>
      <4>1. pls[i].nodes = Append(p.pipelines[i].nodes, n)
        BY <1>9, <3>3 DEF PipelinesOf
      <4>2. p.pipelines[i].nodes \in Seq(DOMAIN p.nodes)
        BY <1>9, <3>3
      <4> DEFINE line == p.pipelines[i].nodes
      <4> HIDE DEF n, line
      <4>3. Append(line, n) # <<>>
        BY <4>2 DEF line
      <4> QED
        BY <4>1, <4>3 DEF line
    <3> HIDE DEF more
    <3> QED
      BY <1>7, <3>1, <3>2, <3>4
  <2>2. CASE p.op = "|"
    <3>1. nodes = more /\ pls = Append(p.pipelines, NewPipeline(n))
      BY <1>4, <2>2 DEF Built, node
    <3>2. pls \in Seq(PipelinesOf(nodes)) /\ pls # <<>>
      BY <1>3, <1>5, <3>1, OrSays
    <3>3. NewPipeline(n).nodes = <<n>>
      BY DEF NewPipeline
    <3> DEFINE new == NewPipeline(n)
    <3> HIDE DEF more, n, new
    <3>4. ASSUME NEW i \in DOMAIN pls PROVE pls[i].nodes # <<>>
      <4>1. pls = Append(p.pipelines, new)
        BY <3>1 DEF new
      <4>2. (i \in DOMAIN p.pipelines /\ pls[i] = p.pipelines[i]) \/ pls[i] = new
        BY <1>3, <4>1
      <4>3. <<n>> # <<>>
        OBVIOUS
      <4> QED
        BY <1>8, <2>2, <3>3, <4>2, <4>3 DEF new
    <3> QED
      BY <1>7, <3>1, <3>2, <3>4
  <2>3. CASE p.op = ":"
    <3>1. /\ p.nodes # <<>> /\ nodes = Attach(p.nodes, uid)
          /\ pls = MarkEssential(p.pipelines)
      BY <1>4, <2>3 DEF Built
    <3>2. /\ nodes \in Seq(NodesOf) /\ nodes # <<>>
          /\ pls \in Seq(PipelinesOf(nodes)) /\ pls # <<>>
      BY <1>3, <3>1, ColonSays DEF Attach
    <3>3. DOMAIN pls = DOMAIN p.pipelines
          /\ \A i \in DOMAIN p.pipelines : pls[i].nodes = p.pipelines[i].nodes
      BY <1>3, <3>1, MarkedIs
    <3>4. \A i \in DOMAIN p.pipelines : p.pipelines[i].nodes # <<>>
      BY <3>1 DEF LinesFull
    <3> QED
      BY <3>2, <3>3, <3>4
  <2>4. CASE p.op = "none"
    <3>1. nodes = more /\ pls = FirstPipelines(p.pipelines, n)
      BY <1>4, <2>4 DEF Built, node
    <3>2. pls \in Seq(PipelinesOf(nodes)) /\ pls # <<>>
      BY <1>2, <1>5, <2>4, <3>1, FirstSays DEF FirstPipelines
    <3>3. pls = PushAll(p.pipelines, n)
      <4>1. p.pipelines = <<[nodes |-> <<>>, essential |-> FALSE]>>
        BY <1>2, <2>4 DEF NothingParsed
      <4>2. Len(p.pipelines) = 1 /\ DOMAIN p.pipelines = {1}
        BY <4>1
      <4> DEFINE old == p.pipelines
      <4> HIDE DEF n, old
      <4>3. [old EXCEPT ![1].nodes = Append(@, n)] = [i \in DOMAIN old |-> [old[i] EXCEPT !.nodes = Append(@, n)]]
        BY <4>2 DEF old
      <4> QED
        BY <3>1, <4>2, <4>3 DEF FirstPipelines, PushAll, old
    <3>4. ASSUME NEW i \in DOMAIN pls PROVE pls[i].nodes # <<>>
      <4>0. DOMAIN pls = DOMAIN p.pipelines
            /\ \A h \in DOMAIN pls : pls[h] = [p.pipelines[h] EXCEPT !.nodes = Append(@, n)]
        BY <3>3 DEF PushAll
      <4>1. pls[i].nodes = Append(p.pipelines[i].nodes, n)
        BY <1>9, <4>0 DEF PipelinesOf
      <4>2. p.pipelines[i].nodes \in Seq(DOMAIN p.nodes)
        BY <1>9, <4>0
      <4> DEFINE line == p.pipelines[i].nodes
      <4> HIDE DEF n, line
      <4>3. Append(line, n) # <<>>
        BY <4>2 DEF line
      <4> QED
        BY <4>1, <4>3 DEF line
    <3> HIDE DEF more
    <3> QED
      BY <1>7, <3>1, <3>2, <3>4
  <2> QED
    BY <1>2, <2>1, <2>2, <2>3, <2>4
<1> HIDE DEF q
<1>11. q.nodes = nodes /\ q.pipelines = pls /\ q.op = "none" /\ q.cut = TRUE
  BY <1>4
<1>12. BuiltOf(q)
  BY <1>4, <1>10 DEF BuiltOf, IsParser
<1>13. ParsedUpTo(s, k, q)
  BY <1>1, <1>11 DEF ParsedUpTo
<1> QED
  BY <1>10, <1>11, <1>12, <1>13 DEF LinesFull, q

\* Only "~", and ":" behind it, come before the first plugin.
LEMMA NoneSoFarStep ==
    ASSUME NEW s, ValidLogic(s), NEW k \in 1 .. Len(s), s[k] \notin Plugins, NoneSoFar(s, k - 1)
    PROVE  NoneSoFar(s, k)
<1>0. Len(s) \in Nat /\ k \in Nat
  BY TokensInPlace
<1>1. CASE k = 1
  BY <1>1, TokensInPlace, TokensApart DEF NoneSoFar
<1>2. CASE k > 1 /\ s[1] = Uncut /\ k = 2
  <2>1. s[2] # Uncut
    <3>1. k - 1 = 1 /\ s[k - 1] = Uncut
      BY <1>2
    <3> QED
      BY <1>0, <1>2, <3>1, TokensInPlace, TokensApart
  <2>2. s[2] \in Operators
    BY <1>2, <2>1, TokensInPlace
  <2>3. s[2] = ":"
    <3>1. k - 1 = 1 /\ s[k - 1] = Uncut
      BY <1>2
    <3> QED
      BY <1>2, <2>2, <3>1, TokensInPlace
  <2> QED
    BY <1>2, <2>3 DEF NoneSoFar
<1>3. CASE k > 1 /\ s[1] = Uncut /\ k = 3 /\ s[2] = ":"
  <2>1. s[3] \notin Operators
    <3>1. k - 1 = 2 /\ s[k - 1] \in Operators
      BY <1>3 DEF Operators
    <3> QED
      BY <1>3, <3>1, TokensInPlace
  <2>2. s[3] = Uncut
    BY <1>3, <2>1, TokensInPlace
  <2>3. UncutPending(s, 3)
    <3>1. 1 \in 1 .. 3 - 1 /\ \A m \in 1 + 1 .. 3 - 1 : m = 2
      OBVIOUS
    <3>2. s[2] \notin Effects
      BY <1>3, TokensApart DEF Operators, Plugins
    <3> QED
      BY <1>3, <3>1, <3>2 DEF UncutPending
  <2>4. ~UncutPending(s, 3)
    BY <1>3, <2>1, <2>2 DEF ValidLogic
  <2> QED
    BY <2>3, <2>4
<1> QED
  BY <1>0, <1>1, <1>2, <1>3 DEF NoneSoFar

\* Whatever request is accepted, what is built of it is fit to be walked.
LEMMA ParseBuilds ==
    ASSUME NEW s, ValidLogic(s), ~UsesNullNode(s)
    PROVE  BuiltLinks(Parse(s))
<1> DEFINE at(k) == Parsing(s)[k]
           Fit(k) == /\ IsParser(at(k))
                     /\ \/ at(k).null = TRUE
                        \/ /\ at(k).null = FALSE
                           /\ BuiltOf(at(k)) /\ ParsedUpTo(s, k, at(k)) /\ LinesFull(s, k, at(k))
           wrong == {k \in 0 .. Len(s) : ~Fit(k)}
<1>1. Len(s) \in Nat /\ Len(s) \in 1 .. Len(s) /\ s[Len(s)] \notin Operators \cup {Uncut}
  BY DEF ValidLogic
<1>2. at(0) = NothingParsed /\ \A i \in 1 .. Len(s) : at(i) = ParseToken(at(i - 1), s[i])
  BY <1>1, ParsingSteps
<1> HIDE DEF at
<1>4. Fit(0)
  <2> DEFINE pl == [nodes |-> <<>>, essential |-> FALSE]
  <2>1. at(0) = [nodes |-> <<>>, pipelines |-> <<pl>>, op |-> "none", cut |-> TRUE, null |-> FALSE]
    BY <1>2 DEF NothingParsed
  <2>2. pl \in PipelinesOf(<<>>)
    BY DEF PipelinesOf
  <2> HIDE DEF pl
  <2>3. IsParser(at(0)) /\ at(0).cut = TRUE /\ at(0).null = FALSE
        /\ at(0).nodes = <<>> /\ at(0).pipelines = <<pl>>
    BY <2>1 DEF IsParser
  <2>4. <<pl>> \in Seq(PipelinesOf(<<>>)) /\ <<pl>> # <<>> /\ <<>> \in Seq(NodesOf)
    BY <2>2
  <2>5. BuiltOf(at(0))
    BY <2>3, <2>4 DEF BuiltOf
  <2>6. ParsedUpTo(s, 0, at(0))
    BY <1>2, <2>1 DEF ParsedUpTo
  <2>7. LinesFull(s, 0, at(0))
    BY <2>3 DEF LinesFull, NoneSoFar
  <2> QED
    BY <2>3, <2>5, <2>6, <2>7
<1>5. ASSUME NEW k \in 1 .. Len(s), Fit(k - 1) PROVE Fit(k)
  <2>1. at(k) = ParseToken(at(k - 1), s[k])
    BY <1>2
  <2>2. CASE at(k - 1).null = TRUE
    BY <1>5, <2>1, <2>2, ParserStays
  <2>3. CASE at(k - 1).null = FALSE /\ s[k] \notin Plugins
    <3> DEFINE p == at(k - 1)
    <3>1. BuiltOf(p) /\ ParsedUpTo(s, k - 1, p) /\ LinesFull(s, k - 1, p) /\ p.null = FALSE
      BY <1>5, <2>3
    <3> HIDE DEF p
    <3> DEFINE q == ParseToken(p, s[k])
    <3>2. /\ BuiltOf(q) /\ ParsedUpTo(s, k, q)
          /\ q.nodes = p.nodes /\ q.pipelines = p.pipelines /\ q.null = p.null
      BY <2>3, <3>1, NoPluginStep
    <3> HIDE DEF q
    <3>3. LinesFull(s, k, q)
      BY <2>3, <3>1, <3>2, NoneSoFarStep DEF LinesFull
    <3>4. IsParser(q) /\ q.null = FALSE
      BY <3>1, <3>2 DEF BuiltOf
    <3> QED
      BY <2>1, <3>2, <3>3, <3>4 DEF p, q
  <2>4. CASE at(k - 1).null = FALSE /\ s[k] \in Plugins
    <3>1. IsParser(at(k)) /\ at(k).null \in {FALSE, TRUE}
      <4>1. IsParser(at(k)) /\ at(k).null \in {at(k - 1).null, TRUE}
        BY <1>5, <2>1, ParserStays
      <4> QED
        BY <2>4, <4>1
    <3>2. CASE at(k).null = FALSE
      BY <1>5, <2>1, <2>4, <3>1, <3>2, AnyPluginStep
    <3> QED
      BY <3>1, <3>2
  <2> QED
    BY <1>5, <2>2, <2>3, <2>4
<1> HIDE DEF Fit
<1>6. wrong = {}
  <2> SUFFICES ASSUME wrong # {} PROVE FALSE
    OBVIOUS
  <2>1. wrong \in SUBSET Nat
    OBVIOUS
  <2>2. PICK k \in wrong : \A l \in wrong : k <= l
    <3> HIDE DEF wrong
    <3> QED
      BY <2>1, LeastNumber
  <2>3. k \in 1 .. Len(s) /\ k - 1 \notin wrong /\ k - 1 \in 0 .. Len(s)
    BY <1>1, <1>4, <2>2
  <2> QED
    BY <1>5, <2>2, <2>3
<1>7. Len(s) \in 0 .. Len(s) /\ Fit(Len(s))
  BY <1>1, <1>6
<1>8. ~at(Len(s)).null
  BY DEF UsesNullNode, at
<1> DEFINE p == at(Len(s))
<1>9. BuiltOf(p) /\ LinesFull(s, Len(s), p)
  BY <1>7, <1>8 DEF Fit
<1>10. ~NoneSoFar(s, Len(s))
  BY <1>1 DEF NoneSoFar, Operators
<1>11. Parse(s).nodes = p.nodes /\ Parse(s).pipelines = p.pipelines
  BY DEF Parse, at
<1> HIDE DEF p
<1> QED
  BY <1>9, <1>10, <1>11 DEF LinesFull, BuiltOf, BuiltLinks

\* In a walk between two plugins the positions are those of a pipeline, of a node in it
\* and of a plugin of that node.
Within(l, wk) ==
    /\ wk \in WalksOf(l)
    /\ wk.pos < Len(l.pipelines)
    /\ PlaceOf(wk) \in DOMAIN LineOf(l, wk.pos)

PlacesFit(l, wk) == \A n \in DOMAIN l.nodes : wk.npos[n] <= Len(l.nodes[n].plugins)

LEMMA BuiltNode ==
    ASSUME NEW l, BuiltLinks(l), NEW n \in DOMAIN l.nodes
    PROVE  LET node == l.nodes[n] IN
           /\ node.plugins \in Seq(Plugins) /\ Len(node.plugins) \in Nat \ {0}
           /\ node.cut \in BOOLEAN /\ node.plugins[1] \in Plugins
<1> DEFINE node == l.nodes[n]
<1>1. node \in NodesOf
  BY ElementOfSeq DEF BuiltLinks
<1> HIDE DEF node
<1>2. node.plugins \in Seq(Plugins) /\ node.plugins # <<>> /\ node.cut \in BOOLEAN
  BY <1>1 DEF NodesOf
<1>3. Len(node.plugins) \in Nat \ {0} /\ 1 \in 1 .. Len(node.plugins)
  BY <1>2, EmptySeq
<1>4. node.plugins[1] \in Plugins
  BY <1>2, <1>3, ElementOfSeq
<1> QED
  BY <1>2, <1>3, <1>4 DEF node

LEMMA BuiltLine ==
    ASSUME NEW l, BuiltLinks(l), NEW i \in Nat, i < Len(l.pipelines)
    PROVE  LET line == LineOf(l, i) IN
           /\ i + 1 \in DOMAIN l.pipelines /\ line = l.pipelines[i + 1].nodes
           /\ Len(line) \in Nat \ {0} /\ DOMAIN line = 1 .. Len(line)
           /\ \A x \in DOMAIN line : line[x] \in DOMAIN l.nodes
<1> DEFINE line == LineOf(l, i)
<1>1. l.pipelines \in Seq(PipelinesOf(l.nodes)) /\ Len(l.pipelines) \in Nat
  BY DEF BuiltLinks
<1>2. i + 1 \in DOMAIN l.pipelines /\ line = l.pipelines[i + 1].nodes
  BY <1>1 DEF LineOf
<1>3. l.pipelines[i + 1] \in PipelinesOf(l.nodes)
  BY <1>1, <1>2, ElementOfSeq
<1>4. line \in Seq(DOMAIN l.nodes) /\ line # <<>>
  BY <1>2, <1>3 DEF PipelinesOf, BuiltLinks
<1> HIDE DEF line
<1>5. Len(line) \in Nat \ {0} /\ DOMAIN line = 1 .. Len(line)
  BY <1>4, EmptySeq
<1>6. \A x \in DOMAIN line : line[x] \in DOMAIN l.nodes
  BY <1>4, ElementOfSeq
<1> QED
  BY <1>2, <1>5, <1>6 DEF line

\* A node gives its next plugin, or nothing.
LEMMA PopNodeGives ==
    ASSUME BuiltLinks(links), NEW wk \in WalksOf(links), PlacesFit(links, wk),
           NEW n \in DOMAIN links.nodes
    PROVE  LET r == PopNode(wk, n) IN
           \/ r.uid = NoPlugin /\ r.walk = wk
           \/ /\ r.uid \in Plugins
              /\ r.walk \in WalksOf(links) /\ PlacesFit(links, r.walk)
              /\ r.walk.pos = wk.pos /\ r.walk.ppos = wk.ppos
              /\ r.walk.npos[n] = wk.npos[n] + 1
<1> DEFINE r == PopNode(wk, n)
           plugins == links.nodes[n].plugins
<1>1. plugins \in Seq(Plugins) /\ Len(plugins) \in Nat
  BY BuiltNode
<1>2. wk.npos \in [DOMAIN links.nodes -> Nat]
  BY WalkFields
<1>3. CASE wk.live[n] /\ wk.npos[n] < Len(plugins)
  <2>1. /\ r.uid \in Plugins /\ r.walk \in WalksOf(links)
        /\ r.walk.pos = wk.pos /\ r.walk.ppos = wk.ppos
        /\ \A m \in DOMAIN links.nodes : m # n => r.walk.npos[m] = wk.npos[m]
        /\ r.walk.npos[n] = wk.npos[n] + 1
    BY <1>1, <1>3, PopNodeIs
  <2>2. wk.npos[n] + 1 <= Len(plugins)
    <3>1. wk.npos[n] \in Nat
      BY <1>2
    <3> QED
      BY <1>1, <1>3, <3>1
  <2> HIDE DEF r
  <2>3. PlacesFit(links, r.walk)
    BY <2>1, <2>2 DEF PlacesFit
  <2> QED
    BY <2>1, <2>3 DEF r
<1>4. CASE ~(wk.live[n] /\ wk.npos[n] < Len(plugins))
  <2>1. r = [walk |-> wk, uid |-> NoPlugin]
    BY <1>4 DEF PopNode
  <2> QED
    BY <2>1
<1> QED
  BY <1>3, <1>4

\* Walk b has come further than walk a: in the pipelines, in the pipeline or in the node.
Further(a, b) ==
    \/ a.pos < b.pos
    \/ a.pos = b.pos /\ a.ppos[a.pos + 1] < b.ppos[b.pos + 1]
    \/ /\ a.pos = b.pos /\ a.ppos = b.ppos
       /\ a.npos[CurrentNode(a)] < b.npos[CurrentNode(b)]

\* A pipeline gives a plugin further on, or nothing, and stays.
LEMMA PopPipelineGives ==
    ASSUME BuiltLinks(links), NEW wk, Within(links, wk), PlacesFit(links, wk)
    PROVE  LET r == PopPipeline(wk) IN
           /\ r.walk \in WalksOf(links) /\ PlacesFit(links, r.walk) /\ r.walk.pos = wk.pos
           /\ \/ r.uid \in {EOPP, NoPlugin}
              \/ r.uid \in Plugins /\ Within(links, r.walk) /\ Further(wk, r.walk)
<1> DEFINE n == NodeAt(links, wk)
           line == LineOf(links, wk.pos)
           here == PopNode(wk, n)
           moved == [wk EXCEPT !.ppos[wk.pos + 1] = @ + 1]
           there == PopNode(moved, CurrentNode(moved))
           r == PopPipeline(wk)
<1>1. /\ wk \in WalksOf(links) /\ wk.pos \in Nat /\ wk.pos < Len(links.pipelines)
      /\ wk.npos \in [DOMAIN links.nodes -> Nat] /\ wk.ppos \in [DOMAIN links.pipelines -> Nat]
  BY WalkFields DEF Within
<1>2. /\ wk.pos + 1 \in DOMAIN links.pipelines /\ line = Pipeline(wk.pos).nodes
      /\ Len(line) \in Nat /\ DOMAIN line = 1 .. Len(line)
      /\ \A x \in DOMAIN line : line[x] \in DOMAIN links.nodes
  BY <1>1, BuiltLine DEF Pipeline
<1>3. PlaceOf(wk) \in DOMAIN line /\ n = line[PlaceOf(wk)] /\ wk.ppos[wk.pos + 1] \in Nat
  BY <1>1, <1>2 DEF Within, NodeAt
<1>4. n \in DOMAIN links.nodes /\ CurrentNode(wk) = n
  BY <1>2, <1>3 DEF CurrentNode, PlaceOf
<1>5. r = IF ~wk.include THEN [walk |-> wk, uid |-> NoPlugin]
          ELSE IF here.uid # NoPlugin THEN here
          ELSE IF moved.ppos[wk.pos + 1] >= Len(line) THEN [walk |-> moved, uid |-> EOPP]
          ELSE there
  BY <1>2, <1>4, Zenon DEF PopPipeline
<1>6. \/ here.uid = NoPlugin
      \/ /\ here.uid \in Plugins
         /\ here.walk \in WalksOf(links) /\ PlacesFit(links, here.walk)
         /\ here.walk.pos = wk.pos /\ here.walk.ppos = wk.ppos
         /\ here.walk.npos[n] = wk.npos[n] + 1
  <2> HIDE DEF n
  <2> QED
    BY <1>1, <1>4, PopNodeGives
<1>7. /\ moved \in WalksOf(links) /\ moved.pos = wk.pos /\ moved.npos = wk.npos
      /\ moved.ppos[wk.pos + 1] = wk.ppos[wk.pos + 1] + 1
  BY <1>1, <1>2, MovedIs
<1> HIDE DEF moved, here, r, n, there, line
<1>8. PlacesFit(links, moved)
  BY <1>7 DEF PlacesFit
<1>9. CASE ~wk.include
  <2>1. r.walk = wk /\ r.uid = NoPlugin
    BY <1>5, <1>9
  <2> QED
    BY <1>1, <2>1 DEF r
<1>10. CASE wk.include /\ here.uid # NoPlugin
  <2>1. r = here
    BY <1>5, <1>10
  <2>2. Further(wk, here.walk)
    <3>1. wk.npos[n] \in Nat
      BY <1>1, <1>4
    <3>2. /\ here.walk.pos = wk.pos /\ here.walk.ppos = wk.ppos
          /\ here.walk.npos[n] = wk.npos[n] + 1
      BY <1>6, <1>10
    <3>3. wk.npos[n] < here.walk.npos[n]
      BY <3>1, <3>2
    <3>4. wk.npos[CurrentNode(wk)] < here.walk.npos[CurrentNode(wk)]
      BY <1>4, <3>3
    <3>6. CurrentNode(here.walk) = CurrentNode(wk)
      BY <3>2 DEF CurrentNode
    <3>5. /\ wk.pos = here.walk.pos /\ wk.ppos = here.walk.ppos
          /\ wk.npos[CurrentNode(wk)] < here.walk.npos[CurrentNode(wk)]
      BY <3>2, <3>4
    <3> QED
      BY <3>5, <3>6 DEF Further
  <2>3. Within(links, here.walk)
    <3>1. PlaceOf(here.walk) = PlaceOf(wk)
      BY <1>6, <1>10 DEF PlaceOf
    <3> QED
      BY <1>1, <1>3, <1>6, <1>10, <3>1 DEF Within, line
  <2> QED
    BY <1>6, <1>10, <2>1, <2>2, <2>3 DEF r
<1>11. CASE wk.include /\ here.uid = NoPlugin /\ moved.ppos[wk.pos + 1] >= Len(line)
  <2>1. r = [walk |-> moved, uid |-> EOPP]
    BY <1>5, <1>11
  <2>2. r.walk = moved /\ r.uid = EOPP
    BY <2>1
  <2> QED
    BY <1>7, <1>8, <2>2 DEF r
<1>12. CASE wk.include /\ here.uid = NoPlugin /\ ~(moved.ppos[wk.pos + 1] >= Len(line))
  <2>1. r = there
    BY <1>5, <1>12
  <2> DEFINE m == CurrentNode(moved)
  <2>2. /\ moved.pos + 1 = wk.pos + 1
        /\ PlaceOf(moved) = wk.ppos[wk.pos + 1] + 2 /\ PlaceOf(moved) \in DOMAIN line
        /\ m = line[PlaceOf(moved)]
    <3>1. PlaceOf(moved) = wk.ppos[wk.pos + 1] + 2
      BY <1>3, <1>7 DEF PlaceOf
    <3>2. wk.ppos[wk.pos + 1] + 2 \in 1 .. Len(line)
      BY <1>2, <1>3, <1>7, <1>12
    <3>3. m = Pipeline(wk.pos).nodes[PlaceOf(moved)]
      BY <1>7 DEF CurrentNode, PlaceOf
    <3> QED
      BY <1>2, <1>7, <3>1, <3>2, <3>3
  <2>3. m \in DOMAIN links.nodes
    BY <1>2, <2>2
  <2>4. \/ there.uid = NoPlugin /\ there.walk = moved
        \/ /\ there.uid \in Plugins
           /\ there.walk \in WalksOf(links) /\ PlacesFit(links, there.walk)
           /\ there.walk.pos = moved.pos /\ there.walk.ppos = moved.ppos
    <3> HIDE DEF m
    <3>1. there = PopNode(moved, m)
      BY DEF there, m
    <3> QED
      BY <1>7, <1>8, <2>3, <3>1, PopNodeGives
  <2>5. CASE there.uid = NoPlugin /\ there.walk = moved
    BY <1>7, <1>8, <2>1, <2>5 DEF r
  <2>6. CASE /\ there.uid \in Plugins
             /\ there.walk \in WalksOf(links) /\ PlacesFit(links, there.walk)
             /\ there.walk.pos = moved.pos /\ there.walk.ppos = moved.ppos
    <3>1. Further(wk, there.walk)
      BY <1>3, <1>7, <2>6 DEF Further
    <3>2. PlaceOf(there.walk) = PlaceOf(moved)
      BY <2>6 DEF PlaceOf
    <3>3. Within(links, there.walk)
      BY <1>1, <1>7, <2>2, <2>6, <3>2 DEF Within, line
    <3> QED
      BY <1>7, <2>1, <2>6, <3>1, <3>3 DEF r
  <2> QED
    BY <2>4, <2>5, <2>6
<1> QED
  BY <1>9, <1>10, <1>11, <1>12

\* Entering a pipeline names a plugin of its first node.
LEMMA EnterGives ==
    ASSUME BuiltLinks(links), NEW wk \in WalksOf(links), PlacesFit(links, wk),
           NEW i \in Nat, i < Len(links.pipelines)
    PROVE  LET r == EnterPipeline(wk, i) IN
           /\ r.uid \in Plugins /\ r.walk.pos = i
           /\ Within(links, r.walk) /\ PlacesFit(links, r.walk)
<1> DEFINE r == EnterPipeline(wk, i)
           line == LineOf(links, i)
           nodes == Range(line)
           first == line[1]
           pp2 == [wk.ppos EXCEPT ![i + 1] = 0]
           np2 == [n \in DOMAIN wk.npos |->
                      IF n = first THEN 1 ELSE IF n \in nodes THEN 0 ELSE wk.npos[n]]
           lv2 == [n \in DOMAIN wk.live |-> n \in nodes \/ wk.live[n]]
           yes == TRUE
<1>1. PICK p \in Nat, inc \in BOOLEAN, pp \in [DOMAIN links.pipelines -> Nat],
           np \in [DOMAIN links.nodes -> Nat], l \in [DOMAIN links.nodes -> BOOLEAN] :
           wk = [pos |-> p, include |-> inc, ppos |-> pp, npos |-> np, live |-> l]
  BY WalkParts
<1>2. wk.pos = p /\ wk.include = inc /\ wk.ppos = pp /\ wk.npos = np /\ wk.live = l
  BY <1>1
<1>3. /\ i + 1 \in DOMAIN links.pipelines /\ line = Pipeline(i).nodes
      /\ Len(line) \in Nat \ {0} /\ DOMAIN line = 1 .. Len(line)
      /\ \A x \in DOMAIN line : line[x] \in DOMAIN links.nodes
  <2> HIDE DEF line
  <2> QED
    BY BuiltLine DEF Pipeline, line
<1>4. 1 \in DOMAIN line /\ first \in DOMAIN links.nodes
  BY <1>3
<1> HIDE DEF line, nodes
<1>5. Len(links.nodes[first].plugins) \in Nat \ {0} /\ links.nodes[first].plugins[1] \in Plugins
  <2> HIDE DEF first
  <2> QED
    BY <1>4, BuiltNode
<1>6. pp2 \in [DOMAIN links.pipelines -> Nat] /\ pp2[i + 1] = 0
  BY <1>2, <1>3
<1>7. /\ np2 \in [DOMAIN links.nodes -> Nat]
      /\ \A n \in DOMAIN links.nodes : np2[n] = 1 \/ np2[n] = 0 \/ np2[n] = wk.npos[n]
  <2>1. DOMAIN wk.npos = DOMAIN links.nodes /\ \A n \in DOMAIN links.nodes : wk.npos[n] \in Nat
    BY <1>2
  <2> HIDE DEF first
  <2> QED
    BY <2>1
<1>8. lv2 \in [DOMAIN links.nodes -> BOOLEAN]
  BY <1>2
<1>9. r.walk = [wk EXCEPT !.pos = i, !.include = yes, !.ppos = pp2, !.npos = np2, !.live = lv2]
      /\ r.uid = links.nodes[first].plugins[1]
  <2>1. line = Pipeline(i).nodes /\ nodes = Range(Pipeline(i).nodes)
    BY <1>3 DEF nodes
  <2> QED
    BY <2>1 DEF EnterPipeline
<1>10. r.walk = [pos |-> i, include |-> yes, ppos |-> pp2, npos |-> np2, live |-> lv2]
  <2> DEFINE q == r.walk
  <2>1. q = [wk EXCEPT !.pos = i, !.include = yes, !.ppos = pp2, !.npos = np2, !.live = lv2]
    BY <1>9
  <2> HIDE DEF q, pp2, np2, lv2, yes
  <2>2. q = [pos |-> i, include |-> yes, ppos |-> pp2, npos |-> np2, live |-> lv2]
    BY <1>1, <2>1
  <2> QED
    BY <2>2 DEF q
<1>11. r.walk \in WalksOf(links) /\ r.walk.pos = i /\ r.walk.ppos = pp2 /\ r.walk.npos = np2
  <2> DEFINE q == r.walk
  <2>1. yes \in BOOLEAN
    OBVIOUS
  <2>2. q = [pos |-> i, include |-> yes, ppos |-> pp2, npos |-> np2, live |-> lv2]
    BY <1>10
  <2>3. /\ pp2 \in [DOMAIN links.pipelines -> Nat] /\ np2 \in [DOMAIN links.nodes -> Nat]
        /\ lv2 \in [DOMAIN links.nodes -> BOOLEAN]
    BY <1>6, <1>7, <1>8
  <2> HIDE DEF q, pp2, np2, lv2, yes
  <2>4. q \in WalksOf(links) /\ q.pos = i /\ q.ppos = pp2 /\ q.npos = np2
    BY <2>1, <2>2, <2>3, WalkOfFields
  <2> QED
    BY <2>4 DEF q
<1>12. r.uid \in Plugins
  BY <1>5, <1>9
<1> HIDE DEF r, pp2, np2, lv2, first
<1>13. Within(links, r.walk)
  <2>1. PlaceOf(r.walk) = 1 /\ LineOf(links, r.walk.pos) = line
    BY <1>6, <1>11 DEF PlaceOf, line
  <2> QED
    BY <1>4, <1>11, <2>1 DEF Within
<1>14. PlacesFit(links, r.walk)
  <2>1. ASSUME NEW n \in DOMAIN links.nodes PROVE np2[n] <= Len(links.nodes[n].plugins)
    <3>1. Len(links.nodes[n].plugins) \in Nat \ {0} /\ wk.npos[n] <= Len(links.nodes[n].plugins)
      BY BuiltNode DEF PlacesFit
    <3>2. np2[n] = 1 \/ np2[n] = 0 \/ np2[n] = wk.npos[n]
      BY <1>7
    <3> QED
      BY <3>1, <3>2
  <2> QED
    BY <1>11, <2>1 DEF PlacesFit
<1> QED
  BY <1>11, <1>12, <1>13, <1>14 DEF r

\* At the end of the walk there is no pipeline.
LEMMA EndGives ==
    ASSUME NEW wk \in WalksOf(links), PipelineCount \in Nat
    PROVE  /\ EndOfWalk(wk).uid = EOP /\ EndOfWalk(wk).walk \in WalksOf(links)
           /\ EndOfWalk(wk).walk.pos = PipelineCount /\ EndOfWalk(wk).walk.npos = wk.npos
<1> DEFINE q == EndOfWalk(wk).walk
           z == PipelineCount
<1>1. PICK p \in Nat, i \in BOOLEAN, pp \in [DOMAIN links.pipelines -> Nat],
           np \in [DOMAIN links.nodes -> Nat], l \in [DOMAIN links.nodes -> BOOLEAN] :
           wk = [pos |-> p, include |-> i, ppos |-> pp, npos |-> np, live |-> l]
  BY WalkParts
<1>2. wk.npos = np
  BY <1>1
<1>3. q = [wk EXCEPT !.pos = z] /\ EndOfWalk(wk).uid = EOP
  BY DEF EndOfWalk
<1>4. q = [pos |-> z, include |-> i, ppos |-> pp, npos |-> np, live |-> l]
  <2> HIDE DEF q, z
  <2> QED
    BY <1>1, <1>3
<1>5. q \in WalksOf(links) /\ q.pos = z /\ q.npos = np
  <2>1. z \in Nat
    OBVIOUS
  <2> HIDE DEF q, z
  <2> QED
    BY <1>4, <2>1, WalkOfFields
<1> QED
  BY <1>2, <1>3, <1>5

\* nextPlugin() names a plugin further on in the walk, or ends it.
Onward(r) ==
    /\ r.walk \in WalksOf(links) /\ PlacesFit(links, r.walk)
    /\ Further(walk, r.walk)
    /\ \/ r.uid \in Plugins /\ Within(links, r.walk)
       \/ r.uid = EOP

LEMMA NextGoesOn ==
    ASSUME BuiltLinks(links), Within(links, walk), PlacesFit(links, walk), NEW include \in BOOLEAN
    PROVE  Onward(NextPlugin(include))
<1> DEFINE n == NodeAt(links, walk)
           q == Post(walk, include)
           p == PopPipeline(q)
           r == NextPlugin(include)
           least(S) == CHOOSE j \in S : \A k \in S : j <= k
           later == IF p.uid = EOPP THEN EssentialAfter(walk.pos)
                    ELSE walk.pos + 1 .. PipelineCount - 1
<1>1. /\ walk \in WalksOf(links) /\ walk.pos \in Nat /\ walk.pos < Len(links.pipelines)
      /\ PipelineCount = Len(links.pipelines) /\ PipelineCount \in Nat
  BY WalkFields DEF Within, BuiltLinks, PipelineCount
<1>2. n \in DOMAIN links.nodes /\ CurrentNode(walk) = n
  <2>1. /\ \A x \in DOMAIN LineOf(links, walk.pos) : LineOf(links, walk.pos)[x] \in DOMAIN links.nodes
        /\ LineOf(links, walk.pos) = Pipeline(walk.pos).nodes
    BY <1>1, BuiltLine DEF Pipeline
  <2> QED
    BY <2>1 DEF Within, NodeAt, CurrentNode, PlaceOf
<1>3. /\ q \in WalksOf(links) /\ q.pos = walk.pos /\ q.ppos = walk.ppos /\ q.npos = walk.npos
  <2>1. links.nodes[n].cut \in BOOLEAN
    BY <1>2, BuiltNode
  <2> HIDE DEF n
  <2> QED
    BY <1>1, <1>2, <2>1, PostIs
<1> HIDE DEF q, n
<1>4. Within(links, q) /\ PlacesFit(links, q) /\ CurrentNode(q) = CurrentNode(walk)
  BY <1>3 DEF Within, PlacesFit, PlaceOf, CurrentNode
<1>5. /\ p.walk \in WalksOf(links) /\ PlacesFit(links, p.walk) /\ p.walk.pos = walk.pos
      /\ \/ p.uid \in {EOPP, NoPlugin}
         \/ p.uid \in Plugins /\ Within(links, p.walk) /\ Further(q, p.walk)
  BY <1>3, <1>4, PopPipelineGives
<1>6. r = IF p.uid \notin {EOPP, NoPlugin} THEN p
          ELSE IF later = {} THEN EndOfWalk(p.walk)
          ELSE EnterPipeline(p.walk, least(later))
  BY DEF NextPlugin, q
<1> HIDE DEF p, r
<1>7. CASE p.uid \notin {EOPP, NoPlugin}
  <2>1. r = p
    BY <1>6, <1>7
  <2>2. Further(walk, p.walk)
    BY <1>3, <1>4, <1>5, <1>7 DEF Further
  <2> QED
    BY <1>5, <1>7, <2>1, <2>2 DEF Onward, r
<1>8. CASE p.uid \in {EOPP, NoPlugin} /\ later = {}
  <2>1. r = EndOfWalk(p.walk)
    BY <1>6, <1>8
  <2>2. /\ r.uid = EOP /\ r.walk \in WalksOf(links) /\ r.walk.pos = PipelineCount
        /\ r.walk.npos = p.walk.npos
    BY <1>1, <1>5, <2>1, EndGives
  <2>3. Further(walk, r.walk)
    BY <1>1, <2>2 DEF Further
  <2>4. PlacesFit(links, r.walk)
    BY <1>5, <2>2 DEF PlacesFit
  <2> QED
    BY <2>2, <2>3, <2>4 DEF Onward, r
<1>9. CASE p.uid \in {EOPP, NoPlugin} /\ later # {}
  <2>1. later \subseteq walk.pos + 1 .. PipelineCount - 1
    BY DEF EssentialAfter
  <2>2. later \in SUBSET Nat
    <3>1. walk.pos + 1 .. PipelineCount - 1 \subseteq Nat
      BY <1>1
    <3> QED
      BY <2>1, <3>1
  <2> DEFINE i == least(later)
  <2> HIDE DEF later
  <2>3. \E j \in later : \A k \in later : j <= k
    BY <1>9, <2>2, LeastNumber
  <2>4. i \in later
    BY <2>3
  <2>5. r = EnterPipeline(p.walk, i)
    BY <1>6, <1>9
  <2> HIDE DEF i
  <2>6. i \in Nat /\ walk.pos < i /\ i < Len(links.pipelines)
    <3>1. i \in walk.pos + 1 .. PipelineCount - 1
      BY <2>1, <2>4
    <3> QED
      BY <1>1, <3>1
  <2>7. /\ r.uid \in Plugins /\ r.walk.pos = i
        /\ Within(links, r.walk) /\ PlacesFit(links, r.walk)
    BY <1>5, <2>5, <2>6, EnterGives
  <2>8. Further(walk, r.walk)
    BY <2>6, <2>7 DEF Further
  <2> QED
    BY <2>7, <2>8 DEF Onward, Within, r
<1> QED
  BY <1>7, <1>8, <1>9

----
(* What every variable may hold, for all requests, and that the inner loop goes on. *)

CacheTypes ==
    /\ DOMAIN storage \subseteq Detectors
    /\ \A d \in DOMAIN storage : storage[d] \in BOOLEAN
    /\ resultUid = NoPlugin \/ resultUid \in DOMAIN storage
    /\ DOMAIN detected \subseteq Effects
    /\ \A e \in DOMAIN detected : detected[e] \in Detectors \cup {NoPlugin}

WalkTypes ==
    /\ walk \in WalksOf(links)
    /\ expr # <<>> => BuiltLinks(links) /\ PlacesFit(links, walk)
    /\ phase = "loop" => expr # <<>> /\ Within(links, walk)

TypeOK ==
    /\ phase \in {"between", "loop", "stopped", "crashed"}
    /\ frames \in 0 .. MaxFrames
    /\ failed \in BOOLEAN
    /\ verdict \in Verdicts
    /\ calls \in [Detectors -> Nat]
    /\ LinkedInv /\ CacheTypes /\ WalkTypes

LEMMA ResultIsBoolean ==
    ASSUME CacheTypes
    PROVE  ResultDetect \in BOOLEAN
  BY DEF CacheTypes, ResultDetect, CacheEmpty

LEMMA StartsFit ==
    ASSUME NEW l
    PROVE  StartOfWalk(l) \in WalksOf(l) /\ (BuiltLinks(l) => PlacesFit(l, StartOfWalk(l)))
<1> DEFINE pp == [i \in DOMAIN l.pipelines |-> 0]
           np == [n \in DOMAIN l.nodes |-> 0]
           lv == [n \in DOMAIN l.nodes |-> TRUE]
           no == FALSE
           wk == StartOfWalk(l)
<1>1. wk = [pos |-> 0, include |-> no, ppos |-> pp, npos |-> np, live |-> lv]
  BY DEF StartOfWalk
<1>2. /\ pp \in [DOMAIN l.pipelines -> Nat] /\ np \in [DOMAIN l.nodes -> Nat]
      /\ lv \in [DOMAIN l.nodes -> BOOLEAN] /\ no \in BOOLEAN
  OBVIOUS
<1> HIDE DEF pp, np, lv, no, wk
<1>3. wk \in WalksOf(l) /\ wk.npos = np
  BY <1>1, <1>2, WalkOfFields
<1>4. ASSUME BuiltLinks(l), NEW n \in DOMAIN l.nodes PROVE np[n] <= Len(l.nodes[n].plugins)
  BY <1>4, BuiltNode DEF np
<1> QED
  BY <1>3, <1>4 DEF PlacesFit, wk

\* A frame begins at the first node of the first pipeline.
LEMMA BeginsWithin ==
    ASSUME BuiltLinks(links), NEW include \in BOOLEAN
    PROVE  LET wk == [StartOfWalk(links) EXCEPT !.include = include] IN
           Within(links, wk) /\ PlacesFit(links, wk)
<1> DEFINE wk == [StartOfWalk(links) EXCEPT !.include = include]
<1>1. /\ wk \in WalksOf(links) /\ wk.pos = 0 /\ wk.ppos = [i \in DOMAIN links.pipelines |-> 0]
      /\ wk.npos = [m \in DOMAIN links.nodes |-> 0]
  BY StartIs
<1>2. 0 < Len(links.pipelines)
  <2>1. links.pipelines \in Seq(PipelinesOf(links.nodes)) /\ links.pipelines # <<>>
    BY DEF BuiltLinks
  <2>2. Len(links.pipelines) \in Nat /\ Len(links.pipelines) # 0
    BY <2>1, EmptySeq
  <2> QED
    BY <2>2
<1>3. 0 + 1 \in DOMAIN links.pipelines /\ 1 \in DOMAIN LineOf(links, 0)
  <2>1. /\ 0 + 1 \in DOMAIN links.pipelines /\ Len(LineOf(links, 0)) \in Nat \ {0}
        /\ DOMAIN LineOf(links, 0) = 1 .. Len(LineOf(links, 0))
    BY <1>2, BuiltLine
  <2> QED
    BY <2>1
<1> HIDE DEF wk
<1>4. PlaceOf(wk) = 1
  BY <1>1, <1>3 DEF PlaceOf
<1>5. ASSUME NEW n \in DOMAIN links.nodes PROVE wk.npos[n] <= Len(links.nodes[n].plugins)
  <2>1. wk.npos[n] = 0 /\ Len(links.nodes[n].plugins) \in Nat
    BY <1>1, BuiltNode
  <2> QED
    BY <2>1
<1> QED
  BY <1>1, <1>2, <1>3, <1>4, <1>5 DEF Within, PlacesFit, wk

\* What the inner loop asks for next.
LEMMA Next1GoesOn ==
    ASSUME TypeOK, phase = "loop"
    PROVE  Onward(Next1)
  BY NextGoesOn, ResultIsBoolean DEF TypeOK, WalkTypes, Next1

LEMMA TypeInit == Init => TypeOK
<1> SUFFICES ASSUME Init PROVE TypeOK
  OBVIOUS
<1>1. LinkedInv /\ WalkTypes
  BY StartsFit DEF Init, LinkedInv, WalkTypes
<1>2. CacheTypes
  BY DEF Init, CacheTypes, NoOutcome, NoEffects
<1>3. verdict \in Verdicts
  <2> DEFINE no == FALSE
  <2>1. verdict = [d \in Detectors |-> no] /\ no \in BOOLEAN
    BY DEF Init
  <2> HIDE DEF no
  <2> QED
    BY <2>1 DEF Verdicts
<1>4. calls \in [Detectors -> Nat]
  BY DEF Init
<1>5. phase = "between" /\ frames = 0 /\ failed \in BOOLEAN
  BY DEF Init
<1>6. frames \in 0 .. MaxFrames
  BY <1>5, MaxFramesAssumption
<1> QED
  BY <1>1, <1>2, <1>3, <1>4, <1>5, <1>6 DEF TypeOK

LEMMA TypeKept == TypeOK /\ [Next]_vars => TypeOK'
<1> SUFFICES ASSUME TypeOK, [Next]_vars
             PROVE  TypeOK'
  OBVIOUS
<1>0. LinkedInv'
  BY LinkedInvKept DEF TypeOK
<1>1. CASE Register
  <2>1. /\ UNCHANGED <<cache, frames, failed, verdict, calls>> /\ phase' \in {"crashed", "between"}
    BY <1>1 DEF Register
  <2>2. WalkTypes'
    <3>1. PICK s \in Requests :
              /\ ValidLogic(s)
              /\ IF UsesNullNode(s)
                 THEN phase' = "crashed" /\ UNCHANGED <<expr, links, walk>>
                 ELSE /\ expr' = s
                      /\ links' = Parse(s)
                      /\ walk' = StartOfWalk(Parse(s))
                      /\ UNCHANGED phase
      BY <1>1 DEF Register
    <3>2. CASE UsesNullNode(s)
      BY <2>1, <3>1, <3>2 DEF WalkTypes, TypeOK
    <3>3. CASE ~UsesNullNode(s)
      <4>1. BuiltLinks(Parse(s))
        BY <3>1, <3>3, ParseBuilds
      <4> QED
        BY <2>1, <3>1, <3>3, <4>1, StartsFit DEF WalkTypes
    <3> QED
      BY <3>2, <3>3
  <2>3. CacheTypes'
    BY <2>1 DEF cache, CacheTypes, TypeOK
  <2> QED
    BY <1>0, <2>1, <2>2, <2>3 DEF TypeOK
<1>2. CASE BeginFrame
  <2>1. CacheTypes'
    BY <1>2 DEF BeginFrame, ClearCache, CacheTypes, NoOutcome, NoEffects
  <2>2. WalkTypes'
    <3>1. BuiltLinks(links) /\ walk.include \in BOOLEAN
      BY <1>2, WalkFields DEF BeginFrame, TypeOK, WalkTypes
    <3>2. Within(links, walk') /\ PlacesFit(links, walk')
      BY <1>2, <3>1, BeginsWithin DEF BeginFrame, ResetWalk
    <3> QED
      BY <1>2, <3>1, <3>2 DEF BeginFrame, WalkTypes, Within
  <2>3. calls' \in [Detectors -> Nat] /\ frames' \in 0 .. MaxFrames
    BY <1>2, MaxFramesAssumption DEF BeginFrame, TypeOK
  <2> QED
    BY <1>0, <1>2, <2>1, <2>2, <2>3 DEF TypeOK, BeginFrame
<1>3. ASSUME phase = "loop", walk' = Next1.walk, UNCHANGED <<expr, links>>,
             phase' = "loop" => Next1.uid # EOP
      PROVE  WalkTypes'
  <2>1. Onward(Next1)
    BY <1>3, Next1GoesOn
  <2> QED
    BY <1>3, <2>1 DEF Onward, WalkTypes, TypeOK
<1>4. CASE EndFrame
  <2>1. WalkTypes' /\ CacheTypes'
    BY <1>3, <1>4 DEF EndFrame, cache, CacheTypes, TypeOK
  <2> QED
    BY <1>0, <1>4, <2>1 DEF EndFrame, TypeOK
<1>5. CASE UseCached
  <2>1. Next1.uid \in DOMAIN storage /\ Next1.uid # EOP
    BY <1>5, UidsApart DEF UseCached, Hit, CacheTypes, TypeOK, Plugins
  <2>2. WalkTypes' /\ CacheTypes'
    BY <1>3, <1>5, <2>1 DEF UseCached, CacheTypes, TypeOK
  <2> QED
    BY <1>0, <1>5, <2>2 DEF UseCached, TypeOK
<1>6. CASE ApplyEffect
  <2>1. Next1.uid # EOP
    BY <1>6, UidsApart DEF ApplyEffect, Plugins
  <2>2. CacheTypes'
    BY <1>6 DEF ApplyEffect, SetDetected, ResultList, CacheTypes, TypeOK
  <2>3. WalkTypes'
    BY <1>3, <1>6, <2>1 DEF ApplyEffect
  <2> QED
    BY <1>0, <1>6, <2>2, <2>3 DEF ApplyEffect, TypeOK
<1>7. CASE RunDetector
  <2>1. Next1.uid # EOP
    BY <1>7, UidsApart DEF RunDetector, Plugins
  <2>2. CacheTypes'
    <3> DEFINE uid == Next1.uid
    <3>1. uid \in Detectors /\ verdict[uid] \in BOOLEAN
      BY <1>7 DEF RunDetector, TypeOK, Verdicts
    <3>2. WriteCache(uid, verdict[uid])
      BY <1>7 DEF RunDetector
    <3> HIDE DEF uid
    <3> QED
      BY <3>1, <3>2 DEF WriteCache, CacheTypes, TypeOK
  <2>3. WalkTypes'
    BY <1>3, <1>7, <2>1 DEF RunDetector
  <2>4. calls' \in [Detectors -> Nat]
    BY <1>7 DEF RunDetector, TypeOK
  <2> QED
    BY <1>0, <1>7, <2>2, <2>3, <2>4 DEF RunDetector, TypeOK
<1>8. CASE DetectorFails
  <2>1. WalkTypes' /\ CacheTypes'
    BY <1>3, <1>8 DEF DetectorFails, cache, CacheTypes, TypeOK
  <2>2. calls' \in [Detectors -> Nat]
    BY <1>8 DEF DetectorFails, TypeOK
  <2> QED
    BY <1>0, <1>8, <2>1, <2>2 DEF DetectorFails, TypeOK
<1>9. CASE Interrupt
  BY <1>0, <1>9 DEF Interrupt, cache, CacheTypes, WalkTypes, TypeOK
<1>10. CASE UNCHANGED vars
  BY <1>0, <1>10 DEF vars, cache, CacheTypes, WalkTypes, TypeOK
<1> QED
  BY <1>1, <1>2, <1>4, <1>5, <1>6, <1>7, <1>8, <1>9, <1>10 DEF Next, InnerLoop

\* For every request that validate_logic accepts, plain or not: the cache holds outcomes of
\* detectors, the last result is one of them, and while the inner loop runs the walk is at
\* a plugin of a node of a pipeline (no index of LogicAnalyzer, PluginPipeline or
\* PluginNode is out of range).
THEOREM TypeCorrect == Spec => []TypeOK
  BY TypeInit, TypeKept, PTL DEF Spec

\* The inner loop of DataFlow::worker is never without a next step: nextPlugin() names a
\* plugin the session has, or OVI_EOP.
THEOREM LoopGoesOn == Spec => [](phase = "loop" => Next1.uid \in Plugins \cup {EOP})
<1>1. TypeOK => (phase = "loop" => Next1.uid \in Plugins \cup {EOP})
  BY Next1GoesOn DEF Onward
<1> QED
  BY <1>1, TypeCorrect, PTL

\* No step of the inner loop takes the walk back or leaves it where it is, though
\* entering a pipeline resets nodes that it shares with those walked before.
WalkAdvances == [][InnerLoop => Further(walk, walk')]_vars

\* Every step of the inner loop takes the walk further, whatever the request is, so that the
\* loop cannot go round.
THEOREM WalkAdvancesHolds == Spec => WalkAdvances
<1>1. TypeOK /\ [Next]_vars => [InnerLoop => Further(walk, walk')]_vars
  <2> SUFFICES ASSUME TypeOK, InnerLoop
               PROVE  Further(walk, walk')
    OBVIOUS
  <2>1. phase = "loop" /\ walk' = Next1.walk
    BY DEF InnerLoop, EndFrame, UseCached, ApplyEffect, RunDetector
  <2> QED
    BY <2>1, Next1GoesOn DEF Onward
<1> QED
  BY <1>1, TypeCorrect, PTL DEF Spec, WalkAdvances

====
