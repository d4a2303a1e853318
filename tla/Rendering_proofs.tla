---- MODULE Rendering_proofs ----
(***************************************************************************)
(* Proofs about Rendering, for any number of renders at once, any jobs,    *)
(* and whatever commands fail: that the media survives, that no temporary  *)
(* file is left, and that an undisturbed render's output is whole.  The    *)
(* last one first computes, by least counterexamples, what the recursive   *)
(* helpers return: the timeline, the effects, a filter graph, a time.      *)
(***************************************************************************)
EXTENDS Rendering, FiniteSetTheorems, WellFoundedInduction, TLAPS

EffectFiles == {EffectFile(n) : n \in Nat}

TypeOK ==
    /\ pc \in [Renders -> {"none", "write", "draw", "cut", "sweep", "finish", "ended"}]
    /\ step \in [Renders -> Nat]
    /\ effectFile \in [Renders -> EffectFiles \cup {NoFile}]
    /\ fileNum \in Nat
    /\ told \in [Renders -> {"nothing", "NONE", "INVALID_OPERATION", "INVALID_PARAMETER"}]
    /\ troubled \in [Renders -> SUBSET {"command", "rename"}]

LEMMA WithFacts ==
    ASSUME NEW p, NEW c
    PROVE  /\ DOMAIN With(p, c) = DOMAIN files \cup {p}
           /\ \A q \in DOMAIN files : q # p => With(p, c)[q] = files[q]
  BY DEF With

LEMMA WithoutFacts ==
    ASSUME NEW fs, NEW ps
    PROVE  /\ DOMAIN Without(fs, ps) = DOMAIN fs \ ps
           /\ \A q \in DOMAIN fs : q \notin ps => Without(fs, ps)[q] = fs[q]
  BY DEF Without

\* However a render begins.
LEMMA BeginFacts ==
    ASSUME NEW r, Begin(r)
    PROVE  /\ pc[r] = "none"
           /\ \/ /\ pc' = [pc EXCEPT ![r] = "ended"]
                 /\ told' = [told EXCEPT ![r] = "INVALID_PARAMETER"]
              \/ /\ pc' = [pc EXCEPT ![r] = "write"] /\ job[r].plugin = "OTIORender"
                 /\ told' = told
              \/ /\ pc' = [pc EXCEPT ![r] = IF Clips(r) = <<>> THEN "finish" ELSE "draw"]
                 /\ told' = told
           /\ \/ files' = With(DebugFile(r), <<"timeline", Clips(r)>>)
              \/ files' = files
           /\ met' = [q \in Renders |->
                        met[q] \/ (q = r /\ \E o \in Renders : Active(o)) \/ Active(q)]
           /\ UNCHANGED <<job, step, effectFile, fileNum, troubled>>
<1>1. CASE Refused(r)
  BY <1>1 DEF Begin, Goto
<1>2. CASE ~Refused(r) /\ job[r].plugin = "OTIORender"
  BY <1>2 DEF Begin, Goto
<1>3. CASE ~Refused(r) /\ job[r].plugin # "OTIORender"
  BY <1>3 DEF Begin, Goto
<1> QED
  BY <1>1, <1>2, <1>3

\* Where it goes.
LEMMA BeginGoes ==
    ASSUME TypeOK, NEW r \in Renders, Begin(r)
    PROVE  /\ pc' = [pc EXCEPT ![r] = pc'[r]]
           /\ \/ pc'[r] = "ended" /\ told'[r] = "INVALID_PARAMETER"
              \/ pc'[r] = "write" /\ job[r].plugin = "OTIORender" /\ told' = told
              \/ pc'[r] = "finish" /\ Clips(r) = <<>> /\ told' = told
              \/ pc'[r] = "draw" /\ told' = told
<1>1. r \in DOMAIN pc /\ r \in DOMAIN told
  BY DEF TypeOK
<1>2. CASE /\ pc' = [pc EXCEPT ![r] = "ended"]
           /\ told' = [told EXCEPT ![r] = "INVALID_PARAMETER"]
  BY <1>1, <1>2
<1>3. CASE /\ pc' = [pc EXCEPT ![r] = "write"] /\ job[r].plugin = "OTIORender"
           /\ told' = told
  BY <1>1, <1>3
<1>4. CASE /\ pc' = [pc EXCEPT ![r] = IF Clips(r) = <<>> THEN "finish" ELSE "draw"]
           /\ told' = told
  BY <1>1, <1>4
<1> QED
  BY <1>2, <1>3, <1>4, BeginFacts

LEMMA TypesKept == TypeOK /\ [Next]_vars => TypeOK'
<1> SUFFICES ASSUME TypeOK, [Next]_vars
             PROVE  TypeOK'
  OBVIOUS
<1> USE DEF TypeOK, Goto, Trouble
<1>1. ASSUME NEW r \in Renders, Begin(r) PROVE TypeOK'
  BY <1>1, BeginFacts
<1>2. ASSUME NEW r \in Renders, WriteTimeline(r) PROVE TypeOK'
  BY <1>2 DEF WriteTimeline
<1>3. ASSUME NEW r \in Renders, Draw(r) PROVE TypeOK'
  <2>1. /\ step' = [step EXCEPT ![r] = @ + 1]
        /\ effectFile' = [effectFile EXCEPT ![r] = EffectFile(fileNum)]
        /\ fileNum' = fileNum + 1
        /\ UNCHANGED <<pc, told>>
    BY <1>3 DEF Draw
  <2>2. troubled' = troubled \/ troubled' = [troubled EXCEPT ![r] = @ \cup {"command"}]
    BY <1>3 DEF Draw
  <2>3. EffectFile(fileNum) \in EffectFiles
    BY DEF EffectFiles
  <2> QED
    BY <2>1, <2>2, <2>3
<1>4. ASSUME NEW r \in Renders, DrawThrows(r) PROVE TypeOK'
  BY <1>4 DEF DrawThrows
<1>5. ASSUME NEW r \in Renders, AllDrawn(r) PROVE TypeOK'
  BY <1>5 DEF AllDrawn
<1>6. ASSUME NEW r \in Renders, CutClip(r) PROVE TypeOK'
  <2>1. /\ step' = [step EXCEPT ![r] = step[r] + 1]
        /\ UNCHANGED <<pc, effectFile, fileNum, told>>
    BY <1>6 DEF CutClip
  <2>2. troubled' = troubled \/ troubled' = [troubled EXCEPT ![r] = @ \cup {"command"}]
    BY <1>6 DEF CutClip
  <2> QED
    BY <2>1, <2>2
<1>7. ASSUME NEW r \in Renders, Rename(r) PROVE TypeOK'
  BY <1>7 DEF Rename
<1>8. ASSUME NEW r \in Renders, Concat(r) PROVE TypeOK'
  <2>1. /\ pc' = [pc EXCEPT ![r] = "sweep"]
        /\ UNCHANGED <<step, effectFile, fileNum, told>>
    BY <1>8 DEF Concat
  <2>2. troubled' = troubled \/ troubled' = [troubled EXCEPT ![r] = @ \cup {"command"}]
    BY <1>8 DEF Concat
  <2> QED
    BY <2>1, <2>2
<1>9. ASSUME NEW r \in Renders, Sweep(r) \/ Finish(r) PROVE TypeOK'
  BY <1>9 DEF Sweep, Finish
<1>10. CASE UNCHANGED vars
  BY <1>10 DEF vars
<1> QED
  BY <1>1, <1>2, <1>3, <1>4, <1>5, <1>6, <1>7, <1>8, <1>9, <1>10 DEF Next

----
(* The media. *)

Medias == {MediaFile(s) : s \in Renders}

Intact(fs) == \A s \in Renders : MediaFile(s) \in DOMAIN fs /\ fs[MediaFile(s)] = Original(s)

LEMMA IntactWith ==
    ASSUME Intact(files), NEW p, NEW c, p \notin Medias
    PROVE  Intact(With(p, c))
<1>1. \A s \in Renders : MediaFile(s) # p
  BY DEF Medias
<1> QED
  <2> SUFFICES ASSUME NEW s \in Renders
               PROVE  MediaFile(s) \in DOMAIN With(p, c) /\ With(p, c)[MediaFile(s)] = Original(s)
    BY DEF Intact
  <2>1. MediaFile(s) \in DOMAIN files /\ files[MediaFile(s)] = Original(s)
    BY DEF Intact
  <2>2. MediaFile(s) # p
    BY <1>1
  <2> QED
    BY <2>1, <2>2 DEF With

LEMMA IntactWithout ==
    ASSUME NEW fs, Intact(fs), NEW ps, \A p \in ps : p \notin Medias
    PROVE  Intact(Without(fs, ps))
<1>1. \A s \in Renders : MediaFile(s) \notin ps
  BY DEF Medias
<1> QED
  <2> SUFFICES ASSUME NEW s \in Renders
               PROVE  /\ MediaFile(s) \in DOMAIN Without(fs, ps)
                      /\ Without(fs, ps)[MediaFile(s)] = Original(s)
    BY DEF Intact
  <2>1. MediaFile(s) \in DOMAIN fs /\ fs[MediaFile(s)] = Original(s)
    BY DEF Intact
  <2> QED
    BY <1>1, <2>1, WithoutFacts

LEMMA NamesApart ==
    /\ \A r : Output(r) \notin Medias /\ ClipFile(r) \notin Medias /\ EffectFile(r) \notin Medias
    /\ \A r : DebugFile(r) \notin Medias
    /\ NoFile \notin Medias
  BY DEF Output, DebugFile, ClipFile, EffectFile, NoFile, MediaFile, Medias

LEMMA EffectFileNoMedia ==
    ASSUME TypeOK, NEW r \in Renders
    PROVE  effectFile[r] \notin Medias
<1>1. effectFile[r] \in EffectFiles \cup {NoFile}
  BY DEF TypeOK
<1> QED
  BY <1>1, NamesApart DEF EffectFiles

LEMMA MediaKept == TypeOK /\ Intact(files) /\ [Next]_vars => Intact(files')
<1> SUFFICES ASSUME TypeOK, Intact(files), [Next]_vars
             PROVE  Intact(files')
  OBVIOUS
<1>1. ASSUME NEW r \in Renders, WriteTimeline(r) PROVE Intact(files')
  <2>1. files' = With(Output(r), <<"timeline", Clips(r)>>) \/ files' = files
    BY <1>1 DEF WriteTimeline
  <2> QED
    BY <2>1, IntactWith, NamesApart
<1>2. ASSUME NEW r \in Renders, Draw(r) PROVE Intact(files')
  <2>1. \A p \in Consumed(r) : p \notin Medias
    BY EffectFileNoMedia DEF Consumed, Source
  <2>2. PICK c : \/ files' = Without(With(EffectFile(fileNum), c), Consumed(r))
                 \/ files' = Without(files, Consumed(r))
    BY <1>2 DEF Draw
  <2>3. Intact(With(EffectFile(fileNum), c))
    BY IntactWith, NamesApart
  <2> QED
    BY <2>1, <2>2, <2>3, IntactWithout
<1>3. ASSUME NEW r \in Renders, CutClip(r) PROVE Intact(files')
  <2>1. PICK i, c : files' = With(ClipFile(i), c) \/ files' = files
    BY <1>3 DEF CutClip
  <2> QED
    BY <2>1, IntactWith, NamesApart
<1>4. ASSUME NEW r \in Renders, Rename(r) PROVE Intact(files')
  <2>1. \/ files' = Without(With(Output(r), files[ClipFile(1)]), {ClipFile(1)})
        \/ files' = files
    BY <1>4 DEF Rename
  <2>2. Intact(With(Output(r), files[ClipFile(1)]))
    BY IntactWith, NamesApart
  <2>3. \A p \in {ClipFile(1)} : p \notin Medias
    BY NamesApart
  <2> QED
    BY <2>1, <2>2, <2>3, IntactWithout
<1>5. ASSUME NEW r \in Renders, Concat(r) PROVE Intact(files')
  <2>1. PICK c : files' = With(Output(r), c) \/ files' = files
    BY <1>5 DEF Concat
  <2> QED
    BY <2>1, IntactWith, NamesApart
<1>6. ASSUME NEW r \in Renders, Sweep(r) PROVE Intact(files')
  <2>1. files' = Without(files, Swept(r))
    BY <1>6 DEF Sweep
  <2>2. \A p \in Swept(r) : p \notin Medias
    BY NamesApart DEF Swept
  <2> QED
    BY <2>1, <2>2, IntactWithout
<1>7. ASSUME NEW r \in Renders, Finish(r) PROVE Intact(files')
  <2>1. files' = Without(files, {effectFile[r]})
    BY <1>7 DEF Finish
  <2>2. \A p \in {effectFile[r]} : p \notin Medias
    BY EffectFileNoMedia
  <2> QED
    BY <2>1, <2>2, IntactWithout
<1>8. ASSUME NEW r \in Renders, Begin(r) PROVE Intact(files')
  <2>1. files' = With(DebugFile(r), <<"timeline", Clips(r)>>) \/ files' = files
    BY <1>8, BeginFacts
  <2> QED
    BY <2>1, IntactWith, NamesApart
<1>9. CASE files' = files
  BY <1>9
<1> QED
  BY <1>1, <1>2, <1>3, <1>4, <1>5, <1>6, <1>7, <1>8, <1>9
     DEF Next, DrawThrows, AllDrawn, vars

LEMMA InitFacts == Init => TypeOK /\ Intact(files)
<1> SUFFICES ASSUME Init
             PROVE  TypeOK /\ Intact(files)
  OBVIOUS
<1>1. TypeOK
  BY DEF Init, TypeOK
<1>2. files = [p \in Medias |-> Original(p[2])]
  BY DEF Init, Medias
<1>3. \A s \in Renders : MediaFile(s) \in Medias /\ MediaFile(s)[2] = s
  BY DEF MediaFile, Medias
<1> QED
  BY <1>1, <1>2, <1>3 DEF Intact

\* Whatever fails and however many renders take each other's files, none of them changes
\* or removes the media.
THEOREM MediaSurvivesHolds == Spec => []MediaSurvives
<1>1. Intact(files) => MediaSurvives
  BY DEF Intact, MediaSurvives, Exists
<1>2. TypeOK /\ Intact(files) /\ [Next]_vars => (TypeOK /\ Intact(files))'
  BY TypesKept, MediaKept DEF Intact
<1> QED
  BY <1>1, <1>2, InitFacts, PTL DEF Spec

----
(* Temporary files. *)

Step(r) ==
    \/ Begin(r) \/ WriteTimeline(r)
    \/ Draw(r) \/ DrawThrows(r) \/ AllDrawn(r)
    \/ CutClip(r) \/ Rename(r) \/ Concat(r) \/ Sweep(r) \/ Finish(r)

Lasting == Medias \cup {Output(r) : r \in Renders} \cup {DebugFile(r) : r \in Renders}

\* The temporary files render r answers for: its effect file until it removes it, and the
\* clips cut so far until it moves or sweeps them.
HoldsEffect(r, p) ==
    p = effectFile[r] /\ p # NoFile /\ (pc[r] \in {"draw", "cut", "sweep", "finish"} \/ Died(r))
HoldsClip(r, p) ==
    /\ \E i \in 1 .. step[r] : p = ClipFile(i)
    /\ pc[r] \in {"cut", "sweep"} \/ "rename" \in troubled[r]
Holds(r, p) == HoldsEffect(r, p) \/ HoldsClip(r, p)

Accounted == \A p \in DOMAIN files : p \in Lasting \/ \E r \in Renders : Holds(r, p)

\* completeCb is called at the end, a rename comes after the cutting, and the sweep
\* after all of it.
InTurn(r) ==
    /\ pc[r] # "ended" => told[r] = "nothing"
    /\ pc[r] \in {"none", "draw", "cut"} => "rename" \notin troubled[r]
    /\ pc[r] = "sweep" => step[r] = Len(Clips(r))

LEMMA NextSteps == Next <=> \E r \in Renders : Step(r)
  BY DEF Next, Step

LEMMA OthersUntouched ==
    ASSUME TypeOK, NEW r \in Renders, Step(r), NEW s \in Renders, s # r
    PROVE  /\ pc'[s] = pc[s] /\ step'[s] = step[s] /\ effectFile'[s] = effectFile[s]
           /\ told'[s] = told[s] /\ troubled'[s] = troubled[s]
<1> USE DEF TypeOK, Goto, Trouble
<1>0. CASE Begin(r)
  <2>1. /\ pc' = [pc EXCEPT ![r] = pc'[r]]
        /\ told' = told \/ told' = [told EXCEPT ![r] = "INVALID_PARAMETER"]
        /\ UNCHANGED <<step, effectFile, troubled>>
    BY <1>0, BeginGoes, BeginFacts
  <2> QED
    BY <2>1
<1>1. CASE WriteTimeline(r)
  BY <1>1 DEF WriteTimeline
<1>2. CASE Draw(r)
  <2>1. /\ step' = [step EXCEPT ![r] = @ + 1]
        /\ effectFile' = [effectFile EXCEPT ![r] = EffectFile(fileNum)]
        /\ UNCHANGED <<pc, told>>
    BY <1>2 DEF Draw
  <2>2. troubled' = troubled \/ troubled' = [troubled EXCEPT ![r] = @ \cup {"command"}]
    BY <1>2 DEF Draw
  <2> QED
    BY <2>1, <2>2
<1>3. CASE CutClip(r)
  <2>1. step' = [step EXCEPT ![r] = step[r] + 1] /\ UNCHANGED <<pc, effectFile, told>>
    BY <1>3 DEF CutClip
  <2>2. troubled' = troubled \/ troubled' = [troubled EXCEPT ![r] = @ \cup {"command"}]
    BY <1>3 DEF CutClip
  <2> QED
    BY <2>1, <2>2
<1>4. CASE Concat(r)
  <2>1. pc' = [pc EXCEPT ![r] = "sweep"] /\ UNCHANGED <<step, effectFile, told>>
    BY <1>4 DEF Concat
  <2>2. troubled' = troubled \/ troubled' = [troubled EXCEPT ![r] = @ \cup {"command"}]
    BY <1>4 DEF Concat
  <2> QED
    BY <2>1, <2>2
<1>5. CASE DrawThrows(r) \/ AllDrawn(r) \/ Rename(r) \/ Sweep(r) \/ Finish(r)
  BY <1>5 DEF DrawThrows, AllDrawn, Rename, Sweep, Finish
<1> QED
  BY <1>0, <1>1, <1>2, <1>3, <1>4, <1>5 DEF Step

\* What a step of r must see to: every file it makes is to last or its own, and what it
\* answers for it still answers for, if it is there.
SeenTo(r) == \A p \in DOMAIN files' :
    \/ p \in Lasting
    \/ Holds(r, p)'
    \/ p \in DOMAIN files /\ ~Holds(r, p)

LEMMA SeenToIsEnough ==
    ASSUME TypeOK, Accounted, NEW r \in Renders, Step(r), SeenTo(r)
    PROVE  Accounted'
<1> SUFFICES ASSUME NEW p \in DOMAIN files', p \notin Lasting, ~Holds(r, p)'
             PROVE  \E s \in Renders : Holds(s, p)'
  BY DEF Accounted, Lasting, Medias, Output, MediaFile
<1>1. p \in DOMAIN files /\ ~Holds(r, p)
  BY DEF SeenTo
<1>2. PICK s \in Renders : Holds(s, p)
  BY <1>1 DEF Accounted
<1>3. s # r
  BY <1>1, <1>2
<1>4. /\ pc'[s] = pc[s] /\ step'[s] = step[s] /\ effectFile'[s] = effectFile[s]
      /\ told'[s] = told[s] /\ troubled'[s] = troubled[s]
  BY <1>3, OthersUntouched
<1> QED
  BY <1>2, <1>4 DEF Holds, HoldsEffect, HoldsClip, Died, Ended

LEMMA MadeAndRemoved ==
    ASSUME NEW p, NEW c, NEW ps
    PROVE  DOMAIN Without(With(p, c), ps) = (DOMAIN files \cup {p}) \ ps
  BY DEF With, Without

LEMMA DrawSeesTo ==
    ASSUME TypeOK, NEW r \in Renders, InTurn(r), Draw(r)
    PROVE  SeenTo(r)
<1>1. /\ pc[r] = "draw" /\ pc' = pc
      /\ effectFile' = [effectFile EXCEPT ![r] = EffectFile(fileNum)]
  BY DEF Draw
<1>2. PICK c : \/ files' = Without(With(EffectFile(fileNum), c), Consumed(r))
               \/ files' = Without(files, Consumed(r))
  BY DEF Draw
<1>3. DOMAIN files' \subseteq (DOMAIN files \cup {EffectFile(fileNum)}) \ Consumed(r)
  <2>1. CASE files' = Without(With(EffectFile(fileNum), c), Consumed(r))
    <3>1. DOMAIN files' = (DOMAIN files \cup {EffectFile(fileNum)}) \ Consumed(r)
      BY <2>1, MadeAndRemoved
    <3> QED
      BY <3>1
  <2>2. CASE files' = Without(files, Consumed(r))
    BY <2>2 DEF Without
  <2> QED
    BY <1>2, <2>1, <2>2
<1>4. ASSUME NEW p, p = EffectFile(fileNum)
      PROVE  Holds(r, p)'
  <2>1. p # NoFile /\ effectFile'[r] = p /\ pc'[r] = "draw"
    BY <1>1, <1>4 DEF TypeOK, EffectFile, NoFile
  <2> QED
    BY <2>1 DEF Holds, HoldsEffect
<1>5. ASSUME NEW p, Holds(r, p)
      PROVE  p \in Consumed(r)
  <2>1. p = effectFile[r] /\ p # NoFile
    BY <1>1, <1>5 DEF Holds, HoldsEffect, HoldsClip, InTurn
  <2>2. p # MediaFile(r)
    BY <2>1, EffectFileNoMedia DEF Medias
  <2> QED
    BY <2>1, <2>2 DEF Consumed, Source
<1> QED
  BY <1>3, <1>4, <1>5 DEF SeenTo

LEMMA CutSeesTo ==
    ASSUME TypeOK, NEW r \in Renders, InTurn(r), CutClip(r)
    PROVE  SeenTo(r)
<1>1. /\ pc[r] = "cut" /\ step' = [step EXCEPT ![r] = step[r] + 1]
      /\ UNCHANGED <<pc, effectFile, told>>
  BY DEF CutClip
<1>2. PICK c : files' = With(ClipFile(step[r] + 1), c) \/ files' = files
  BY DEF CutClip
<1>3. DOMAIN files' \subseteq DOMAIN files \cup {ClipFile(step[r] + 1)}
  BY <1>2, WithFacts
<1>4. step[r] \in Nat /\ step'[r] = step[r] + 1
  BY <1>1 DEF TypeOK
<1>5. step[r] + 1 \in 1 .. step'[r] /\ 1 .. step[r] \subseteq 1 .. step'[r]
  BY <1>4
<1>6. ASSUME NEW p, p = ClipFile(step[r] + 1)
      PROVE  Holds(r, p)'
  BY <1>1, <1>5, <1>6 DEF Holds, HoldsClip
<1>7. ASSUME NEW p, Holds(r, p)
      PROVE  Holds(r, p)'
  <2>1. CASE HoldsEffect(r, p)
    BY <1>1, <2>1 DEF Holds, HoldsEffect, Died, Ended
  <2>2. CASE HoldsClip(r, p)
    BY <1>1, <1>5, <2>2 DEF Holds, HoldsClip
  <2> QED
    BY <1>7, <2>1, <2>2 DEF Holds
<1> QED
  BY <1>3, <1>6, <1>7 DEF SeenTo

LEMMA RenameSeesTo ==
    ASSUME TypeOK, NEW r \in Renders, InTurn(r), Rename(r)
    PROVE  SeenTo(r)
<1>1. /\ pc[r] = "cut" /\ pc' = [pc EXCEPT ![r] = "finish"]
      /\ step[r] = 1 /\ UNCHANGED <<step, effectFile, told>>
  BY DEF Rename, AllCut, Goto
<1>2. pc'[r] = "finish"
  BY <1>1 DEF TypeOK
<1>3. ASSUME NEW p, HoldsEffect(r, p)
      PROVE  Holds(r, p)'
  BY <1>1, <1>2, <1>3 DEF Holds, HoldsEffect, Died, Ended
<1>4. ASSUME NEW p, HoldsClip(r, p)
      PROVE  p = ClipFile(1)
  BY <1>1, <1>4 DEF HoldsClip
<1>5. CASE /\ files' = Without(With(Output(r), files[ClipFile(1)]), {ClipFile(1)})
  <2>1. DOMAIN files' = (DOMAIN files \cup {Output(r)}) \ {ClipFile(1)}
    BY <1>5, MadeAndRemoved
  <2> QED
    BY <2>1, <1>3, <1>4 DEF SeenTo, Lasting, Holds
<1>6. CASE /\ files' = files
           /\ Exists(ClipFile(1)) => troubled' = [troubled EXCEPT ![r] = @ \cup {"rename"}]
  <2>1. ASSUME NEW p \in DOMAIN files, HoldsClip(r, p)
        PROVE  Holds(r, p)'
    <3>1. p = ClipFile(1)
      BY <1>4, <2>1
    <3>2. "rename" \in troubled'[r]
      BY <1>6, <2>1, <3>1 DEF Exists, TypeOK
    <3> QED
      BY <1>1, <2>1, <3>2 DEF Holds, HoldsClip
  <2> QED
    BY <1>3, <1>6, <2>1 DEF SeenTo, Holds
<1> QED
  BY <1>5, <1>6 DEF Rename, Trouble

LEMMA ConcatSeesTo ==
    ASSUME TypeOK, NEW r \in Renders, InTurn(r), Concat(r)
    PROVE  SeenTo(r)
<1>1. /\ pc[r] = "cut" /\ pc' = [pc EXCEPT ![r] = "sweep"]
      /\ UNCHANGED <<step, effectFile, told>>
  BY DEF Concat, AllCut, Goto
<1>2. pc'[r] = "sweep"
  BY <1>1 DEF TypeOK
<1>3. PICK c : files' = With(Output(r), c) \/ files' = files
  BY DEF Concat
<1>4. DOMAIN files' \subseteq DOMAIN files \cup {Output(r)}
  BY <1>3, WithFacts
<1>5. ASSUME NEW p, Holds(r, p)
      PROVE  Holds(r, p)'
  BY <1>1, <1>2, <1>5 DEF Holds, HoldsEffect, HoldsClip, Died, Ended
<1> QED
  BY <1>4, <1>5 DEF SeenTo, Lasting

LEMMA SweepSeesTo ==
    ASSUME TypeOK, NEW r \in Renders, InTurn(r), Sweep(r)
    PROVE  SeenTo(r)
<1>1. /\ pc[r] = "sweep" /\ pc' = [pc EXCEPT ![r] = "finish"]
      /\ files' = Without(files, Swept(r)) /\ UNCHANGED <<step, effectFile, told>>
  BY DEF Sweep, Goto
<1>2. pc'[r] = "finish" /\ DOMAIN files' = DOMAIN files \ Swept(r)
  BY <1>1, WithoutFacts DEF TypeOK
<1>3. ASSUME NEW p, HoldsEffect(r, p)
      PROVE  Holds(r, p)'
  BY <1>1, <1>2, <1>3 DEF Holds, HoldsEffect, Died, Ended
<1>4. ASSUME NEW p, HoldsClip(r, p)
      PROVE  p \in Swept(r)
  BY <1>1, <1>4 DEF HoldsClip, Swept, InTurn
<1> QED
  BY <1>2, <1>3, <1>4 DEF SeenTo, Holds

LEMMA FinishSeesTo ==
    ASSUME TypeOK, NEW r \in Renders, InTurn(r), Finish(r)
    PROVE  SeenTo(r)
<1>1. /\ pc[r] = "finish" /\ files' = Without(files, {effectFile[r]})
      /\ UNCHANGED <<step, effectFile, troubled>>
  BY DEF Finish
<1>2. DOMAIN files' = DOMAIN files \ {effectFile[r]}
  BY <1>1, WithoutFacts
<1>3. ASSUME NEW p, HoldsClip(r, p)
      PROVE  Holds(r, p)'
  BY <1>1, <1>3 DEF Holds, HoldsClip
<1> QED
  BY <1>2, <1>3 DEF SeenTo, Holds, HoldsEffect

LEMMA OthersSeeTo ==
    ASSUME TypeOK, NEW r \in Renders, InTurn(r),
           Begin(r) \/ WriteTimeline(r) \/ DrawThrows(r) \/ AllDrawn(r)
    PROVE  SeenTo(r)
<1>1. CASE Begin(r)
  <2>1. pc[r] = "none" /\ DOMAIN files' \subseteq DOMAIN files \cup {DebugFile(r)}
    BY <1>1, BeginFacts, WithFacts
  <2>2. \A p : ~Holds(r, p)
    BY <2>1 DEF Holds, HoldsEffect, HoldsClip, Died, Ended, InTurn
  <2> QED
    BY <2>1, <2>2 DEF SeenTo, Lasting
<1>2. CASE WriteTimeline(r)
  <2>1. /\ pc[r] = "write" /\ UNCHANGED <<step, effectFile>>
        /\ files' = With(Output(r), <<"timeline", Clips(r)>>) \/ files' = files
        /\ troubled' = troubled \/ troubled' = [troubled EXCEPT ![r] = @ \cup {"command"}]
    BY <1>2 DEF WriteTimeline, Trouble
  <2>2. DOMAIN files' \subseteq DOMAIN files \cup {Output(r)}
    BY <2>1, WithFacts
  <2>3. "rename" \in troubled[r] => "rename" \in troubled'[r]
    BY <2>1 DEF TypeOK
  <2>4. ASSUME NEW p, Holds(r, p)
        PROVE  Holds(r, p)'
    BY <2>1, <2>3, <2>4 DEF Holds, HoldsEffect, HoldsClip, Died, Ended
  <2> QED
    BY <2>2, <2>4 DEF SeenTo, Lasting
<1>3. CASE DrawThrows(r)
  <2>1. /\ pc[r] = "draw" /\ pc' = [pc EXCEPT ![r] = "ended"] /\ files' = files
        /\ UNCHANGED <<effectFile, told>>
    BY <1>3 DEF DrawThrows, Goto
  <2>2. pc'[r] = "ended" /\ told[r] = "nothing"
    BY <2>1 DEF TypeOK, InTurn
  <2>3. ASSUME NEW p, Holds(r, p)
        PROVE  Holds(r, p)'
    BY <2>1, <2>2, <2>3 DEF Holds, HoldsEffect, HoldsClip, Died, Ended, InTurn
  <2> QED
    BY <2>1, <2>3 DEF SeenTo
<1>4. CASE AllDrawn(r)
  <2>1. /\ pc[r] = "draw" /\ pc' = [pc EXCEPT ![r] = "cut"] /\ UNCHANGED <<files, effectFile>>
    BY <1>4 DEF AllDrawn, Goto
  <2>2. pc'[r] = "cut"
    BY <2>1 DEF TypeOK
  <2>3. ASSUME NEW p, Holds(r, p)
        PROVE  Holds(r, p)'
    BY <2>1, <2>2, <2>3 DEF Holds, HoldsEffect, HoldsClip, Died, Ended, InTurn
  <2> QED
    BY <2>1, <2>3 DEF SeenTo
<1> QED
  BY <1>1, <1>2, <1>3, <1>4

LEMMA StepSeesTo ==
    ASSUME TypeOK, NEW r \in Renders, InTurn(r), Step(r)
    PROVE  SeenTo(r)
  BY DrawSeesTo, CutSeesTo, RenameSeesTo, ConcatSeesTo, SweepSeesTo, FinishSeesTo, OthersSeeTo
     DEF Step

LEMMA TurnsKept ==
    ASSUME TypeOK, NEW r \in Renders, Step(r), InTurn(r)
    PROVE  InTurn(r)'
<1>1. Clips(r)' = Clips(r)
  <2>1. job' = job
    BY DEF Step, Begin, WriteTimeline, Draw, DrawThrows, AllDrawn, CutClip, Rename, Concat,
           Sweep, Finish
  <2> QED
    BY <2>1 DEF Clips
<1> USE DEF TypeOK, Goto, Trouble, InTurn
<1>0. CASE Begin(r)
  BY <1>0, BeginFacts
<1>2. CASE WriteTimeline(r) \/ DrawThrows(r) \/ AllDrawn(r)
  BY <1>2 DEF WriteTimeline, DrawThrows, AllDrawn
<1>3. CASE Draw(r)
  <2>1. pc[r] = "draw" /\ UNCHANGED <<pc, told>>
    BY <1>3 DEF Draw
  <2>2. troubled' = troubled \/ troubled' = [troubled EXCEPT ![r] = @ \cup {"command"}]
    BY <1>3 DEF Draw
  <2> QED
    BY <2>1, <2>2
<1>4. CASE CutClip(r)
  <2>1. pc[r] = "cut" /\ UNCHANGED <<pc, told>>
    BY <1>4 DEF CutClip
  <2>2. troubled' = troubled \/ troubled' = [troubled EXCEPT ![r] = @ \cup {"command"}]
    BY <1>4 DEF CutClip
  <2> QED
    BY <2>1, <2>2
<1>5. CASE Rename(r) \/ Sweep(r) \/ Finish(r)
  BY <1>5 DEF Rename, AllCut, Sweep, Finish
<1>6. CASE Concat(r)
  <2>1. /\ pc[r] = "cut" /\ pc' = [pc EXCEPT ![r] = "sweep"] /\ step[r] = Len(Clips(r))
        /\ UNCHANGED <<step, told>>
    BY <1>6 DEF Concat, AllCut
  <2> QED
    BY <1>1, <2>1
<1> QED
  BY <1>0, <1>2, <1>3, <1>4, <1>5, <1>6 DEF Step

TempInv == Accounted /\ \A r \in Renders : InTurn(r)

LEMMA TempKept == TypeOK /\ TempInv /\ [Next]_vars => TempInv'
<1> SUFFICES ASSUME TypeOK, TempInv, [Next]_vars
             PROVE  TempInv'
  OBVIOUS
<1>1. ASSUME NEW r \in Renders, Step(r)
      PROVE  TempInv'
  <2>1. Accounted'
    BY <1>1, StepSeesTo, SeenToIsEnough DEF TempInv
  <2>2. ASSUME NEW s \in Renders, s # r
        PROVE  InTurn(s)'
    <3>1. /\ pc'[s] = pc[s] /\ step'[s] = step[s]
          /\ told'[s] = told[s] /\ troubled'[s] = troubled[s]
      BY <1>1, <2>2, OthersUntouched
    <3>2. job' = job
      BY <1>1 DEF Step, Begin, WriteTimeline, Draw, DrawThrows, AllDrawn, CutClip, Rename,
         Concat, Sweep, Finish
    <3>3. Clips(s)' = Clips(s)
      BY <3>2 DEF Clips
    <3> QED
      BY <3>1, <3>3 DEF TempInv, InTurn
  <2>3. InTurn(r)'
    BY <1>1, TurnsKept DEF TempInv
  <2> QED
    BY <2>1, <2>2, <2>3 DEF TempInv
<1>2. CASE UNCHANGED vars
  <2>1. \A r \in Renders : Clips(r)' = Clips(r)
    BY <1>2 DEF vars, Clips
  <2> QED
    BY <1>2, <2>1 DEF vars, TempInv, Accounted, InTurn, Holds, HoldsEffect, HoldsClip, Died, Ended
<1> QED
  BY <1>1, <1>2, NextSteps

LEMMA TempStarts == Init => TypeOK /\ TempInv
<1>1. Init => TypeOK
  BY InitFacts
<1>2. Init => DOMAIN files = Medias
  BY DEF Init, Medias
<1>3. Init => \A r \in Renders : InTurn(r)
  BY DEF Init, InTurn
<1> QED
  BY <1>1, <1>2, <1>3 DEF TempInv, Accounted, Lasting

LEMMA LastingIs == Lasting = UNION {{MediaFile(r), Output(r), DebugFile(r)} : r \in Renders}
  BY DEF Lasting, Medias

\* When all renders are over, only a rename that failed, or a render that died of an
\* exception, has left an effect file or a clip: whatever else failed, and whosever files
\* the renders overwrote.  The copy of the timeline, written for debugging, does stay.
THEOREM NothingLeftBehindHolds == Spec => []NothingLeftBehind
<1>1. Init => TypeOK /\ TempInv
  BY TempStarts
<1>2. TypeOK /\ TempInv /\ [Next]_vars => (TypeOK /\ TempInv)'
  BY TypesKept, TempKept
<1>3. TypeOK /\ TempInv => NothingLeftBehind
  <2> SUFFICES ASSUME TypeOK, TempInv, NEW p \in DOMAIN files,
                      \A r \in Renders : ~Active(r) /\ ~Died(r) /\ "rename" \notin troubled[r]
               PROVE  p \in Lasting
    BY LastingIs DEF NothingLeftBehind
  <2>1. \A r \in Renders : ~Holds(r, p)
    BY DEF Active, Holds, HoldsEffect, HoldsClip
  <2> QED
    BY <2>1 DEF TempInv, Accounted
<1> QED
  BY <1>1, <1>2, <1>3, PTL DEF Spec

----
(* What the helpers compute. *)

\* A set of numbers that is not empty has a least element.
LEMMA LeastNumber ==
    ASSUME NEW S \in SUBSET Nat, S # {}
    PROVE  /\ \E m \in S : \A n \in S : m <= n
           /\ Min(S) \in S /\ \A n \in S : Min(S) <= n
<1> DEFINE Less == OpToRel(<, Nat)
<1>1. IsWellFoundedOn(Less, Nat)
  BY NatLessThanWellFounded
<1>2. \A m, n \in Nat : <<m, n>> \in Less <=> m < n
  BY DEF OpToRel
<1> HIDE DEF Less
<1>3. \E m \in S : \A n \in S : ~(<<n, m>> \in Less)
  BY <1>1, WFMin
<1>4. \A m, n \in S : ~(<<n, m>> \in Less) => m <= n
  BY <1>2
<1> QED
  BY <1>3, <1>4 DEF Min

LEMMA QuotientIsNat == ASSUME NEW a \in Nat, NEW n \in Nat \ {0} PROVE a \div n \in Nat
  BY SMT

\* Division keeps the order.
LEMMA DivisionGrows ==
    ASSUME NEW a \in Nat, NEW b \in Nat, a <= b, NEW n \in Nat \ {0}
    PROVE  a \div n <= b \div n
  BY SMT

\* Up to 100 hours a time is what ffmpeg reads.
LEMMA TimeIsKept == ASSUME NEW t \in Nat, t < TimeLimit PROVE ReadTime(ToTimeString(t)) = t
<1> DEFINE h == t \div 3600000
           u == t - h * 3600000
           m == u \div 60000
           v == u - m * 60000
           s == v \div 1000
           x == v % 1000
<1>0. ToTimeString(t) = [h |-> h % 100, m |-> m % 100, s |-> s % 100, ms |-> t % 1000]
  BY SMT DEF ToTimeString
<1>1. h \in Nat /\ u \in Nat /\ u < 3600000 /\ t = h * 3600000 + u
  <2>1. u = t % 3600000
    BY SMT
  <2> HIDE DEF u
  <2> QED
    BY <2>1, SMT
<1>2. h < 100
  BY SMT DEF TimeLimit
<1> HIDE DEF h, u
<1>3. m \in Nat /\ v \in Nat /\ v < 60000 /\ u = m * 60000 + v
  <2>1. v = u % 60000
    BY <1>1, SMT
  <2> HIDE DEF v
  <2> QED
    BY <1>1, <2>1, SMT
<1>4. m < 60
  BY <1>1, SMT
<1> HIDE DEF m, v
<1>5. s \in Nat /\ x \in Nat /\ v = s * 1000 + x
  BY <1>3, SMT
<1>6. s < 60
  BY <1>3, SMT
<1> HIDE DEF s
<1>7. t % 1000 = x
  <2>1. t % 1000 = u % 1000
    BY <1>1, SMT
  <2>2. u % 1000 = v % 1000
    BY <1>1, <1>3, SMT
  <2> QED
    BY <2>1, <2>2
<1> HIDE DEF x
<1>8. h % 100 = h /\ m % 100 = m /\ s % 100 = s
  BY <1>1, <1>2, <1>3, <1>4, <1>5, <1>6, SMT
<1>9. ReadTime(ToTimeString(t)) = ((h * 60 + m) * 60 + s) * 1000 + x
  <2>1. ToTimeString(t) = [h |-> h, m |-> m, s |-> s, ms |-> x]
    BY <1>0, <1>7, <1>8
  <2> QED
    BY <2>1, SMT DEF ReadTime
<1> QED
  BY <1>1, <1>3, <1>5, <1>9, SMT

\* Flattening, where the answer is known in advance.
FlattenStep(seqs, f) ==
    f = [i \in 1 .. Len(seqs) |-> IF i = 1 THEN seqs[i] ELSE f[i - 1] \o seqs[i]]

LEMMA FlattenIs ==
    ASSUME NEW seqs, Len(seqs) # 0
    PROVE  FlattenSeq(seqs) = (CHOOSE f : FlattenStep(seqs, f))[Len(seqs)]
  BY DEF FlattenSeq, FlattenStep

\* A step of the recursion for as long as it goes.
LEMMA FlattenSteps ==
    ASSUME NEW seqs, Len(seqs) \in Nat \ {0}, NEW g, FlattenStep(seqs, g), NEW f, FlattenStep(seqs, f),
           NEW i \in 1 .. Len(seqs)
    PROVE  f[i] = g[i]
<1> DEFINE apart == {k \in 1 .. Len(seqs) : f[k] # g[k]}
<1>1. CASE apart = {}
  BY <1>1
<1>2. CASE apart # {}
  <2>1. apart \in SUBSET Nat
    OBVIOUS
  <2>2. PICK k \in apart : \A l \in apart : k <= l
    <3> HIDE DEF apart
    <3> QED
      BY <1>2, <2>1, LeastNumber
  <2>3. k \in 1 .. Len(seqs) /\ f[k] # g[k]
    BY <2>2
  <2>4. CASE k = 1
    BY <2>3, <2>4 DEF FlattenStep
  <2>5. CASE k # 1
    <3>1. k - 1 \in 1 .. Len(seqs) /\ k - 1 \notin apart
      BY <2>2, <2>5
    <3>2. f[k - 1] = g[k - 1]
      BY <3>1
    <3>3. f[k] = f[k - 1] \o seqs[k] /\ g[k] = g[k - 1] \o seqs[k]
      BY <2>3, <2>5 DEF FlattenStep
    <3> QED
      BY <2>3, <3>2, <3>3
  <2> QED
    BY <2>4, <2>5
<1> QED
  BY <1>1, <1>2

LEMMA FlattenFound ==
    ASSUME NEW seqs, Len(seqs) \in Nat \ {0}, NEW g, FlattenStep(seqs, g)
    PROVE  FlattenSeq(seqs) = g[Len(seqs)]
<1> DEFINE f == CHOOSE f : FlattenStep(seqs, f)
<1>1. FlattenStep(seqs, f)
  OBVIOUS
<1>2. FlattenSeq(seqs) = f[Len(seqs)]
  BY FlattenIs
<1> HIDE DEF f
<1> QED
  BY <1>1, <1>2, FlattenSteps

LEMMA FlattenAlone == ASSUME NEW s PROVE FlattenSeq(<<s>>) = s
<1> DEFINE seqs == <<s>>
           g == [i \in 1 .. 1 |-> s]
<1>1. Len(seqs) = 1 /\ seqs[1] = s
  OBVIOUS
<1> HIDE DEF seqs
<1>2. FlattenStep(seqs, g)
  BY <1>1 DEF FlattenStep
<1>3. FlattenSeq(seqs) = g[1]
  <2> HIDE DEF g
  <2> QED
    BY <1>1, <1>2, FlattenFound
<1> QED
  BY <1>3 DEF seqs

\* A sequence of sequences of one element each becomes the sequence of these.
LEMMA FlattenSingles ==
    ASSUME NEW S, NEW s \in Seq(S), s # <<>>
    PROVE  FlattenSeq([i \in 1 .. Len(s) |-> <<s[i]>>]) = s
<1> DEFINE n == Len(s)
           seqs == [i \in 1 .. n |-> <<s[i]>>]
           up(i) == [k \in 1 .. i |-> s[k]]
           g == [i \in 1 .. n |-> up(i)]
<1>1. n \in Nat \ {0} /\ s \in [1 .. n -> S]
  OBVIOUS
<1>2. Len(seqs) = n /\ \A i \in 1 .. n : seqs[i] = <<s[i]>>
  BY <1>1
<1>3. \A i \in 1 .. n : g[i] = up(i)
  OBVIOUS
<1>4. up(1) = <<s[1]>> /\ up(n) = s
  <2>1. s = [k \in 1 .. n |-> s[k]]
    BY <1>1
  <2>2. [k \in 1 .. 1 |-> s[k]] = <<s[1]>>
    OBVIOUS
  <2> QED
    BY <2>1, <2>2
<1>5. ASSUME NEW i \in 2 .. n PROVE up(i) = up(i - 1) \o <<s[i]>>
  <2>1. up(i - 1) \in Seq(S) /\ Len(up(i - 1)) = i - 1 /\ <<s[i]>> \in Seq(S) /\ up(i) \in Seq(S)
    BY <1>1
  <2>2. Len(up(i)) = i /\ \A k \in 1 .. i : up(i)[k] = s[k]
    BY <1>1
  <2>3. \A k \in 1 .. i - 1 : up(i - 1)[k] = s[k]
    OBVIOUS
  <2> DEFINE a == up(i)
             b == up(i - 1)
  <2> HIDE DEF a, b
  <2>4. a \in Seq(S) /\ b \in Seq(S) /\ Len(a) = i /\ Len(b) = i - 1 /\ <<s[i]>> \in Seq(S)
        /\ (\A k \in 1 .. i : a[k] = s[k]) /\ \A k \in 1 .. i - 1 : b[k] = s[k]
    BY <2>1, <2>2, <2>3 DEF a, b
  <2>5. a = b \o <<s[i]>>
    <3>1. b \o <<s[i]>> = Append(b, s[i])
      BY <2>4
    <3>2. a = [k \in 1 .. i |-> a[k]]
      BY <2>4
    <3>3. Append(b, s[i]) = [k \in 1 .. i |-> IF k = i THEN s[i] ELSE b[k]]
      BY <2>4
    <3>4. \A k \in 1 .. i : a[k] = IF k = i THEN s[i] ELSE b[k]
      BY <2>4
    <3> QED
      BY <3>1, <3>2, <3>3, <3>4
  <2> QED
    BY <2>5 DEF a, b
<1>6. FlattenStep(seqs, g)
  <2>1. ASSUME NEW i \in 1 .. n
        PROVE  up(i) = IF i = 1 THEN seqs[i] ELSE g[i - 1] \o seqs[i]
    <3>1. CASE i = 1
      BY <1>1, <1>2, <1>4, <3>1
    <3>2. CASE i # 1
      <4>1. i \in 2 .. n /\ i - 1 \in 1 .. n
        BY <1>1, <3>2
      <4> HIDE DEF seqs, g, n, up
      <4>2. g[i - 1] = up(i - 1) /\ seqs[i] = <<s[i]>>
        BY <1>2, <1>3, <4>1
      <4>3. up(i) = up(i - 1) \o <<s[i]>>
        BY <1>5, <4>1
      <4> QED
        BY <3>2, <4>2, <4>3
    <3> QED
      BY <3>1, <3>2
  <2> HIDE DEF seqs
  <2> QED
    BY <1>2, <2>1 DEF FlattenStep
<1> HIDE DEF seqs, g, up
<1>7. FlattenSeq(seqs) = g[n]
  BY <1>1, <1>2, <1>6, FlattenFound
<1>8. g[n] = s
  BY <1>1, <1>3, <1>4
<1>9. FlattenSeq(seqs) = s
  BY <1>7, <1>8
<1> QED
  BY <1>9 DEF seqs

\* The first k rounds of flattening sequences of elements of S.
Rounds(S, seqs, k, f) ==
    /\ f \in [1 .. k -> Seq(S)]
    /\ \A i \in 1 .. k : f[i] = IF i = 1 THEN seqs[i] ELSE f[i - 1] \o seqs[i]

LEMMA OneRound ==
    ASSUME NEW S, NEW seqs, NEW k \in Nat \ {0}, seqs[k] \in Seq(S),
           k # 1 => \E f : Rounds(S, seqs, k - 1, f)
    PROVE  \E f : Rounds(S, seqs, k, f)
<1>1. CASE k = 1
  <2> DEFINE h == [i \in 1 .. 1 |-> seqs[1]]
  <2>1. Rounds(S, seqs, 1, h)
    BY <1>1 DEF Rounds
  <2> QED
    BY <1>1, <2>1
<1>2. CASE k # 1
  <2>1. PICK f : Rounds(S, seqs, k - 1, f)
    BY <1>2
  <2>2. k - 1 \in 1 .. k - 1 /\ f \in [1 .. k - 1 -> Seq(S)] /\ f[k - 1] \in Seq(S)
    BY <1>2, <2>1 DEF Rounds
  <2> DEFINE new == f[k - 1] \o seqs[k]
             h == [i \in 1 .. k |-> IF i = k THEN new ELSE f[i]]
  <2>3. new \in Seq(S)
    BY <2>2
  <2>4. \A i \in 1 .. k : i # k => i \in 1 .. k - 1 /\ f[i] \in Seq(S)
    BY <2>2
  <2> HIDE DEF new
  <2>5. h \in [1 .. k -> Seq(S)]
    BY <2>3, <2>4
  <2>6. h[k] = new /\ \A i \in 1 .. k - 1 : h[i] = f[i]
    OBVIOUS
  <2> HIDE DEF h
  <2>7. ASSUME NEW i \in 1 .. k
        PROVE  h[i] = IF i = 1 THEN seqs[i] ELSE h[i - 1] \o seqs[i]
    <3>1. CASE i = k
      BY <1>2, <2>2, <2>6, <3>1 DEF new
    <3>2. CASE i # k
      <4>1. i \in 1 .. k - 1 /\ (i # 1 => i - 1 \in 1 .. k - 1)
        BY <3>2
      <4>2. f[i] = IF i = 1 THEN seqs[i] ELSE f[i - 1] \o seqs[i]
        BY <2>1, <4>1 DEF Rounds
      <4> QED
        BY <2>6, <4>1, <4>2
    <3> QED
      BY <3>1, <3>2
  <2>8. Rounds(S, seqs, k, h)
    BY <2>5, <2>7 DEF Rounds
  <2> QED
    BY <2>8
<1> QED
  BY <1>1, <1>2

\* Whatever the sequences are, the result is a sequence.
LEMMA FlattenIsSeq ==
    ASSUME NEW S, NEW seqs, Len(seqs) \in Nat, DOMAIN seqs = 1 .. Len(seqs),
           Len(seqs) = 0 => seqs = <<>>,
           \A i \in DOMAIN seqs : seqs[i] \in Seq(S)
    PROVE  FlattenSeq(seqs) \in Seq(S)
<1> DEFINE n == Len(seqs)
           none == {k \in 1 .. n : ~\E f : Rounds(S, seqs, k, f)}
<1>1. CASE n = 0
  <2>1. <<>> \in Seq(S)
    OBVIOUS
  <2> QED
    BY <1>1, <2>1 DEF FlattenSeq
<1>2. CASE n # 0
  <2>1. none = {}
    <3> SUFFICES ASSUME none # {} PROVE FALSE
      OBVIOUS
    <3>1. none \in SUBSET Nat
      OBVIOUS
    <3>2. PICK k \in none : \A l \in none : k <= l
      <4> HIDE DEF none
      <4> QED
        BY <3>1, LeastNumber
    <3>3. k \in 1 .. n /\ seqs[k] \in Seq(S)
      OBVIOUS
    <3>4. k # 1 => k - 1 \in 1 .. n /\ k - 1 \notin none
      BY <3>2, <3>3
    <3>5. k # 1 => \E f : Rounds(S, seqs, k - 1, f)
      BY <3>4
    <3>6. \E f : Rounds(S, seqs, k, f)
      BY <3>3, <3>5, OneRound
    <3> QED
      BY <3>2, <3>6
  <2>2. n \in 1 .. n
    BY <1>2
  <2>3. PICK f : Rounds(S, seqs, n, f)
    BY <2>1, <2>2
  <2>4. FlattenStep(seqs, f)
    BY <2>3 DEF FlattenStep, Rounds
  <2>5. f[n] \in Seq(S)
    BY <2>2, <2>3 DEF Rounds
  <2> QED
    BY <1>2, <2>4, <2>5, FlattenFound
<1> QED
  BY <1>1, <1>2


----
(* The timeline of a job. *)

ClipOf(path, media, range) ==
    [path |-> path, start |-> range.start, duration |-> range.duration, rate |-> media.rate,
     effects |-> MakeEffectList(range.collection)]

TimelineWith(path, media, clips) ==
    [tracks |-> <<[name |-> Track, kind |-> media.type, clips |-> clips]>>,
     refs |-> <<[path |-> path, rate |-> media.rate, duration |-> media.frames]>>]

BaseTimeline(path, media) ==
    MakeMediaRef(AppendTrack(NewTimeline, Track, media.type), path, media.rate, media.frames)

LEMMA BaseIs == ASSUME NEW path, NEW media PROVE BaseTimeline(path, media) = TimelineWith(path, media, <<>>)
<1> DEFINE tl == AppendTrack(NewTimeline, Track, media.type)
<1>1. tl = [tracks |-> <<[name |-> Track, kind |-> media.type, clips |-> <<>>]>>, refs |-> <<>>]
  BY DEF AppendTrack, NewTimeline
<1>2. FindRef(tl, path) = {}
  BY <1>1 DEF FindRef
<1> QED
  BY <1>1, <1>2 DEF BaseTimeline, MakeMediaRef, TimelineWith

LEMMA AppendClipIs ==
    ASSUME NEW path, NEW media, NEW clips, NEW range
    PROVE  AppendClip(TimelineWith(path, media, clips), Track, range, path, MakeEffectList(range.collection))
           = TimelineWith(path, media, Append(clips, ClipOf(path, media, range)))
<1> DEFINE tl == TimelineWith(path, media, clips)
           clip == ClipOf(path, media, range)
<1>1. /\ tl.refs = <<[path |-> path, rate |-> media.rate, duration |-> media.frames]>>
      /\ tl.tracks = <<[name |-> Track, kind |-> media.type, clips |-> clips]>>
  BY DEF TimelineWith
<1>2. FindRef(tl, path) = {1} /\ FindTrack(tl, Track) = {1}
  <2>1. DOMAIN tl.refs = {1} /\ DOMAIN tl.tracks = {1}
    BY <1>1
  <2>2. tl.refs[1].path = path /\ tl.tracks[1].name = Track
    BY <1>1
  <2> QED
    BY <2>1, <2>2 DEF FindRef, FindTrack
<1>3. First({1}) = 1
  BY DEF First
<1>4. [path |-> path, start |-> range.start, duration |-> range.duration,
       rate |-> tl.refs[First(FindRef(tl, path))].rate, effects |-> MakeEffectList(range.collection)] = clip
  BY <1>1, <1>2, <1>3 DEF ClipOf
<1> HIDE DEF clip
<1>5. [tl EXCEPT !.tracks[First(FindTrack(tl, Track))].clips = Append(@, clip)]
      = TimelineWith(path, media, Append(clips, clip))
  <2> DEFINE one == [name |-> Track, kind |-> media.type, clips |-> clips]
             two == [name |-> Track, kind |-> media.type, clips |-> Append(clips, clip)]
  <2>1. [one EXCEPT !.clips = Append(@, clip)] = two
    OBVIOUS
  <2>2. tl.tracks[1] = one
    BY <1>1
  <2>3. [tl.tracks EXCEPT ![1] = two] = <<two>>
    <3> HIDE DEF one, two
    <3> QED
      BY <1>1 DEF one
  <2>4. [tl EXCEPT !.tracks = <<two>>] = TimelineWith(path, media, Append(clips, clip))
    <3> DEFINE tracks == <<one>>
               more == <<two>>
               refs == <<[path |-> path, rate |-> media.rate, duration |-> media.frames]>>
    <3>1. /\ tl = [tracks |-> tracks, refs |-> refs]
          /\ TimelineWith(path, media, Append(clips, clip)) = [tracks |-> more, refs |-> refs]
      BY DEF TimelineWith
    <3> HIDE DEF tracks, more, refs, tl
    <3>2. [tl EXCEPT !.tracks = more] = [tracks |-> more, refs |-> refs]
      BY <3>1
    <3> QED
      BY <3>1, <3>2 DEF more
  <2>5. [tl EXCEPT !.tracks = [tl.tracks EXCEPT ![1] = [tl.tracks[1] EXCEPT !.clips = Append(@, clip)]]]
        = TimelineWith(path, media, Append(clips, clip))
    <3> HIDE DEF one, two, tl
    <3> QED
      BY <2>1, <2>2, <2>3, <2>4
  <2> HIDE DEF tl
  <2> QED
    BY <1>2, <1>3, <2>5
<1> QED
  BY <1>4, <1>5 DEF AppendClip, clip

FilledBy(path, media, ranges, f) ==
    f = [n \in 0 .. Len(ranges) |->
            IF n = 0 THEN BaseTimeline(path, media)
            ELSE AppendClip(f[n - 1], Track, ranges[n], path, MakeEffectList(ranges[n].collection))]

LEMMA FillIs ==
    ASSUME NEW path, NEW media, NEW ranges
    PROVE  FillTimeline(path, media, ranges)
           = (CHOOSE f : FilledBy(path, media, ranges, f))[Len(ranges)]
  BY DEF FillTimeline, FilledBy, BaseTimeline

ClipsUpTo(path, media, ranges, n) == [i \in 1 .. n |-> ClipOf(path, media, ranges[i])]

\* A sequence that grows by its next element.
LEMMA OneMore ==
    ASSUME NEW f, NEW n \in Nat \ {0}
    PROVE  Append([i \in 1 .. n - 1 |-> f[i]], f[n]) = [i \in 1 .. n |-> f[i]]
<1> DEFINE S == {f[i] : i \in 1 .. n}
           a == [i \in 1 .. n - 1 |-> f[i]]
           b == [i \in 1 .. n |-> f[i]]
           c == f[n]
<1>1. a \in Seq(S) /\ Len(a) = n - 1 /\ c \in S /\ b \in Seq(S) /\ Len(b) = n
  OBVIOUS
<1>2. b = [i \in 1 .. n |-> IF i = n THEN c ELSE a[i]]
  OBVIOUS
<1> HIDE DEF a, b, c, S
<1>3. /\ Append(a, c) \in Seq(S) /\ Len(Append(a, c)) = n
      /\ \A i \in 1 .. n : Append(a, c)[i] = IF i = n THEN c ELSE a[i]
  BY <1>1
<1>4. Append(a, c) = b
  BY <1>1, <1>2, <1>3
<1> QED
  BY <1>4 DEF a, b, c

LEMMA FilledIs ==
    ASSUME NEW path, NEW media, NEW ranges, IsSequence(ranges)
    PROVE  FillTimeline(path, media, ranges)
           = TimelineWith(path, media, ClipsUpTo(path, media, ranges, Len(ranges)))
<1> DEFINE N == Len(ranges)
           T(n) == TimelineWith(path, media, ClipsUpTo(path, media, ranges, n))
           g == [n \in 0 .. N |-> T(n)]
           f == CHOOSE h : FilledBy(path, media, ranges, h)
<1>1. N \in Nat
  BY DEF IsSequence
<1>2. T(0) = BaseTimeline(path, media)
  <2>1. ClipsUpTo(path, media, ranges, 0) = <<>>
    BY DEF ClipsUpTo
  <2> QED
    BY <2>1, BaseIs
<1>3. ASSUME NEW n \in 1 .. N
      PROVE  T(n) = AppendClip(T(n - 1), Track, ranges[n], path, MakeEffectList(ranges[n].collection))
  <2> DEFINE before == ClipsUpTo(path, media, ranges, n - 1)
  <2>1. Append(before, ClipOf(path, media, ranges[n])) = ClipsUpTo(path, media, ranges, n)
    <3> DEFINE h == [i \in 1 .. n |-> ClipOf(path, media, ranges[i])]
    <3>1. n \in Nat \ {0} /\ h[n] = ClipOf(path, media, ranges[n])
      BY <1>1
    <3>2. before = [i \in 1 .. n - 1 |-> h[i]] /\ ClipsUpTo(path, media, ranges, n) = [i \in 1 .. n |-> h[i]]
      BY DEF ClipsUpTo
    <3> HIDE DEF h, before
    <3> QED
      BY <3>1, <3>2, OneMore
  <2> HIDE DEF before
  <2>2. AppendClip(TimelineWith(path, media, before), Track, ranges[n], path,
                   MakeEffectList(ranges[n].collection))
        = TimelineWith(path, media, Append(before, ClipOf(path, media, ranges[n])))
    BY AppendClipIs
  <2> QED
    BY <2>1, <2>2 DEF before
<1> HIDE DEF T, N
<1>4. FilledBy(path, media, ranges, g)
  <2>1. ASSUME NEW n \in 0 .. N
        PROVE  T(n) = IF n = 0 THEN BaseTimeline(path, media)
                      ELSE AppendClip(g[n - 1], Track, ranges[n], path, MakeEffectList(ranges[n].collection))
    <3>1. CASE n = 0
      BY <1>2, <3>1
    <3>2. CASE n # 0
      <4>1. n \in 1 .. N /\ n - 1 \in 0 .. N
        BY <1>1, <3>2
      <4> QED
        BY <1>3, <3>2, <4>1
    <3> QED
      BY <3>1, <3>2
  <2> QED
    BY <2>1 DEF FilledBy, N
<1>5. FilledBy(path, media, ranges, f)
  <2> HIDE DEF g
  <2> QED
    BY <1>4
<1> HIDE DEF f
<1>6. \A n \in 0 .. N : f[n] = IF n = 0 THEN BaseTimeline(path, media)
        ELSE AppendClip(f[n - 1], Track, ranges[n], path, MakeEffectList(ranges[n].collection))
  BY <1>5 DEF FilledBy, N
<1> DEFINE apart == {n \in 0 .. N : f[n] # T(n)}
<1>7. apart = {}
  <2> SUFFICES ASSUME apart # {} PROVE FALSE
    OBVIOUS
  <2>1. apart \in SUBSET Nat
    BY <1>1
  <2>2. PICK n \in apart : \A k \in apart : n <= k
    <3> HIDE DEF apart
    <3> QED
      BY <2>1, LeastNumber
  <2>3. n \in 0 .. N /\ f[n] # T(n)
    BY <2>2
  <2>4. CASE n = 0
    BY <1>2, <1>6, <2>3, <2>4
  <2>5. CASE n # 0
    <3>1. n \in 1 .. N /\ n - 1 \in 0 .. N
      BY <1>1, <2>3, <2>5
    <3>2. n - 1 \notin apart
      BY <2>2, <3>1
    <3>3. f[n - 1] = T(n - 1)
      BY <3>1, <3>2
    <3> QED
      BY <1>3, <1>6, <2>3, <2>5, <3>1, <3>3
  <2> QED
    BY <2>4, <2>5
<1>8. f[N] = T(N)
  BY <1>1, <1>7
<1> QED
  BY <1>8, FillIs DEF f, T, N

LEMMA ClipsOfTimeline ==
    ASSUME NEW path, NEW media, NEW clips
    PROVE  FindClips(TimelineWith(path, media, clips)) = clips
<1> DEFINE tl == TimelineWith(path, media, clips)
<1>1. DOMAIN tl.tracks = {1} /\ tl.tracks[1].clips = clips
  BY DEF TimelineWith
<1> HIDE DEF tl
<1>2. [i \in DOMAIN tl.tracks |-> tl.tracks[i].clips] = [i \in {1} |-> clips]
  BY <1>1
<1>3. [i \in {1} |-> clips] = <<clips>>
  OBVIOUS
<1>4. FindClips(tl) = FlattenSeq(<<clips>>)
  BY <1>2, <1>3 DEF FindClips
<1> QED
  BY <1>4, FlattenAlone DEF tl

\* The clips of a render are its ranges, in their order.
LEMMA ClipsAre ==
    ASSUME NEW r \in Renders, job[r] \in Jobs
    PROVE  Clips(r) = [i \in 1 .. Len(job[r].ranges) |->
                        ClipOf(MediaFile(r), job[r].media, job[r].ranges[i])]
<1>1. IsSequence(job[r].ranges)
  BY JobsAssumption
<1> QED
  BY <1>1, FilledIs, ClipsOfTimeline DEF Clips, ClipsUpTo

----
(* What ffmpeg can run. *)

Part(name, i) == <<name, i>>

LEMMA LabelsApart ==
    ASSUME NEW name \in {"crop", "s"}
    PROVE  /\ \A i, k \in Nat : (Part(name, i) = Part(name, k)) <=> (i = k)
           /\ \A i, k \in Nat : (Overlaid(i) = Overlaid(k)) <=> (i = k)
           /\ \A i, k \in Nat : Part(name, i) # Overlaid(k)
           /\ \A i \in Nat : Part(name, i) \notin {Video, Image, Unlabelled}
           /\ \A i \in Nat : Overlaid(i) \notin {Image, Unlabelled}
           /\ Overlaid(0) = Video /\ Unlabelled # Video /\ Unlabelled # Image
  BY DEF Part, Overlaid, Video, Image, Unlabelled

LEMMA FilterParts == \A ins, out : Filter(ins, out).ins = ins /\ Filter(ins, out).out = out
  BY DEF Filter

\* n filters make a part each, and n more lay one part after the other over the pictures.
Chain(n, name, input, graph) ==
    /\ DOMAIN graph = 1 .. n + n
    /\ \A i \in 1 .. n : graph[i] = Filter({input}, Part(name, i))
    /\ \A i \in 1 .. n : graph[n + i] = Filter({Overlaid(i - 1), Part(name, i)},
                                               IF i = n THEN Unlabelled ELSE Overlaid(i))

LEMMA ChainConnected ==
    ASSUME NEW n \in Nat \ {0}, NEW name \in {"crop", "s"}, NEW input \in {Video, Image},
           NEW graph, Chain(n, name, input, graph)
    PROVE  Connected(graph)
<1> DEFINE Writers(label) == {j \in DOMAIN graph : graph[j].out = label}
           Readers(label) == {j \in DOMAIN graph : label \in graph[j].ins}
           Out(j) == graph[j].out
           In(j) == graph[j].ins
<1>1. DOMAIN graph = 1 .. n + n
  BY DEF Chain
<1>2. \A i \in 1 .. n : Out(i) = Part(name, i) /\ In(i) = {input}
  BY FilterParts DEF Chain
<1>3. \A i \in 1 .. n : /\ Out(n + i) = IF i = n THEN Unlabelled ELSE Overlaid(i)
                        /\ In(n + i) = {Overlaid(i - 1), Part(name, i)}
  <2> TAKE i \in 1 .. n
  <2> DEFINE in == {Overlaid(i - 1), Part(name, i)}
             to == IF i = n THEN Unlabelled ELSE Overlaid(i)
  <2>1. graph[n + i] = Filter(in, to)
    BY DEF Chain
  <2> HIDE DEF in, to
  <2>2. Out(n + i) = to /\ In(n + i) = in
    BY <2>1, FilterParts
  <2> QED
    BY <2>2 DEF in, to
<1>4. \A j \in 1 .. n + n : j \in 1 .. n \/ \E i \in 1 .. n : j = n + i
  <2>1. \A j \in 1 .. n + n : j \notin 1 .. n => j - n \in 1 .. n /\ j = n + (j - n)
    OBVIOUS
  <2> QED
    BY <2>1
<1>5. \A i \in 1 .. n : i \in Nat /\ i - 1 \in Nat /\ i \in 1 .. n + n /\ n + i \in 1 .. n + n
  OBVIOUS
<1> HIDE DEF Out, In
<1>6. \A j \in 1 .. n + n : (Out(j) = Unlabelled) <=> (j = n + n)
  BY <1>2, <1>3, <1>4, <1>5, LabelsApart
<1>7. \A k \in 1 .. n, j \in 1 .. n + n : (Out(j) = Part(name, k)) <=> (j = k)
  BY <1>2, <1>3, <1>4, <1>5, LabelsApart
<1>8. \A k \in 1 .. n, j \in 1 .. n + n : (Part(name, k) \in In(j)) <=> (j = n + k)
  BY <1>2, <1>3, <1>4, <1>5, LabelsApart
<1>9. \A k \in 1 .. n - 1, j \in 1 .. n + n : (Out(j) = Overlaid(k)) <=> (j = n + k)
  BY <1>2, <1>3, <1>4, <1>5, LabelsApart
<1>10. \A k \in 1 .. n - 1, j \in 1 .. n + n : (Overlaid(k) \in In(j)) <=> (j = n + k + 1)
  BY <1>2, <1>3, <1>4, <1>5, LabelsApart
<1>11. \A x : Cardinality({x}) = 1
  BY FS_Singleton
<1>12. Cardinality(Writers(Unlabelled)) = 1
  <2>1. Writers(Unlabelled) = {n + n}
    BY <1>1, <1>6 DEF Out
  <2> QED
    BY <2>1, <1>11
<1>13. \A k \in 1 .. n : Cardinality(Readers(Part(name, k))) = 1 /\ Cardinality(Writers(Part(name, k))) = 1
  <2> TAKE k \in 1 .. n
  <2>1. Readers(Part(name, k)) = {n + k}
    BY <1>1, <1>5, <1>8 DEF In
  <2>2. Writers(Part(name, k)) = {k}
    BY <1>1, <1>5, <1>7 DEF Out
  <2> QED
    BY <2>1, <2>2, <1>11
<1>14. \A k \in 1 .. n - 1 : Cardinality(Readers(Overlaid(k))) = 1 /\ Cardinality(Writers(Overlaid(k))) = 1
  <2> TAKE k \in 1 .. n - 1
  <2>1. Readers(Overlaid(k)) = {n + k + 1}
    BY <1>1, <1>10 DEF In
  <2>2. Writers(Overlaid(k)) = {n + k}
    BY <1>1, <1>9 DEF Out
  <2> QED
    BY <2>1, <2>2, <1>11
<1> HIDE DEF Writers, Readers
<1>15. ASSUME NEW j \in 1 .. n + n, Out(j) # Unlabelled
       PROVE  Cardinality(Readers(Out(j))) = 1
  <2>1. CASE j \in 1 .. n
    BY <1>2, <1>13, <2>1
  <2>2. CASE \E i \in 1 .. n : j = n + i
    <3>1. PICK i \in 1 .. n : j = n + i
      BY <2>2
    <3>2. i \in 1 .. n - 1 /\ Out(j) = Overlaid(i)
      BY <1>3, <1>15, <3>1
    <3> QED
      BY <1>14, <3>2
  <2> QED
    BY <1>4, <2>1, <2>2
<1>16. ASSUME NEW j \in 1 .. n + n, NEW label \in In(j) \ {Video, Image}
       PROVE  Cardinality(Writers(label)) = 1
  <2>1. j \notin 1 .. n
    BY <1>2
  <2>2. PICK i \in 1 .. n : j = n + i
    BY <1>4, <2>1
  <2>3. label = Overlaid(i - 1) \/ label = Part(name, i)
    BY <1>3, <2>2
  <2>4. CASE label = Part(name, i)
    BY <1>13, <2>4
  <2>5. CASE label = Overlaid(i - 1)
    <3>1. i - 1 # 0
      BY <2>5, LabelsApart
    <3>2. i - 1 \in 1 .. n - 1
      BY <3>1
    <3> QED
      BY <1>14, <2>5, <3>2
  <2> QED
    BY <2>3, <2>4, <2>5
<1> QED
  BY <1>1, <1>12, <1>15, <1>16 DEF Connected, Writers, Readers, Out, In

\* Both graphs are such chains; the graph of a sticker is from two places on.
LEMMA BlurConnected == ASSUME NEW n \in Nat \ {0} PROVE Connected(BlurGraph(n))
<1> DEFINE a == [i \in 1 .. n |-> Filter({Video}, Crop(i))]
           b == [i \in 1 .. n |-> Filter({Overlaid(i - 1), Crop(i)},
                                         IF i = n THEN Unlabelled ELSE Overlaid(i))]
<1>1. Chain(n, "crop", Video, a \o b)
  <2> DEFINE S == {a[i] : i \in 1 .. n} \cup {b[i] : i \in 1 .. n}
  <2>1. Len(a) = n /\ Len(b) = n /\ a \in Seq(S) /\ b \in Seq(S)
    <3>1. \A i \in 1 .. n : a[i] \in S /\ b[i] \in S
      OBVIOUS
    <3>2. a = [i \in 1 .. n |-> a[i]] /\ b = [i \in 1 .. n |-> b[i]]
      OBVIOUS
    <3> HIDE DEF a, b, S
    <3>3. a \in [1 .. n -> S] /\ b \in [1 .. n -> S]
      BY <3>1, <3>2
    <3> QED
      BY <3>3
  <2> HIDE DEF a, b, S
  <2>2. DOMAIN (a \o b) = 1 .. n + n
    BY <2>1
  <2>3. \A i \in 1 .. n : (a \o b)[i] = a[i] /\ (a \o b)[n + i] = b[i]
    BY <2>1
  <2>4. \A i \in 1 .. n : Crop(i) = Part("crop", i)
    BY DEF Crop, Part
  <2> QED
    BY <2>2, <2>3, <2>4 DEF Chain, a, b
<1> QED
  BY <1>1, ChainConnected DEF BlurGraph

LEMMA StickerConnected == ASSUME NEW n \in Nat, n > 1 PROVE Connected(StickerGraph(n))
<1> DEFINE a == [i \in 1 .. n |-> Filter({Image}, Scaled(i))]
           b == [i \in 1 .. n |-> Filter({Overlaid(i - 1), Scaled(i)},
                                         IF i = n /\ i > 1 THEN Unlabelled ELSE Overlaid(i))]
<1>1. Chain(n, "s", Image, a \o b)
  <2> DEFINE S == {a[i] : i \in 1 .. n} \cup {b[i] : i \in 1 .. n}
  <2>1. Len(a) = n /\ Len(b) = n /\ a \in Seq(S) /\ b \in Seq(S)
    <3>1. \A i \in 1 .. n : a[i] \in S /\ b[i] \in S
      OBVIOUS
    <3>2. a = [i \in 1 .. n |-> a[i]] /\ b = [i \in 1 .. n |-> b[i]]
      OBVIOUS
    <3> HIDE DEF a, b, S
    <3>3. a \in [1 .. n -> S] /\ b \in [1 .. n -> S]
      BY <3>1, <3>2
    <3> QED
      BY <3>3
  <2> HIDE DEF a, b, S
  <2>2. DOMAIN (a \o b) = 1 .. n + n
    BY <2>1
  <2>3. \A i \in 1 .. n : (a \o b)[i] = a[i] /\ (a \o b)[n + i] = b[i]
    BY <2>1
  <2>4. \A i \in 1 .. n : Scaled(i) = Part("s", i)
    BY DEF Scaled, Part
  <2>5. \A i \in 1 .. n : (i = n /\ i > 1) <=> i = n
    OBVIOUS
  <2> QED
    BY <2>2, <2>3, <2>4, <2>5 DEF Chain, a, b
<1> QED
  BY <1>1, ChainConnected DEF StickerGraph

\* The frames of an effect: finitely many, a list of items at each.
HasFrames(e) ==
    IsFiniteSet(DOMAIN e.frames) /\ \A f \in DOMAIN e.frames : IsSequence(e.frames[f])

LEMMA ItemsAreCounted == ASSUME NEW e, HasFrames(e) PROVE Items(e) \in Nat
<1> DEFINE At(f) == {f} \X DOMAIN e.frames[f]
           all == {At(f) : f \in DOMAIN e.frames}
<1>1. \A f \in DOMAIN e.frames : IsFiniteSet(At(f))
  <2> TAKE f \in DOMAIN e.frames
  <2>1. IsFiniteSet(DOMAIN e.frames[f])
    BY FS_Interval DEF HasFrames, IsSequence
  <2>2. IsFiniteSet({f})
    BY FS_Singleton
  <2> QED
    BY <2>1, <2>2, FS_Product
<1>2. IsFiniteSet(DOMAIN e.frames)
  BY DEF HasFrames
<1> HIDE DEF At
<1>3. IsFiniteSet(all)
  <2> DEFINE at == [f \in DOMAIN e.frames |-> At(f)]
  <2>1. at \in Surjection(DOMAIN e.frames, all)
    BY DEF Surjection
  <2> HIDE DEF at, all
  <2> QED
    BY <1>2, <2>1, FS_Surjection
<1>4. IsFiniteSet(UNION all)
  BY <1>1, <1>3, FS_UNION
<1> QED
  BY <1>4, FS_CardinalityType DEF Items, all, At

\* What there is to draw, ffmpeg can draw.
LEMMA DrawableIsAccepted == ASSUME NEW e, HasFrames(e), Drawable(e) PROVE Accepts(e)
<1>1. Items(e) \in Nat \ {0}
  BY ItemsAreCounted DEF Drawable
<1>2. CASE e.name \in {"boxblur", "avgblur"}
  BY <1>1, <1>2, BlurConnected DEF Accepts
<1>3. CASE e.name = "sticker"
  BY <1>1, <1>3, StickerConnected DEF Accepts, Drawable
<1>4. CASE e.name \in {"drawbox", "drawtext"}
  BY <1>1, <1>4 DEF Accepts, FilterList
<1>5. DOMAIN e.frames # {}
  <2> SUFFICES ASSUME DOMAIN e.frames = {} PROVE FALSE
    OBVIOUS
  <2>1. UNION {{f} \X DOMAIN e.frames[f] : f \in DOMAIN e.frames} = {}
    OBVIOUS
  <2> QED
    BY <1>1, <2>1, FS_EmptySet DEF Items
<1>6. CASE e.name \notin {"boxblur", "avgblur", "sticker", "drawbox", "drawtext"}
  BY <1>5, <1>6 DEF Accepts, EnabledAt
<1> QED
  BY <1>2, <1>3, <1>4, <1>6

----
(* What an undisturbed render shows. *)

Calm(r) == job[r].plugin = "FFMPEGRender" /\ Renderable(r) /\ troubled[r] = {} /\ ~met[r]

NamesUpTo(r, k) == [i \in 1 .. k |-> Effects(r)[i].name]
DrawnUpTo(r, k) == <<[of |-> r, drawn |-> NamesUpTo(r, k), from |-> 0, to |-> 0]>>

PieceOf(r, clip) ==
    [of |-> r, drawn |-> NamesUpTo(r, Len(Effects(r))),
     from |-> AtTime(clip.start, clip.rate), to |-> AtTime(clip.start + clip.duration, clip.rate)]
Pieces(r) == [i \in 1 .. Len(Clips(r)) |-> PieceOf(r, Clips(r)[i])]

Holding(p, content) == Exists(p) /\ files[p] = content

\* A render that has not begun has drawn nothing, and only OTIORender writes timelines.
Fresh(r) ==
    /\ pc[r] = "none" => step[r] = 0 /\ effectFile[r] = NoFile
    /\ pc[r] = "write" => job[r].plugin # "FFMPEGRender"

\* The next effect file has a name that no render uses.
Numbered(r) == effectFile[r] = NoFile \/ \E n \in 0 .. fileNum - 1 : effectFile[r] = EffectFile(n)

Lone(r) == Active(r) /\ ~met[r] => \A s \in Renders : s # r => ~Active(s)

\* While drawing, the source has the effects so far; while cutting, all of them, and the
\* clips so far are there; from then on the output is.
Shows(r) ==
    /\ pc[r] = "draw" => /\ step[r] <= Len(Effects(r))
                         /\ Holding(Source(r), DrawnUpTo(r, step[r]))
    /\ pc[r] = "cut" => /\ step[r] <= Len(Clips(r))
                        /\ Holding(Source(r), DrawnUpTo(r, Len(Effects(r))))
                        /\ \A i \in 1 .. step[r] : Holding(ClipFile(i), <<PieceOf(r, Clips(r)[i])>>)
    /\ pc[r] \in {"sweep", "finish"} \/ told[r] = "NONE" => Holding(Output(r), Pieces(r))

OutputInv ==
    /\ job \in [Renders -> Jobs] /\ met \in [Renders -> BOOLEAN]
    /\ \A r \in Renders : Fresh(r) /\ Numbered(r) /\ Lone(r) /\ (Calm(r) => Shows(r))

\* What the lemmas below assume of a state.
Sound == TypeOK /\ Intact(files) /\ OutputInv

LEMMA EffectsAre ==
    ASSUME NEW r \in Renders, job[r] \in Jobs
    PROVE  /\ Len(Effects(r)) \in Nat
           /\ DOMAIN Effects(r) = 1 .. Len(Effects(r))
           /\ \A k \in DOMAIN Effects(r) : HasFrames(Effects(r)[k])
<1> DEFINE ranges == job[r].ranges
           of(i) == MakeEffectList(ranges[i].collection)
           S == UNION {{of(i)[k] : k \in DOMAIN of(i)} : i \in DOMAIN ranges}
           seqs == [i \in DOMAIN Clips(r) |-> Clips(r)[i].effects]
<1>1. IsSequence(ranges) /\ \A i \in DOMAIN ranges :
          /\ IsSequence(ranges[i].collection)
          /\ \A k \in DOMAIN ranges[i].collection :
                LET details == ranges[i].collection[k].details
                IN IsFiniteSet(DOMAIN details) /\ \A f \in DOMAIN details : IsSequence(details[f])
  BY JobsAssumption
<1>2. ASSUME NEW i \in DOMAIN ranges
      PROVE  of(i) \in Seq(S) /\ \A k \in DOMAIN of(i) : HasFrames(of(i)[k])
  <2>1. /\ DOMAIN of(i) = 1 .. Len(ranges[i].collection) /\ Len(ranges[i].collection) \in Nat
        /\ \A k \in DOMAIN of(i) : of(i)[k].frames = ranges[i].collection[k].details
    BY <1>1 DEF MakeEffectList, IsSequence
  <2>2. of(i) = [k \in 1 .. Len(ranges[i].collection) |-> of(i)[k]]
    BY <1>1 DEF MakeEffectList, IsSequence
  <2>3. \A k \in DOMAIN of(i) : of(i)[k] \in S
    OBVIOUS
  <2>4. of(i) \in Seq(S)
    <3> HIDE DEF of, S, ranges
    <3>1. of(i) \in [1 .. Len(ranges[i].collection) -> S]
      BY <2>1, <2>2, <2>3
    <3> QED
      BY <2>1, <3>1
  <2>5. \A k \in DOMAIN of(i) : HasFrames(of(i)[k])
    BY <1>1, <2>1 DEF HasFrames, IsSequence
  <2> QED
    BY <2>4, <2>5
<1>3. DOMAIN Clips(r) = DOMAIN ranges /\ \A i \in DOMAIN ranges : Clips(r)[i].effects = of(i)
  BY <1>1, ClipsAre DEF ClipOf, IsSequence
<1>4. \A e \in S : HasFrames(e)
  BY <1>2
<1>5. DOMAIN seqs = DOMAIN ranges /\ \A i \in DOMAIN ranges : seqs[i] = of(i)
  BY <1>3
<1>6. seqs = [i \in 1 .. Len(ranges) |-> of(i)] /\ Len(ranges) \in Nat
  BY <1>1, <1>3 DEF IsSequence
<1> HIDE DEF of, S, ranges
<1>7. Len(seqs) = Len(ranges) /\ (Len(seqs) = 0 => seqs = <<>>)
  BY <1>6
<1> HIDE DEF seqs
<1>8. FlattenSeq(seqs) \in Seq(S)
  BY <1>2, <1>5, <1>6, <1>7, FlattenIsSeq DEF IsSequence, seqs
<1>9. Effects(r) \in Seq(S)
  BY <1>8 DEF Effects, seqs
<1>10. Len(Effects(r)) \in Nat /\ DOMAIN Effects(r) = 1 .. Len(Effects(r))
       /\ \A k \in DOMAIN Effects(r) : Effects(r)[k] \in S
  <2> DEFINE s == Effects(r)
  <2> HIDE DEF s
  <2>1. s \in Seq(S) => Len(s) \in Nat /\ DOMAIN s = 1 .. Len(s) /\ \A k \in DOMAIN s : s[k] \in S
    OBVIOUS
  <2> QED
    BY <1>9, <2>1 DEF s
<1> QED
  BY <1>4, <1>10

LEMMA ClipsCounted ==
    ASSUME NEW r \in Renders, job[r] \in Jobs
    PROVE  /\ Len(Clips(r)) = Len(job[r].ranges) /\ Len(Clips(r)) \in Nat
           /\ DOMAIN Clips(r) = 1 .. Len(Clips(r))
           /\ Clips(r) = <<>> <=> Len(Clips(r)) = 0
<1>1. IsSequence(job[r].ranges)
  BY JobsAssumption
<1>2. Len(job[r].ranges) \in Nat
  BY <1>1 DEF IsSequence
<1>3. Clips(r) = [i \in 1 .. Len(job[r].ranges) |-> ClipOf(MediaFile(r), job[r].media, job[r].ranges[i])]
  BY ClipsAre
<1> QED
  BY <1>2, <1>3

\* Every effect of a calm render is one ffmpeg accepts.
LEMMA CalmDraws ==
    ASSUME NEW r \in Renders, job[r] \in Jobs, Renderable(r), NEW k \in 1 .. Len(Effects(r))
    PROVE  KnowsEffect(Effects(r)[k].name) /\ Accepts(Effects(r)[k])
<1>1. k \in DOMAIN Effects(r) /\ HasFrames(Effects(r)[k])
  BY EffectsAre
<1>2. Drawable(Effects(r)[k])
  BY <1>1 DEF Renderable
<1> QED
  BY <1>1, <1>2, DrawableIsAccepted DEF Drawable

LEMMA Redrawn ==
    ASSUME NEW r, NEW drawn, NEW from, NEW to, NEW more
    PROVE  [[of |-> r, drawn |-> drawn, from |-> from, to |-> to] EXCEPT !.drawn = more]
           = [of |-> r, drawn |-> more, from |-> from, to |-> to]
  OBVIOUS

Trimmed(piece, start, end) == [piece EXCEPT !.from = start, !.to = end]

LEMMA Recut ==
    ASSUME NEW r, NEW drawn, NEW from, NEW to, NEW start, NEW end,
           NEW piece, piece = [of |-> r, drawn |-> drawn, from |-> from, to |-> to]
    PROVE  Trimmed(piece, start, end)
           = [of |-> r, drawn |-> drawn, from |-> start, to |-> end]
<1> DEFINE cut == [piece EXCEPT !.from = start, !.to = end]
           all == [of |-> r, drawn |-> drawn, from |-> start, to |-> end]
<1>1. DOMAIN piece = {"of", "drawn", "from", "to"} /\ DOMAIN cut = DOMAIN piece
  OBVIOUS
<1>2. /\ cut = [f \in DOMAIN cut |-> cut[f]] /\ piece.of = r /\ piece.drawn = drawn
      /\ cut.of = piece.of /\ cut.drawn = piece.drawn /\ cut.from = start /\ cut.to = end
  OBVIOUS
<1>3. /\ all = [f \in DOMAIN all |-> all[f]] /\ DOMAIN all = {"of", "drawn", "from", "to"}
      /\ all.of = r /\ all.drawn = drawn /\ all.from = start /\ all.to = end
  OBVIOUS
<1>4. Trimmed(piece, start, end) = cut
  BY DEF Trimmed
<1>5. cut = all
  <2> HIDE DEF cut, all
  <2> QED
    BY <1>1, <1>2, <1>3
<1> QED
  BY <1>4, <1>5

LEMMA DrawnOnIs ==
    ASSUME NEW r \in Renders, NEW k \in Nat
    PROVE  DrawnOn(DrawnUpTo(r, k), Effects(r)[k + 1]) = DrawnUpTo(r, k + 1)
<1> DEFINE f == [i \in 1 .. k + 1 |-> Effects(r)[i].name]
           short == NamesUpTo(r, k)
           long == NamesUpTo(r, k + 1)
<1>1. Append(short, Effects(r)[k + 1].name) = long
  <2>1. k + 1 \in Nat \ {0} /\ (k + 1) - 1 = k /\ f[k + 1] = Effects(r)[k + 1].name
    OBVIOUS
  <2>2. short = [i \in 1 .. k |-> f[i]] /\ long = [i \in 1 .. k + 1 |-> f[i]]
    BY DEF NamesUpTo
  <2> HIDE DEF f, short, long
  <2>3. Append([i \in 1 .. k |-> f[i]], f[k + 1]) = [i \in 1 .. k + 1 |-> f[i]]
    BY <2>1, OneMore
  <2> QED
    BY <2>1, <2>2, <2>3
<1> HIDE DEF short, long
<1>2. DrawnUpTo(r, k)[1] = [of |-> r, drawn |-> short, from |-> 0, to |-> 0]
  BY DEF DrawnUpTo, short
<1>3. DrawnUpTo(r, k + 1) = <<[of |-> r, drawn |-> long, from |-> 0, to |-> 0]>>
  BY DEF DrawnUpTo, long
<1>4. [DrawnUpTo(r, k)[1] EXCEPT !.drawn = Append(@, Effects(r)[k + 1].name)]
      = [of |-> r, drawn |-> long, from |-> 0, to |-> 0]
  <2> DEFINE piece == [of |-> r, drawn |-> short, from |-> 0, to |-> 0]
  <2>1. [piece EXCEPT !.drawn = long] = [of |-> r, drawn |-> long, from |-> 0, to |-> 0]
    BY Redrawn
  <2>0. piece.drawn = short
    OBVIOUS
  <2> HIDE DEF piece
  <2>2. DrawnUpTo(r, k)[1] = piece
    BY <1>2 DEF piece
  <2> QED
    BY <1>1, <2>0, <2>1, <2>2
<1> QED
  BY <1>3, <1>4 DEF DrawnOn

LEMMA OriginalIs == ASSUME NEW r \in Renders PROVE Original(r) = DrawnUpTo(r, 0)
<1>1. NamesUpTo(r, 0) = <<>>
  BY DEF NamesUpTo
<1> QED
  BY <1>1 DEF Original, DrawnUpTo

LEMMA CutOutIs ==
    ASSUME NEW r \in Renders, NEW clip, files[Source(r)] = DrawnUpTo(r, Len(Effects(r)))
    PROVE  CutOut(r, clip) = <<PieceOf(r, clip)>>
<1> DEFINE names == NamesUpTo(r, Len(Effects(r)))
           from == AtTime(clip.start, clip.rate)
           to == AtTime(clip.start + clip.duration, clip.rate)
<1>1. files[Source(r)][1] = [of |-> r, drawn |-> names, from |-> 0, to |-> 0]
  BY DEF DrawnUpTo
<1> HIDE DEF names, from, to
<1>2. [files[Source(r)][1] EXCEPT !.from = from, !.to = to]
      = [of |-> r, drawn |-> names, from |-> from, to |-> to]
  <2> DEFINE zero == 0
             piece == files[Source(r)][1]
  <2>1. piece = [of |-> r, drawn |-> names, from |-> zero, to |-> zero]
    BY <1>1
  <2> HIDE DEF zero, piece
  <2>2. Trimmed(piece, from, to) = [of |-> r, drawn |-> names, from |-> from, to |-> to]
    BY <2>1, Recut
  <2> QED
    BY <2>2 DEF piece, Trimmed
<1> QED
  BY <1>2 DEF CutOut, PieceOf, names, from, to

LEMMA SameJob ==
    ASSUME UNCHANGED job, NEW r
    PROVE  /\ Clips(r)' = Clips(r) /\ Effects(r)' = Effects(r) /\ Renderable(r)' = Renderable(r)
           /\ Pieces(r)' = Pieces(r)
           /\ \A k : DrawnUpTo(r, k)' = DrawnUpTo(r, k)
           /\ \A clip : PieceOf(r, clip)' = PieceOf(r, clip)
<1>1. Clips(r)' = Clips(r)
  BY DEF Clips
<1>2. Effects(r)' = Effects(r)
  BY <1>1 DEF Effects
<1> USE <1>1, <1>2
<1>3. Renderable(r)' = Renderable(r)
  BY DEF Renderable
<1>4. \A k : NamesUpTo(r, k)' = NamesUpTo(r, k)
  BY DEF NamesUpTo
<1>5. \A clip : PieceOf(r, clip)' = PieceOf(r, clip)
  BY <1>4 DEF PieceOf
<1> QED
  BY <1>3, <1>4, <1>5 DEF Pieces, DrawnUpTo

LEMMA JobStays == ASSUME NEW r \in Renders, Step(r) PROVE UNCHANGED job
  BY DEF Step, Begin, WriteTimeline, Draw, DrawThrows, AllDrawn, CutClip, Rename, Concat, Sweep, Finish

\* Who is not active can only begin.
LEMMA OnlyActiveStep ==
    ASSUME NEW r \in Renders, Step(r), ~Active(r)
    PROVE  Begin(r)
  BY DEF Step, Active, Begin, WriteTimeline, Draw, DrawThrows, AllDrawn, CutClip, AllCut, Rename,
         Concat, Sweep, Finish

\* What speaks against calm is never forgotten.
LEMMA CalmWas ==
    ASSUME Sound, NEW r \in Renders, Step(r), NEW s \in Renders, Calm(s)'
    PROVE  Calm(s)
<1> USE DEF Sound, TypeOK, OutputInv
<1>1. UNCHANGED job
  BY JobStays
<1>2. Renderable(s)' = Renderable(s)
  BY <1>1, SameJob
<1>3. met[s] => met'[s]
  <2>1. CASE Begin(r)
    BY <2>1, BeginFacts
  <2>2. CASE ~Begin(r)
    BY <2>2 DEF Step, WriteTimeline, Draw, DrawThrows, AllDrawn, CutClip, Rename, Concat, Sweep, Finish
  <2> QED
    BY <2>1, <2>2
<1>4. troubled[s] \subseteq troubled'[s]
  <2>1. \/ troubled' = troubled
        \/ \E k \in {"command", "rename"} : troubled' = [troubled EXCEPT ![r] = @ \cup {k}]
    BY DEF Step, Trouble, Begin, WriteTimeline, Draw, DrawThrows, AllDrawn, CutClip, Rename, Concat,
           Sweep, Finish
  <2> QED
    BY <2>1
<1> QED
  BY <1>1, <1>2, <1>3, <1>4 DEF Calm

LEMMA OutputsApart ==
    /\ \A s, x : Output(s) # ClipFile(x) /\ Output(s) # EffectFile(x) /\ Output(s) # MediaFile(x)
    /\ \A s : Output(s) # NoFile
    /\ \A s, x : Output(s) = Output(x) => s = x
    /\ \A s, x : EffectFile(s) # ClipFile(x) /\ MediaFile(s) # ClipFile(x)
    /\ \A s, x : ClipFile(s) = ClipFile(x) => s = x
    /\ \A s, x : EffectFile(s) = EffectFile(x) => s = x
    /\ \A s, x : EffectFile(s) # MediaFile(x) /\ EffectFile(s) # NoFile
    /\ \A s, x : Output(s) # DebugFile(x) /\ MediaFile(s) # DebugFile(x)
  BY DEF Output, DebugFile, ClipFile, EffectFile, MediaFile, NoFile

LEMMA HoldingStays ==
    ASSUME NEW p, NEW content, Holding(p, content)
    PROVE  /\ \A q, c : q # p => p \in DOMAIN With(q, c) /\ With(q, c)[p] = content
           /\ \A ps : p \notin ps => p \in DOMAIN Without(files, ps) /\ Without(files, ps)[p] = content
           /\ \A q, c, ps : q # p /\ p \notin ps => /\ p \in DOMAIN Without(With(q, c), ps)
                                                    /\ Without(With(q, c), ps)[p] = content
  BY DEF Holding, Exists, With, Without

LEMMA HoldingMade ==
    ASSUME NEW p, NEW c
    PROVE  /\ p \in DOMAIN With(p, c) /\ With(p, c)[p] = c
           /\ \A ps : p \notin ps => /\ p \in DOMAIN Without(With(p, c), ps)
                                     /\ Without(With(p, c), ps)[p] = c
  BY DEF With, Without

\* No other render touches the output.
LEMMA OutputStays ==
    ASSUME Sound, NEW r \in Renders, Step(r), NEW s \in Renders, s # r,
           NEW content, Holding(Output(s), content)
    PROVE  Holding(Output(s), content)'
<1> DEFINE p == Output(s)
<1>1. p # Output(r) /\ effectFile[r] # p /\ Source(r) # p
  <2>1. effectFile[r] \in EffectFiles \cup {NoFile}
    BY DEF Sound, TypeOK
  <2> QED
    BY <2>1, OutputsApart DEF EffectFiles, Source
<1>2. p \in DOMAIN files' /\ files'[p] = content
  <2> HIDE DEF p
  <2> USE HoldingStays
  <2>1. CASE WriteTimeline(r)
    BY <1>1, <2>1 DEF WriteTimeline, p, Holding, Exists
  <2>2. CASE Draw(r)
    <3>1. p \notin Consumed(r) /\ p # EffectFile(fileNum)
      BY <1>1, OutputsApart DEF Consumed, p
    <3>2. PICK c : \/ files' = Without(With(EffectFile(fileNum), c), Consumed(r))
                   \/ files' = Without(files, Consumed(r))
      BY <2>2 DEF Draw
    <3> QED
      BY <3>1, <3>2 DEF p
  <2>3. CASE CutClip(r)
    <3>1. PICK i, c : files' = With(ClipFile(i), c) \/ files' = files
      BY <2>3 DEF CutClip
    <3> QED
      BY <3>1, OutputsApart DEF p, Holding, Exists
  <2>4. CASE Rename(r)
    <3>1. PICK c : files' = Without(With(Output(r), c), {ClipFile(1)}) \/ files' = files
      BY <2>4 DEF Rename
    <3>2. p \notin {ClipFile(1)}
      BY OutputsApart DEF p
    <3> QED
      BY <1>1, <3>1, <3>2 DEF p, Holding, Exists
  <2>5. CASE Concat(r)
    <3>1. PICK c : files' = With(Output(r), c) \/ files' = files
      BY <2>5 DEF Concat
    <3> QED
      BY <1>1, <3>1 DEF p, Holding, Exists
  <2>6. CASE Sweep(r)
    <3>1. files' = Without(files, Swept(r)) /\ p \notin Swept(r)
      BY <2>6, OutputsApart DEF Sweep, Swept, p
    <3> QED
      BY <3>1 DEF p
  <2>7. CASE Finish(r)
    <3>1. files' = Without(files, {effectFile[r]}) /\ p \notin {effectFile[r]}
      BY <1>1, <2>7 DEF Finish
    <3> QED
      BY <3>1 DEF p
  <2>8. CASE DrawThrows(r) \/ AllDrawn(r)
    <3>1. files' = files
      BY <2>8 DEF DrawThrows, AllDrawn
    <3> QED
      BY <3>1 DEF p, Holding, Exists
  <2>9. CASE Begin(r)
    <3>1. PICK c : files' = With(DebugFile(r), c) \/ files' = files
      BY <2>9, BeginFacts
    <3>2. p # DebugFile(r)
      BY OutputsApart DEF p
    <3> QED
      BY <3>1, <3>2 DEF p, Holding, Exists
  <2> QED
    BY <2>9, <2>1, <2>2, <2>3, <2>4, <2>5, <2>6, <2>7, <2>8 DEF Step
<1> QED
  BY <1>2 DEF Holding, Exists

\* While a calm render is active no other one steps.
LEMMA OthersShow ==
    ASSUME Sound, NEW r \in Renders, Step(r), NEW s \in Renders, s # r, Calm(s)'
    PROVE  Shows(s)'
<1>1. /\ pc'[s] = pc[s] /\ step'[s] = step[s] /\ effectFile'[s] = effectFile[s]
      /\ told'[s] = told[s]
  BY OthersUntouched DEF Sound
<1>2. Calm(s) /\ Shows(s) /\ Lone(s)
  BY CalmWas DEF Sound, OutputInv
<1>3. ~Active(s)
  <2> SUFFICES ASSUME Active(s) PROVE FALSE
    OBVIOUS
  <2>1. Begin(r)
    BY <1>2, OnlyActiveStep DEF Lone, Calm
  <2>2. met'[s]
    BY <2>1, BeginFacts
  <2> QED
    BY <2>2 DEF Calm
<1>4. pc[s] \in {"none", "ended"}
  BY <1>3 DEF Active
<1>5. Pieces(s)' = Pieces(s)
  BY JobStays, SameJob
<1>6. told[s] = "NONE" => Holding(Output(s), Pieces(s))'
  <2> SUFFICES ASSUME told[s] = "NONE" PROVE Holding(Output(s), Pieces(s))'
    OBVIOUS
  <2>1. Holding(Output(s), Pieces(s))
    BY <1>2 DEF Shows
  <2> DEFINE content == Pieces(s)
  <2>2. Holding(Output(s), content)'
    BY <2>1, <1>5, OutputStays DEF Holding, Exists
  <2> QED
    BY <2>2
<1> QED
  BY <1>1, <1>4, <1>6 DEF Shows

\* Its own steps.
LEMMA BeginShows ==
    ASSUME Sound, NEW r \in Renders, Begin(r), Calm(r)', told[r] # "NONE"
    PROVE  Shows(r)'
<1>0. Step(r)
  BY DEF Step
<1>1. UNCHANGED <<job, step, effectFile>> /\ pc[r] = "none"
  BY BeginFacts
<1>2. Calm(r) /\ job[r] \in Jobs /\ Fresh(r)
  BY <1>0, CalmWas DEF Sound, OutputInv
<1>3. Clips(r) # <<>>
  BY <1>2, ClipsCounted DEF Calm, Renderable
<1>4. /\ told'[r] # "NONE"
      /\ pc'[r] = "draw" \/ pc'[r] = "ended"
  BY <1>2, <1>3, BeginGoes DEF Calm, Sound
<1>5. step[r] = 0 /\ Source(r)' = MediaFile(r)
  BY <1>1, <1>2 DEF Fresh, Source
<1>6. MediaFile(r) \in DOMAIN files' /\ files'[MediaFile(r)] = DrawnUpTo(r, 0)
  <2>1. Holding(MediaFile(r), DrawnUpTo(r, 0))
    BY OriginalIs DEF Sound, Intact, Holding, Exists
  <2>2. PICK c : files' = With(DebugFile(r), c) \/ files' = files
    BY BeginFacts
  <2>3. MediaFile(r) # DebugFile(r)
    BY OutputsApart
  <2> QED
    BY <2>1, <2>2, <2>3, HoldingStays DEF Holding, Exists
<1>7. DrawnUpTo(r, 0)' = DrawnUpTo(r, 0) /\ Effects(r)' = Effects(r)
  BY <1>1, SameJob
<1>8. Holding(Source(r), DrawnUpTo(r, step[r]))'
  BY <1>1, <1>5, <1>6, <1>7 DEF Holding, Exists
<1>9. step'[r] <= Len(Effects(r))'
  BY <1>1, <1>2, <1>5, <1>7, EffectsAre
<1> QED
  BY <1>1, <1>4, <1>8, <1>9 DEF Shows

LEMMA DrawShows ==
    ASSUME Sound, NEW r \in Renders, Draw(r), Calm(r)', told[r] # "NONE"
    PROVE  Shows(r)'
<1> DEFINE k == step[r]
           output == EffectFile(fileNum)
           e == Effects(r)[k + 1]
<1>0. Step(r)
  BY DEF Step
<1>1. /\ pc[r] = "draw" /\ pc' = pc /\ told' = told /\ job' = job /\ k < Len(Effects(r))
      /\ step' = [step EXCEPT ![r] = @ + 1] /\ effectFile' = [effectFile EXCEPT ![r] = output]
  BY DEF Draw
<1>2. Calm(r) /\ job[r] \in Jobs /\ Shows(r) /\ Numbered(r)
  BY <1>0, CalmWas DEF Sound, OutputInv
<1>3. Len(Effects(r)) \in Nat /\ k \in Nat /\ k + 1 \in 1 .. Len(Effects(r))
  BY <1>1, <1>2, EffectsAre DEF Sound, TypeOK
<1>4. KnowsEffect(e.name) /\ Accepts(e)
  BY <1>2, <1>3, CalmDraws DEF Calm
<1>5. Holding(Source(r), DrawnUpTo(r, k))
  BY <1>1, <1>2 DEF Shows
<1>6. output \notin Consumed(r)
  <2>1. fileNum \in Nat
    BY DEF Sound, TypeOK
  <2>2. effectFile[r] # output
    BY <1>2, <2>1, OutputsApart DEF Numbered
  <2> QED
    BY <2>2, OutputsApart DEF Consumed, Source
<1>7. files' = Without(With(output, DrawnOn(files[Source(r)], e)), Consumed(r))
  <2>1. Exists(Source(r))
    BY <1>5 DEF Holding
  <2>2. ~Trouble(r, "command")
    BY DEF Calm, Trouble, Sound, TypeOK
  <2> QED
    BY <1>4, <2>1, <2>2 DEF Draw
<1>8. DrawnOn(files[Source(r)], e) = DrawnUpTo(r, k + 1)
  BY <1>3, <1>5, DrawnOnIs DEF Holding
<1>9. output \in DOMAIN files' /\ files'[output] = DrawnUpTo(r, k + 1)
  BY <1>6, <1>7, <1>8, HoldingMade
<1>10. Source(r)' = output /\ step'[r] = k + 1
  BY <1>1, OutputsApart DEF Source, Sound, TypeOK
<1>11. Effects(r)' = Effects(r) /\ DrawnUpTo(r, step[r])' = DrawnUpTo(r, k + 1)
  BY <1>1, <1>10, SameJob DEF DrawnUpTo, NamesUpTo
<1>12. Holding(Source(r), DrawnUpTo(r, step[r]))'
  BY <1>9, <1>10, <1>11 DEF Holding, Exists
<1>13. step'[r] <= Len(Effects(r))'
  BY <1>3, <1>10, <1>11
<1> QED
  BY <1>1, <1>12, <1>13 DEF Shows

LEMMA DrawnShows ==
    ASSUME Sound, NEW r \in Renders, AllDrawn(r), Calm(r)', told[r] # "NONE"
    PROVE  Shows(r)'
<1>0. Step(r)
  BY DEF Step
<1>1. /\ pc[r] = "draw" /\ UNCHANGED <<told, job, files, effectFile>>
      /\ step[r] = Len(Effects(r)) /\ pc'[r] = "cut" /\ step'[r] = 0
  BY DEF AllDrawn, Goto, Sound, TypeOK
<1>2. Calm(r) /\ job[r] \in Jobs /\ Shows(r)
  BY <1>0, CalmWas DEF Sound, OutputInv
<1>3. Holding(Source(r), DrawnUpTo(r, Len(Effects(r))))
  BY <1>1, <1>2 DEF Shows
<1>4. /\ Effects(r)' = Effects(r) /\ Clips(r)' = Clips(r)
      /\ DrawnUpTo(r, Len(Effects(r)))' = DrawnUpTo(r, Len(Effects(r))) /\ Source(r)' = Source(r)
  BY <1>1, SameJob DEF Source, DrawnUpTo, NamesUpTo
<1>5. Holding(Source(r), DrawnUpTo(r, Len(Effects(r))))'
  BY <1>1, <1>3, <1>4 DEF Holding, Exists
<1>6. step'[r] <= Len(Clips(r))'
  BY <1>1, <1>2, <1>4, ClipsCounted
<1>7. \A i \in 1 .. step'[r] : FALSE
  BY <1>1
<1> QED
  BY <1>1, <1>5, <1>6, <1>7 DEF Shows

LEMMA CutShows ==
    ASSUME Sound, NEW r \in Renders, CutClip(r), Calm(r)', told[r] # "NONE"
    PROVE  Shows(r)'
<1> DEFINE i == step[r] + 1
           content == DrawnUpTo(r, Len(Effects(r)))
           piece(k) == <<PieceOf(r, Clips(r)[k])>>
<1>0. Step(r)
  BY DEF Step
<1>1. /\ pc[r] = "cut" /\ UNCHANGED <<pc, told, job, effectFile>>
      /\ i <= Len(Clips(r)) /\ step'[r] = i /\ step[r] \in Nat
  BY DEF CutClip, Sound, TypeOK
<1>2. Calm(r) /\ job[r] \in Jobs /\ Shows(r)
  BY <1>0, CalmWas DEF Sound, OutputInv
<1>3. Holding(Source(r), content) /\ \A k \in 1 .. step[r] : Holding(ClipFile(k), piece(k))
  BY <1>1, <1>2 DEF Shows
<1>4. files' = With(ClipFile(i), piece(i))
  <2>1. Exists(Source(r)) /\ CutOut(r, Clips(r)[i]) = piece(i)
    BY <1>3, CutOutIs DEF Holding
  <2>2. ~Trouble(r, "command")
    BY DEF Calm, Trouble, Sound, TypeOK
  <2> QED
    BY <2>1, <2>2 DEF CutClip
<1>5. Effects(r)' = Effects(r) /\ Clips(r)' = Clips(r) /\ content' = content /\ Source(r)' = Source(r)
  BY <1>1, SameJob DEF Source, DrawnUpTo, NamesUpTo
<1>6. \A k : piece(k)' = piece(k)
  BY <1>1, <1>5, SameJob
<1> HIDE DEF content, piece
<1>7. Source(r) # ClipFile(i)
  <2>1. effectFile[r] \in EffectFiles \cup {NoFile}
    BY DEF Sound, TypeOK
  <2> QED
    BY <2>1, OutputsApart DEF EffectFiles, Source
<1>8. Holding(Source(r), content)'
  BY <1>3, <1>4, <1>5, <1>7, HoldingStays DEF Holding, Exists
<1>9. ASSUME NEW k \in 1 .. i
      PROVE  Holding(ClipFile(k), piece(k))'
  <2>1. CASE k = i
    BY <1>4, <1>6, <2>1, HoldingMade DEF Holding, Exists
  <2>2. CASE k # i
    <3>1. k \in 1 .. step[r] /\ ClipFile(k) # ClipFile(i)
      BY <1>1, <2>2, OutputsApart
    <3> QED
      BY <1>3, <1>4, <1>6, <3>1, HoldingStays DEF Holding, Exists
  <2> QED
    BY <2>1, <2>2
<1> QED
  BY <1>1, <1>5, <1>8, <1>9 DEF Shows, content, piece

LEMMA RenameShows ==
    ASSUME Sound, NEW r \in Renders, Rename(r), Calm(r)'
    PROVE  Shows(r)'
<1> DEFINE piece == <<PieceOf(r, Clips(r)[1])>>
<1>0. Step(r)
  BY DEF Step
<1>1. /\ pc[r] = "cut" /\ UNCHANGED <<told, job>> /\ pc'[r] = "finish"
      /\ Len(Clips(r)) = 1 /\ step[r] = 1
  BY DEF Rename, AllCut, Goto, Sound, TypeOK
<1>2. Calm(r) /\ Shows(r)
  BY <1>0, CalmWas DEF Sound, OutputInv
<1>3. Holding(ClipFile(1), piece)
  BY <1>1, <1>2 DEF Shows
<1>4. files' = Without(With(Output(r), piece), {ClipFile(1)})
  <2>1. ~Trouble(r, "rename")
    BY DEF Calm, Trouble, Sound, TypeOK
  <2> QED
    BY <1>3, <2>1 DEF Rename, Holding
<1>5. Pieces(r) = piece
  BY <1>1 DEF Pieces
<1>6. Pieces(r)' = Pieces(r)
  BY <1>1, SameJob
<1> HIDE DEF piece
<1>7. Output(r) \notin {ClipFile(1)}
  BY OutputsApart
<1>8. Output(r) \in DOMAIN files' /\ files'[Output(r)] = piece
  BY <1>4, <1>7, HoldingMade
<1>9. Holding(Output(r), Pieces(r))'
  BY <1>5, <1>6, <1>8 DEF Holding, Exists
<1> QED
  BY <1>1, <1>9 DEF Shows

LEMMA ConcatShows ==
    ASSUME Sound, NEW r \in Renders, Concat(r), Calm(r)'
    PROVE  Shows(r)'
<1> DEFINE n == Len(Clips(r))
           Label(i) == ((i - 1) % LabelLimit) + 1
           seqs == [i \in 1 .. n |-> files[ClipFile(Label(i))]]
<1>0. Step(r)
  BY DEF Step
<1>1. /\ pc[r] = "cut" /\ UNCHANGED <<told, job>> /\ pc'[r] = "sweep" /\ n > 1 /\ step[r] = n
  BY DEF Concat, AllCut, Goto, Sound, TypeOK
<1>2. Calm(r) /\ Shows(r) /\ job[r] \in Jobs
  BY <1>0, CalmWas DEF Sound, OutputInv
<1>3. \A i \in 1 .. n : Holding(ClipFile(i), <<PieceOf(r, Clips(r)[i])>>)
  BY <1>1, <1>2 DEF Shows
<1>4. n \in Nat /\ n <= LabelLimit /\ LabelLimit \in Nat \ {0}
      /\ job[r].media.pictures /\ job[r].media.sound
  BY <1>1, <1>2, ClipsCounted, LabelLimitAssumption DEF Calm, Renderable
<1>5. files' = With(Output(r), FlattenSeq(seqs))
  <2>1. \A i \in 1 .. n : Exists(ClipFile(i))
    BY <1>3 DEF Holding
  <2>2. ~Trouble(r, "command")
    BY DEF Calm, Trouble, Sound, TypeOK
  <2> QED
    BY <1>4, <2>1, <2>2 DEF Concat
<1>6. \A i \in 1 .. n : Label(i) = i
  BY <1>4
<1>7. seqs = [i \in 1 .. n |-> <<Pieces(r)[i]>>]
  BY <1>3, <1>6 DEF Holding, Pieces
<1>8. FlattenSeq(seqs) = Pieces(r)
  <2> DEFINE S == {PieceOf(r, Clips(r)[i]) : i \in 1 .. n}
  <2>1. Pieces(r) \in Seq(S) /\ Len(Pieces(r)) = n
    BY <1>4 DEF Pieces
  <2> HIDE DEF S, n, seqs
  <2>2. Pieces(r) # <<>>
    BY <1>1, <2>1
  <2> QED
    BY <1>7, <2>1, <2>2, FlattenSingles
<1>9. Pieces(r)' = Pieces(r)
  BY <1>1, SameJob
<1>10. Holding(Output(r), Pieces(r))'
  BY <1>5, <1>8, <1>9, HoldingMade DEF Holding, Exists
<1> QED
  BY <1>1, <1>10 DEF Shows

LEMMA EndShows ==
    ASSUME Sound, NEW r \in Renders, Sweep(r) \/ Finish(r), Calm(r)'
    PROVE  Shows(r)'
<1>0. Step(r)
  BY DEF Step
<1>1. pc[r] \in {"sweep", "finish"} /\ UNCHANGED job /\ pc'[r] \in {"finish", "ended"}
  BY DEF Sweep, Finish, Goto, Sound, TypeOK
<1>2. Holding(Output(r), Pieces(r))
  BY <1>0, <1>1, CalmWas DEF Sound, OutputInv, Shows
<1>3. PICK ps : files' = Without(files, ps) /\ Output(r) \notin ps
  <2>1. Output(r) # effectFile[r]
    BY OutputsApart DEF Sound, TypeOK, EffectFiles
  <2> QED
    BY <2>1, OutputsApart DEF Sweep, Finish, Swept
<1>4. Pieces(r)' = Pieces(r)
  BY <1>1, SameJob
<1>5. Holding(Output(r), Pieces(r))'
  BY <1>2, <1>3, <1>4, HoldingStays DEF Holding, Exists
<1> QED
  BY <1>1, <1>5 DEF Shows

LEMMA FreshKept == ASSUME Sound, NEW r \in Renders, Step(r), NEW s \in Renders PROVE Fresh(s)'
<1>1. Fresh(s) /\ UNCHANGED job
  BY JobStays DEF Sound, OutputInv
<1>2. CASE s # r
  BY <1>1, <1>2, OthersUntouched DEF Sound, Fresh
<1>3. CASE s = r
  <2>1. pc'[r] # "none" /\ (pc'[r] = "write" => job[r].plugin = "OTIORender")
    <3>1. CASE Begin(r)
      <4>0. TypeOK
        BY DEF Sound
      <4>1. \/ pc'[r] = "ended" \/ pc'[r] = "finish" \/ pc'[r] = "draw"
            \/ job[r].plugin = "OTIORender" /\ pc'[r] = "write"
        BY <3>1, <4>0, BeginGoes, Zenon
      <4> QED
        BY <4>1
    <3>2. CASE ~Begin(r)
      BY <3>2 DEF Step, Goto, Sound, TypeOK, WriteTimeline, Draw, DrawThrows, AllDrawn, CutClip,
                  Rename, Concat, Sweep, Finish
    <3> QED
      BY <3>1, <3>2
  <2> QED
    BY <1>1, <1>3, <2>1 DEF Fresh
<1> QED
  BY <1>2, <1>3

LEMMA NumberedKept == ASSUME Sound, NEW r \in Renders, Step(r), NEW s \in Renders PROVE Numbered(s)'
<1>1. Numbered(s) /\ fileNum \in Nat
  BY DEF Sound, OutputInv, TypeOK
<1>2. CASE effectFile' = effectFile
  <2>1. fileNum' = fileNum \/ fileNum' = fileNum + 1
    BY DEF Step, Begin, WriteTimeline, Draw, DrawThrows, AllDrawn, CutClip, Rename, Concat, Sweep, Finish
  <2>2. 0 .. fileNum - 1 \subseteq 0 .. fileNum' - 1
    BY <1>1, <2>1
  <2> QED
    BY <1>1, <1>2, <2>2 DEF Numbered
<1>3. CASE Draw(r)
  <2>1. fileNum' = fileNum + 1 /\ effectFile' = [effectFile EXCEPT ![r] = EffectFile(fileNum)]
    BY <1>3 DEF Draw
  <2>2. effectFile'[s] = effectFile[s] \/ effectFile'[s] = EffectFile(fileNum)
    BY <2>1 DEF Sound, TypeOK
  <2>3. fileNum \in 0 .. fileNum' - 1 /\ 0 .. fileNum - 1 \subseteq 0 .. fileNum' - 1
    BY <1>1, <2>1
  <2> QED
    BY <1>1, <2>2, <2>3 DEF Numbered
<1> QED
  BY <1>2, <1>3 DEF Step, Begin, WriteTimeline, DrawThrows, AllDrawn, CutClip, Rename, Concat, Sweep, Finish

LEMMA LoneKept == ASSUME Sound, NEW r \in Renders, Step(r) PROVE \A s \in Renders : Lone(s)'
<1> USE DEF Sound, TypeOK, OutputInv
<1>1. \A s \in Renders : s # r => Active(s)' = Active(s)
  BY OthersUntouched DEF Active
<1>2. CASE Begin(r)
  <2>1. \A s \in Renders : met'[s] = (met[s] \/ (s = r /\ \E o \in Renders : Active(o)) \/ Active(s))
    <3>1. met' = [q \in Renders |->
                    met[q] \/ (q = r /\ \E o \in Renders : Active(o)) \/ Active(q)]
      BY <1>2, BeginFacts
    <3> QED
      BY <3>1, Zenon
  <2>2. ~Active(r)
    BY <1>2, BeginFacts DEF Active
  <2>3. ASSUME NEW s \in Renders, Active(s)', ~met'[s], NEW o \in Renders, o # s, Active(o)'
        PROVE  FALSE
    <3>1. s = r
      BY <1>1, <2>1, <2>3
    <3>2. Active(o)
      BY <1>1, <2>3, <3>1
    <3> QED
      BY <2>1, <2>3, <3>1, <3>2
  <2> QED
    BY <2>3 DEF Lone
<1>3. CASE ~Begin(r)
  <2>1. Active(r)
    BY <1>3, OnlyActiveStep
  <2>2. met' = met
    BY <1>3 DEF Step, WriteTimeline, Draw, DrawThrows, AllDrawn, CutClip, Rename, Concat, Sweep, Finish
  <2>3. \A s \in Renders : Active(s)' => Active(s)
    BY <1>1, <2>1
  <2> QED
    BY <2>2, <2>3 DEF Lone
<1> QED
  BY <1>2, <1>3

\* Before its end a render has told nothing.
LEMMA OwnShows ==
    ASSUME Sound, NEW r \in Renders, InTurn(r), Step(r), Calm(r)'
    PROVE  Shows(r)'
<1>1. pc[r] # "ended"
  BY DEF Step, Begin, WriteTimeline, Draw, DrawThrows, AllDrawn, CutClip, AllCut, Rename, Concat,
         Sweep, Finish
<1>2. told[r] # "NONE"
  BY <1>1 DEF InTurn
<1>3. CASE WriteTimeline(r)
  BY <1>3, CalmWas DEF WriteTimeline, Sound, OutputInv, Fresh, Calm
<1>4. CASE DrawThrows(r)
  BY <1>2, <1>4 DEF DrawThrows, Goto, Shows, Sound, TypeOK
<1> QED
  BY <1>2, <1>3, <1>4, BeginShows, DrawShows, DrawnShows, CutShows, RenameShows, ConcatShows, EndShows
     DEF Step

LEMMA OutputKept == Sound /\ (\A r \in Renders : InTurn(r)) /\ [Next]_vars => OutputInv'
<1> SUFFICES ASSUME Sound, \A r \in Renders : InTurn(r), [Next]_vars
             PROVE  OutputInv'
  OBVIOUS
<1>1. ASSUME NEW r \in Renders, Step(r)
      PROVE  OutputInv'
  <2>1. job' \in [Renders -> Jobs]
    BY <1>1, JobStays DEF Sound, OutputInv
  <2>2. met' \in [Renders -> BOOLEAN]
    <3>1. CASE Begin(r)
      BY <3>1, BeginFacts DEF Active, Sound, OutputInv
    <3>2. CASE ~Begin(r)
      BY <1>1, <3>2 DEF Step, WriteTimeline, Draw, DrawThrows, AllDrawn, CutClip, Rename, Concat, Sweep,
                        Finish, Sound, OutputInv
    <3> QED
      BY <3>1, <3>2
  <2>3. \A s \in Renders : Fresh(s)' /\ Numbered(s)' /\ Lone(s)'
    BY <1>1, FreshKept, NumberedKept, LoneKept
  <2>4. ASSUME NEW s \in Renders, Calm(s)' PROVE Shows(s)'
    BY <1>1, <2>4, OthersShow, OwnShows
  <2> QED
    BY <2>1, <2>2, <2>3, <2>4 DEF OutputInv
<1>2. CASE UNCHANGED vars
  <2>1. \A r : Clips(r)' = Clips(r) /\ Effects(r)' = Effects(r) /\ Renderable(r)' = Renderable(r)
               /\ Pieces(r)' = Pieces(r)
    BY <1>2, SameJob DEF vars
  <2>2. \A r, k : DrawnUpTo(r, k)' = DrawnUpTo(r, k)
    BY <1>2, SameJob DEF vars
  <2>3. \A r, clip : PieceOf(r, clip)' = PieceOf(r, clip)
    BY <1>2, SameJob DEF vars
  <2>4. \A r \in Renders : (Fresh(r) /\ Numbered(r) /\ Lone(r))'
    BY <1>2 DEF vars, Sound, OutputInv, Fresh, Numbered, Lone, Active
  <2>5. ASSUME NEW r \in Renders, Calm(r)' PROVE Shows(r)'
    <3>1. Shows(r)
      BY <1>2, <2>1, <2>5 DEF vars, Calm, Sound, OutputInv
    <3>2. DrawnUpTo(r, step[r])' = DrawnUpTo(r, step[r])
          /\ DrawnUpTo(r, Len(Effects(r)))' = DrawnUpTo(r, Len(Effects(r)))
          /\ \A i : PieceOf(r, Clips(r)[i])' = PieceOf(r, Clips(r)[i])
      BY <1>2, <2>1 DEF vars, DrawnUpTo, NamesUpTo, PieceOf
    <3> QED
      BY <1>2, <2>1, <3>1, <3>2 DEF vars, Shows, Holding, Exists, Source
  <2>6. (job \in [Renders -> Jobs] /\ met \in [Renders -> BOOLEAN])'
    BY <1>2 DEF vars, Sound, OutputInv
  <2> QED
    BY <2>4, <2>5, <2>6 DEF OutputInv
<1> QED
  BY <1>1, <1>2, NextSteps

\* The pieces are those that were asked for.
LEMMA PiecesAreExpected ==
    ASSUME NEW r \in Renders, job[r] \in Jobs, Renderable(r)
    PROVE  Pieces(r) = Expected(r)
<1> DEFINE ranges == job[r].ranges
           rate == job[r].media.rate
           names == [k \in DOMAIN Effects(r) |-> Effects(r)[k].name]
<1>1. /\ rate \in Nat \ {0} /\ Len(ranges) \in Nat /\ DOMAIN ranges = 1 .. Len(ranges)
      /\ \A i \in DOMAIN ranges : ranges[i].start \in Nat /\ ranges[i].duration \in Nat
  BY JobsAssumption DEF IsSequence
<1>2. Len(Clips(r)) = Len(ranges) /\ DOMAIN Clips(r) = DOMAIN ranges
  BY <1>1, ClipsCounted
<1>3. NamesUpTo(r, Len(Effects(r))) = names
  BY EffectsAre DEF NamesUpTo
<1>4. ASSUME NEW i \in DOMAIN ranges
      PROVE  PieceOf(r, Clips(r)[i]) =
                [of |-> r, drawn |-> names,
                 from |-> (ranges[i].start * 1000) \div rate,
                 to |-> ((ranges[i].start + ranges[i].duration) * 1000) \div rate]
  <2> DEFINE clip == Clips(r)[i]
             start == ranges[i].start
             duration == ranges[i].duration
             end == start + duration
  <2>1. clip.start = start /\ clip.duration = duration /\ clip.rate = rate
    BY <1>1, ClipsAre DEF ClipOf
  <2>2. Milliseconds(clip.start + clip.duration, clip.rate) < TimeLimit
    BY <1>2, <1>4 DEF Renderable
  <2>3. start \in Nat /\ duration \in Nat
    BY <1>1
  <2> HIDE DEF clip, rate, start, duration
  <2>4. Milliseconds(end, rate) < TimeLimit
    BY <2>1, <2>2
  <2>5. ASSUME NEW f \in {start, end}
        PROVE  AtTime(f, rate) = (f * 1000) \div rate
    <3>1. f \in Nat /\ end \in Nat /\ f <= end
      BY <2>3
    <3>2. f * 1000 \in Nat /\ end * 1000 \in Nat /\ f * 1000 <= end * 1000
      BY <3>1
    <3>3. (f * 1000) \div rate <= (end * 1000) \div rate
      BY <1>1, <3>2, DivisionGrows
    <3>4. (f * 1000) \div rate \in Nat /\ (end * 1000) \div rate \in Nat
      BY <1>1, <3>2, QuotientIsNat
    <3>5. (f * 1000) \div rate < TimeLimit
      BY <2>4, <3>3, <3>4 DEF Milliseconds, TimeLimit
    <3> QED
      BY <3>4, <3>5, TimeIsKept DEF AtTime, Milliseconds
  <2>6. PieceOf(r, clip) = [of |-> r, drawn |-> names, from |-> AtTime(start, rate), to |-> AtTime(end, rate)]
    BY <1>3, <2>1 DEF PieceOf
  <2>7. AtTime(start, rate) = (start * 1000) \div rate /\ AtTime(end, rate) = (end * 1000) \div rate
    BY <2>5
  <2> HIDE DEF end, names
  <2> QED
    BY <2>6, <2>7 DEF clip, start, end, duration
<1> HIDE DEF names
<1>5. Pieces(r) = [i \in DOMAIN ranges |-> PieceOf(r, Clips(r)[i])]
  BY <1>1, <1>2 DEF Pieces
<1>6. Expected(r) = [i \in DOMAIN ranges |->
                [of |-> r, drawn |-> names,
                 from |-> (ranges[i].start * 1000) \div rate,
                 to |-> ((ranges[i].start + ranges[i].duration) * 1000) \div rate]]
  <2>1. ASSUME NEW i \in DOMAIN ranges
        PROVE  /\ FrameTime(ranges[i].start + 1, rate) = (ranges[i].start * 1000) \div rate
               /\ FrameTime(ranges[i].start + 1 + ranges[i].duration, rate)
                  = ((ranges[i].start + ranges[i].duration) * 1000) \div rate
    <3>1. ranges[i].start \in Nat /\ ranges[i].duration \in Nat
      BY <1>1
    <3>2. /\ (ranges[i].start + 1) - 1 = ranges[i].start
          /\ (ranges[i].start + 1 + ranges[i].duration) - 1 = ranges[i].start + ranges[i].duration
      BY <3>1
    <3> QED
      BY <3>2 DEF FrameTime
  <2> QED
    BY <2>1 DEF Expected, names
<1> QED
  BY <1>4, <1>5, <1>6

\* When nothing fails and no other render is active, the output has a piece for every
\* range that was kept, in order, from this media and with every effect drawn once in its
\* order, at the times the commands name, one frame later than the range; whatever
\* earlier renders left in the directory.
THEOREM OutputIsWholeHolds == Spec => []OutputIsWhole
<1> DEFINE Inv == Sound /\ TempInv
<1>1. Init => Inv
  <2> SUFFICES ASSUME Init PROVE Inv
    OBVIOUS
  <2>1. job \in [Renders -> Jobs] /\ met \in [Renders -> BOOLEAN]
    BY DEF Init
  <2>2. \A r \in Renders : Fresh(r) /\ Numbered(r) /\ Lone(r) /\ Shows(r)
    BY DEF Init, Fresh, Numbered, Lone, Active, Shows
  <2> QED
    BY <2>1, <2>2, InitFacts, TempStarts DEF Sound, OutputInv
<1>2. Inv /\ [Next]_vars => Inv'
  <2> SUFFICES ASSUME Inv, [Next]_vars PROVE Inv'
    OBVIOUS
  <2>1. TypeOK' /\ Intact(files)'
    BY TypesKept, MediaKept DEF Sound, Intact
  <2>2. OutputInv'
    BY OutputKept DEF TempInv
  <2>3. TempInv'
    BY TempKept DEF Sound
  <2> QED
    BY <2>1, <2>2, <2>3 DEF Sound
<1>3. Inv => OutputIsWhole
  <2> SUFFICES ASSUME Inv, NEW r \in Renders, told[r] = "NONE", Calm(r)
               PROVE  Holding(Output(r), Expected(r))
    BY DEF OutputIsWhole, Undisturbed, Calm, Holding
  <2>1. Shows(r) /\ job[r] \in Jobs
    BY DEF Sound, OutputInv
  <2> QED
    BY <2>1, PiecesAreExpected DEF Shows, Calm
<1> QED
  BY <1>1, <1>2, <1>3, PTL DEF Spec
====
