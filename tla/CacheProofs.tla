------------------------------ MODULE CacheProofs ------------------------------
(***************************************************************************)
(* Proofs about ContextCache, for any session-start hooks and any number    *)
(* of bundles, and about the two hooks of a client side by side: what is    *)
(* proved of each alone holds of both.                                      *)
(***************************************************************************)
EXTENDS MCSessions, SessionsProofs

\* All of one bundle that the server had since some time.
Current(since, text) == \E b \in 1..MaxBundle : text = Whole(b) /\ since <= b

\* A hook has a body in hand from the answer until the file is written: all of
\* a current bundle, unless an answer was cut.
Bodies ==
  \A s \in Starter :
    /\ starter[s].since <= bundle
    /\ starter[s].pc \in {"opening", "writing"} \/ starter[s].label = "loaded" =>
         /\ starter[s].text # NoFile
         /\ Current(starter[s].since, starter[s].text) \/ "cut" \in excuse

\* While one hook writes at a time, the file is empty as long as it does and
\* else holds one whole bundle.
OneWriter ==
  /\ (\E s \in Starter : Stands(s, "writing")) => cache # NoFile
  /\ excuse = {} =>
       /\ \A s, t \in Starter : Stands(s, "writing") /\ Stands(t, "writing") => s = t
       /\ IF \E s \in Starter : Stands(s, "writing")
          THEN cache = Empty
          ELSE cache = NoFile \/ \E b \in 1..MaxBundle : cache = Whole(b)

\* A hook has a status line only once it is done.
Labelled == \A s \in Starter : starter[s].label # "none" => Stands(s, "done")

CacheInv == CacheTypeOK /\ Labelled /\ Bodies /\ OneWriter /\ OfflineIsOneBundle

-----------------------------------------------------------------------------
(* What each action does to the hook that takes it.                         *)

OtherStarters(s) == \A t \in Starter \ {s} : starter'[t] = starter[t]

StarterTurn(s, pc, text, since, label) ==
  /\ OtherStarters(s)
  /\ starter'[s].pc = pc /\ starter'[s].text = text
  /\ starter'[s].since = since /\ starter'[s].label = label

LEMMA ShowEffect ==
  ASSUME CacheTypeOK, NEW s \in Starter, NEW label, NEW text, Show(s, label, text)
  PROVE  StarterTurn(s, "done", text, starter[s].since, label)
<1> DEFINE next == [starter[s] EXCEPT !.pc = "done", !.label = label, !.text = text]
<1>1. starter' = [starter EXCEPT ![s] = next]
  BY DEF Show
<1>2. starter[s] \in StarterState /\ starter'[s] = next /\ OtherStarters(s)
  BY <1>1 DEF CacheTypeOK, OtherStarters
<1> QED BY <1>2 DEF StarterTurn, StarterState

LEMMA AskEffect ==
  ASSUME CacheTypeOK, NEW s \in Starter, Ask(s)
  PROVE  /\ Stands(s, "idle") /\ UNCHANGED <<bundle, cache, excuse>>
         /\ \E pc \in {"asking", "reading"} :
              StarterTurn(s, pc, starter[s].text, bundle, starter[s].label)
<1> PICK pc \in {"asking", "reading"} :
      starter' = [starter EXCEPT ![s].pc = pc, ![s].since = bundle]
  BY DEF Ask
<1>1. /\ starter[s] \in StarterState /\ OtherStarters(s)
      /\ starter'[s] = [starter[s] EXCEPT !.pc = pc, !.since = bundle]
  BY DEF CacheTypeOK, OtherStarters
<1>2. StarterTurn(s, pc, starter[s].text, bundle, starter[s].label)
  BY <1>1 DEF StarterTurn, StarterState
<1> QED BY <1>2 DEF Ask

LEMMA FetchEffect ==
  ASSUME CacheTypeOK, NEW s \in Starter, Fetch(s)
  PROVE  /\ Stands(s, "asking") /\ UNCHANGED <<bundle, cache>>
         /\ \/ /\ StarterTurn(s, "opening", Whole(bundle), starter[s].since, starter[s].label)
               /\ UNCHANGED excuse
            \/ /\ StarterTurn(s, "opening", <<bundle, 0>>, starter[s].since, starter[s].label)
               /\ excuse' = excuse \cup {"cut"}
            \/ /\ StarterTurn(s, "reading", starter[s].text, starter[s].since, starter[s].label)
               /\ UNCHANGED excuse
<1>0. starter[s] \in StarterState
  BY DEF CacheTypeOK
<1>1. ASSUME NEW text, starter' = [starter EXCEPT ![s].pc = "opening", ![s].text = text]
      PROVE  StarterTurn(s, "opening", text, starter[s].since, starter[s].label)
  <2>1. OtherStarters(s) /\ starter'[s] = [starter[s] EXCEPT !.pc = "opening", !.text = text]
    BY <1>1 DEF CacheTypeOK, OtherStarters
  <2> QED BY <1>0, <2>1 DEF StarterTurn, StarterState
<1>2. ASSUME Becomes(s, "reading")
      PROVE  StarterTurn(s, "reading", starter[s].text, starter[s].since, starter[s].label)
  <2>1. OtherStarters(s) /\ starter'[s] = [starter[s] EXCEPT !.pc = "reading"]
    BY <1>2 DEF CacheTypeOK, OtherStarters, Becomes
  <2> QED BY <1>0, <2>1 DEF StarterTurn, StarterState
<1> QED BY <1>1, <1>2 DEF Fetch

LEMMA OpenEffect ==
  ASSUME CacheTypeOK, NEW s \in Starter, OpenCache(s)
  PROVE  /\ Stands(s, "opening") /\ UNCHANGED bundle /\ cache' = Empty
         /\ StarterTurn(s, "writing", starter[s].text, starter[s].since, starter[s].label)
         /\ excuse \subseteq excuse' /\ (WriterBeside(s) => "together" \in excuse')
<1>1. /\ starter[s] \in StarterState /\ OtherStarters(s)
      /\ starter'[s] = [starter[s] EXCEPT !.pc = "writing"]
  BY DEF OpenCache, Becomes, CacheTypeOK, OtherStarters
<1>2. StarterTurn(s, "writing", starter[s].text, starter[s].since, starter[s].label)
  BY <1>1 DEF StarterTurn, StarterState
<1> QED BY <1>2 DEF OpenCache, Beside

LEMMA WriteCacheEffect ==
  ASSUME CacheTypeOK, NEW s \in Starter, WriteCache(s)
  PROVE  /\ Stands(s, "writing") /\ UNCHANGED <<bundle, excuse>>
         /\ StarterTurn(s, "done", starter[s].text, starter[s].since, "loaded")
         /\ \/ cache' = starter[s].text
            \/ cache # Empty /\ cache' = <<starter[s].text[1], cache[2]>>
  BY ShowEffect DEF WriteCache

\* The file is left alone, or half written by a hook that was writing it; then
\* there is an excuse.
SparesCache(s) ==
  \/ ~Stands(s, "writing") /\ UNCHANGED <<cache, excuse>>
  \/ /\ Stands(s, "writing") /\ excuse' = excuse \cup {"unwritten"}
     /\ cache' = cache \/ cache' = <<starter[s].text[1], cache[2]>>

LEMMA CannotEffect ==
  ASSUME CacheTypeOK, NEW s \in Starter, CannotCache(s)
  PROVE  /\ starter[s].pc \in {"opening", "writing"} /\ UNCHANGED bundle /\ SparesCache(s)
         /\ StarterTurn(s, "done", starter[s].text, starter[s].since, "loaded")
  BY ShowEffect DEF CannotCache, Unwritten, SparesCache, Stands

LEMMA DiesEffect ==
  ASSUME CacheTypeOK, NEW s \in Starter, StarterDies(s)
  PROVE  /\ starter[s].pc \in {"asking", "opening", "reading", "writing"}
         /\ UNCHANGED bundle /\ SparesCache(s)
         /\ StarterTurn(s, "done", NoFile, starter[s].since, "none")
  BY ShowEffect DEF StarterDies, Unwritten, SparesCache, Stands

LEMMA ReadCacheEffect ==
  ASSUME CacheTypeOK, NEW s \in Starter, ReadCache(s)
  PROVE  /\ Stands(s, "reading") /\ UNCHANGED <<bundle, cache>>
         /\ StarterTurn(s, "done", cache, starter[s].since,
                 IF cache = NoFile THEN "unavailable" ELSE "offline")
         /\ excuse \subseteq excuse' /\ (WriterBeside(s) => "together" \in excuse')
  BY ShowEffect DEF ReadCache, Beside

-----------------------------------------------------------------------------
(* Each conjunct of the invariant is kept.                                  *)

LEMMA BundleInHalf ==
  ASSUME CacheTypeOK
  PROVE  /\ bundle \in 1..MaxBundle /\ bundle \in Half /\ 0 \in Half
         /\ Whole(bundle) \in Half \X Half /\ <<bundle, 0>> \in Half \X Half
         /\ Empty \in Half \X Half
  BY CacheBoundAssumption DEF CacheTypeOK, Half, Whole, Empty

LEMMA CacheTypeStep == CacheInv /\ [CacheNext]_contexts => CacheTypeOK'
<1> SUFFICES ASSUME CacheInv, [CacheNext]_contexts PROVE CacheTypeOK'
  OBVIOUS
<1>0. CacheTypeOK
  BY DEF CacheInv
<1>2. CASE UNCHANGED contexts
  BY <1>0, <1>2 DEF contexts, CacheTypeOK
<1>3. CASE Publish
  BY <1>0, <1>3, CacheBoundAssumption DEF Publish, CacheTypeOK
<1>4. ASSUME NEW s \in Starter, Ask(s) PROVE CacheTypeOK'
  <2> PICK pc \in {"asking", "reading"} :
        starter' = [starter EXCEPT ![s].pc = pc, ![s].since = bundle]
    BY <1>4 DEF Ask
  <2>1. [starter[s] EXCEPT !.pc = pc, !.since = bundle] \in StarterState
    <3>1. starter[s] \in StarterState /\ bundle \in Half /\ pc \in StarterPC
      BY <1>0, BundleInHalf DEF CacheTypeOK, StarterPC
    <3> QED BY <3>1 DEF StarterState
  <2>2. starter' = [starter EXCEPT ![s] = [starter[s] EXCEPT !.pc = pc, !.since = bundle]]
    OBVIOUS
  <2>3. \A x \in StarterState : [starter EXCEPT ![s] = x] \in [Starter -> StarterState]
    BY <1>0 DEF CacheTypeOK
  <2>4. starter' \in [Starter -> StarterState]
    BY <2>1, <2>2, <2>3
  <2> QED BY <1>0, <1>4, <2>4 DEF Ask, CacheTypeOK
<1>5. ASSUME NEW s \in Starter, Fetch(s) PROVE CacheTypeOK'
  <2>1. starter' \in [Starter -> StarterState]
    BY <1>0, <1>5, BundleInHalf DEF Fetch, Becomes, CacheTypeOK, StarterState, StarterPC
  <2> QED BY <1>0, <1>5, <2>1 DEF Fetch, CacheTypeOK
<1>6. ASSUME NEW s \in Starter, OpenCache(s) PROVE CacheTypeOK'
  <2> DEFINE next == [starter[s] EXCEPT !.pc = "writing"]
  <2>1. next \in StarterState
    <3>1. starter[s] \in StarterState /\ "writing" \in StarterPC
      BY <1>0 DEF CacheTypeOK, StarterPC
    <3> QED BY <3>1 DEF StarterState
  <2>2. starter' = [starter EXCEPT ![s] = next]
    BY <1>6 DEF OpenCache, Becomes
  <2> HIDE DEF next
  <2>3. \A x \in StarterState : [starter EXCEPT ![s] = x] \in [Starter -> StarterState]
    BY <1>0 DEF CacheTypeOK
  <2>4. starter' \in [Starter -> StarterState]
    BY <2>1, <2>2, <2>3
  <2> QED BY <1>0, <1>6, <2>4, BundleInHalf DEF OpenCache, Beside, CacheTypeOK
<1>7. ASSUME NEW s \in Starter, NEW text \in (Half \X Half) \cup {NoFile},
             NEW label \in {"none", "loaded", "offline", "unavailable"}, Show(s, label, text)
      PROVE  starter' \in [Starter -> StarterState]
  <2> DEFINE next == [starter[s] EXCEPT !.pc = "done", !.label = label, !.text = text]
  <2>1. next \in StarterState
    <3>1. starter[s] \in StarterState /\ "done" \in StarterPC
      BY <1>0 DEF CacheTypeOK, StarterPC
    <3> QED BY <3>1 DEF StarterState
  <2>2. starter' = [starter EXCEPT ![s] = next]
    BY <1>7 DEF Show
  <2> HIDE DEF next
  <2>3. \A x \in StarterState : [starter EXCEPT ![s] = x] \in [Starter -> StarterState]
    BY <1>0 DEF CacheTypeOK
  <2> QED BY <2>1, <2>2, <2>3
<1>8. \A s \in Starter : starter[s].text \in (Half \X Half) \cup {NoFile}
  BY <1>0 DEF CacheTypeOK, StarterState
<1>9. ASSUME NEW s \in Starter, WriteCache(s) PROVE CacheTypeOK'
  <2>1. starter[s].text \in Half \X Half /\ cache \in Half \X Half
    BY <1>0, <1>8, <1>9 DEF WriteCache, Stands, CacheInv, Bodies, OneWriter, CacheTypeOK
  <2>2. cache' \in Half \X Half
    BY <1>9, <2>1 DEF WriteCache
  <2>3. starter' \in [Starter -> StarterState]
    BY <1>7, <1>8, <1>9 DEF WriteCache
  <2> QED BY <1>0, <1>9, <2>2, <2>3 DEF WriteCache, CacheTypeOK
<1>10. ASSUME NEW s \in Starter, CannotCache(s) \/ StarterDies(s) PROVE CacheTypeOK'
  <2>1. starter' \in [Starter -> StarterState]
    BY <1>7, <1>8, <1>10 DEF CannotCache, StarterDies
  <2>2. SparesCache(s) /\ bundle' = bundle
    BY <1>0, <1>10, CannotEffect, DiesEffect
  <2>3. CASE UNCHANGED <<cache, excuse>>
    BY <1>0, <2>1, <2>2, <2>3 DEF CacheTypeOK
  <2>4. CASE Stands(s, "writing")
    <3>1. starter[s].text \in Half \X Half /\ cache \in Half \X Half
      BY <1>0, <1>8, <2>4 DEF Stands, CacheInv, Bodies, OneWriter, CacheTypeOK
    <3>2. cache' \in Half \X Half /\ excuse' = excuse \cup {"unwritten"}
      BY <2>2, <2>4, <3>1 DEF SparesCache
    <3> QED BY <1>0, <2>1, <2>2, <3>2 DEF CacheTypeOK
  <2> QED BY <2>2, <2>3, <2>4 DEF SparesCache
<1>11. ASSUME NEW s \in Starter, ReadCache(s) PROVE CacheTypeOK'
  <2>1. starter' \in [Starter -> StarterState]
    BY <1>0, <1>7, <1>11 DEF ReadCache, CacheTypeOK
  <2> QED BY <1>0, <1>11, <2>1 DEF ReadCache, Beside, CacheTypeOK
<1> QED BY <1>2, <1>3, <1>4, <1>5, <1>6, <1>9, <1>10, <1>11 DEF CacheNext

LEMMA BodiesStep == CacheInv /\ [CacheNext]_contexts => Bodies'
<1> SUFFICES ASSUME CacheInv, [CacheNext]_contexts, NEW t \in Starter
             PROVE  /\ starter'[t].since <= bundle'
                    /\ starter'[t].pc \in {"opening", "writing"} \/ starter'[t].label = "loaded" =>
                         /\ starter'[t].text # NoFile
                         /\ Current(starter'[t].since, starter'[t].text) \/ "cut" \in excuse'
  BY DEF Bodies
<1> DEFINE Goal == /\ starter'[t].since <= bundle'
                   /\ starter'[t].pc \in {"opening", "writing"} \/ starter'[t].label = "loaded" =>
                        /\ starter'[t].text # NoFile
                        /\ Current(starter'[t].since, starter'[t].text) \/ "cut" \in excuse'
<1>0. CacheTypeOK /\ starter[t].since \in Nat /\ bundle \in Nat
  BY DEF CacheInv, CacheTypeOK, StarterState, Half
<1>1. /\ starter[t].since <= bundle
      /\ starter[t].pc \in {"opening", "writing"} \/ starter[t].label = "loaded" =>
           /\ starter[t].text # NoFile
           /\ Current(starter[t].since, starter[t].text) \/ "cut" \in excuse
  BY DEF CacheInv, Bodies
<1>2. ASSUME starter'[t] = starter[t], bundle <= bundle', bundle' \in Nat, excuse \subseteq excuse'
      PROVE  Goal
  BY <1>0, <1>1, <1>2 DEF Current
<1>3. CASE UNCHANGED contexts
  BY <1>0, <1>2, <1>3 DEF contexts
<1>4. CASE Publish
  BY <1>0, <1>2, <1>4 DEF Publish
<1>5. ASSUME NEW s \in Starter, s # t, OtherStarters(s), UNCHANGED bundle, excuse \subseteq excuse'
      PROVE  Goal
  BY <1>0, <1>2, <1>5 DEF OtherStarters
<1>6. ASSUME NEW s \in Starter, s # t,
             \/ Ask(s) \/ Fetch(s) \/ OpenCache(s) \/ WriteCache(s)
             \/ CannotCache(s) \/ ReadCache(s) \/ StarterDies(s)
      PROVE  Goal
  <2>1. OtherStarters(s) /\ UNCHANGED bundle /\ excuse \subseteq excuse'
    BY <1>0, <1>6, AskEffect, FetchEffect, OpenEffect, WriteCacheEffect, CannotEffect, ReadCacheEffect,
       DiesEffect DEF StarterTurn, SparesCache
  <2> QED BY <1>5, <1>6, <2>1
<1>7. CASE Ask(t)
  <2>1. /\ starter'[t].since = bundle /\ bundle' = bundle /\ starter'[t].label = starter[t].label
        /\ starter'[t].pc \in {"asking", "reading"} /\ starter[t].pc = "idle"
    BY <1>0, <1>7, AskEffect DEF StarterTurn, Stands
  <2>2. starter[t].label # "loaded"
    BY <2>1 DEF CacheInv, Labelled, Stands
  <2> QED BY <1>0, <2>1, <2>2
<1>8. CASE Fetch(t)
  <2>0. starter[t].pc = "asking" /\ bundle' = bundle
    BY <1>0, <1>8, FetchEffect DEF Stands
  <2>1. CASE StarterTurn(t, "opening", Whole(bundle), starter[t].since, starter[t].label)
    <3>1. starter'[t].text = Whole(bundle) /\ starter'[t].since = starter[t].since
      BY <2>1 DEF StarterTurn
    <3>2. Whole(bundle) # NoFile /\ bundle \in 1..MaxBundle
      BY <1>0 DEF Whole, NoFile, CacheTypeOK
    <3> QED BY <1>1, <2>0, <3>1, <3>2 DEF Current
  <2>2. CASE /\ StarterTurn(t, "opening", <<bundle, 0>>, starter[t].since, starter[t].label)
             /\ excuse' = excuse \cup {"cut"}
    BY <1>1, <2>0, <2>2 DEF StarterTurn, NoFile
  <2>3. CASE StarterTurn(t, "reading", starter[t].text, starter[t].since, starter[t].label)
    <3>1. starter[t].label # "loaded"
      BY <2>0 DEF CacheInv, Labelled, Stands
    <3> QED BY <1>1, <2>0, <2>3, <3>1 DEF StarterTurn
  <2> QED BY <1>0, <1>8, <2>1, <2>2, <2>3, FetchEffect
<1>9. ASSUME NEW pc, NEW label,
             StarterTurn(t, pc, starter[t].text, starter[t].since, label),
             starter[t].pc \in {"opening", "writing"}, UNCHANGED bundle, excuse \subseteq excuse'
      PROVE  Goal
  BY <1>1, <1>9 DEF StarterTurn, Current
<1>10. CASE OpenCache(t)
  BY <1>0, <1>9, <1>10, OpenEffect DEF Stands
<1>11. CASE WriteCache(t)
  BY <1>0, <1>9, <1>11, WriteCacheEffect DEF Stands
<1>12. CASE CannotCache(t)
  BY <1>0, <1>9, <1>12, CannotEffect DEF SparesCache
<1>14. CASE StarterDies(t)
  BY <1>0, <1>1, <1>14, DiesEffect DEF StarterTurn
<1>13. CASE ReadCache(t)
  BY <1>0, <1>1, <1>13, ReadCacheEffect DEF StarterTurn
<1> QED BY <1>3, <1>4, <1>6, <1>7, <1>8, <1>10, <1>11, <1>12, <1>13, <1>14 DEF CacheNext

LEMMA LabelledStep == CacheInv /\ [CacheNext]_contexts => Labelled'
<1> SUFFICES ASSUME CacheInv, [CacheNext]_contexts, NEW t \in Starter,
                    starter'[t].label # "none"
             PROVE  starter'[t].pc = "done"
  BY DEF Labelled, Stands
<1>0. CacheTypeOK /\ (starter[t].label # "none" => starter[t].pc = "done")
  BY DEF CacheInv, Labelled, Stands
<1>1. CASE starter'[t] = starter[t]
  BY <1>0, <1>1
<1>2. CASE UNCHANGED contexts \/ Publish
  BY <1>1, <1>2 DEF contexts, Publish
<1>3. ASSUME NEW s \in Starter, s # t,
             \/ Ask(s) \/ Fetch(s) \/ OpenCache(s) \/ WriteCache(s)
             \/ CannotCache(s) \/ ReadCache(s) \/ StarterDies(s)
      PROVE  starter'[t].pc = "done"
  <2>1. OtherStarters(s)
    BY <1>0, <1>3, AskEffect, FetchEffect, OpenEffect, WriteCacheEffect, CannotEffect, ReadCacheEffect,
       DiesEffect DEF StarterTurn, SparesCache
  <2> QED BY <1>1, <1>3, <2>1 DEF OtherStarters
<1>4. CASE Ask(t) \/ Fetch(t) \/ OpenCache(t)
  <2>1. starter[t].pc # "done" /\ starter'[t].label = starter[t].label
    BY <1>0, <1>4, AskEffect, FetchEffect, OpenEffect DEF StarterTurn, Stands
  <2> QED BY <1>0, <2>1
<1>5. CASE WriteCache(t) \/ CannotCache(t) \/ ReadCache(t) \/ StarterDies(t)
  BY <1>0, <1>5, WriteCacheEffect, CannotEffect, ReadCacheEffect, DiesEffect DEF StarterTurn
<1> QED BY <1>2, <1>3, <1>4, <1>5 DEF CacheNext

\* A hook that writes puts a whole text in an empty file, if nothing was cut
\* and nobody wrote beside it.
LEMMA OneWriterStep == CacheInv /\ [CacheNext]_contexts => OneWriter'
<1> SUFFICES ASSUME CacheInv, [CacheNext]_contexts PROVE OneWriter'
  OBVIOUS
<1> DEFINE Writing(s) == starter[s].pc = "writing"
           WholeFile == cache = NoFile \/ \E b \in 1..MaxBundle : cache = Whole(b)
<1>0. /\ CacheTypeOK
      /\ (\E s \in Starter : Writing(s)) => cache # NoFile
      /\ excuse = {} =>
           /\ \A s, t \in Starter : Writing(s) /\ Writing(t) => s = t
           /\ (\E s \in Starter : Writing(s)) => cache = Empty
           /\ (\A s \in Starter : ~Writing(s)) => WholeFile
  BY DEF CacheInv, OneWriter, Stands
<1>1. SUFFICES /\ (\E s \in Starter : Writing(s)') => cache' # NoFile
               /\ excuse' = {} =>
                    /\ \A s, t \in Starter : Writing(s)' /\ Writing(t)' => s = t
                    /\ (\E s \in Starter : Writing(s)') => cache' = Empty
                    /\ (\A s \in Starter : ~Writing(s)') => WholeFile'
  BY DEF OneWriter, Stands
<1> DEFINE Goal == /\ (\E s \in Starter : Writing(s)') => cache' # NoFile
                   /\ excuse' = {} =>
                        /\ \A s, t \in Starter : Writing(s)' /\ Writing(t)' => s = t
                        /\ (\E s \in Starter : Writing(s)') => cache' = Empty
                        /\ (\A s \in Starter : ~Writing(s)') => WholeFile'
<1>2. ASSUME \A s \in Starter : Writing(s)' <=> Writing(s), cache' = cache,
             excuse' = {} => excuse = {}
      PROVE  Goal
  BY <1>0, <1>2
<1>3. CASE UNCHANGED contexts \/ Publish
  BY <1>2, <1>3 DEF contexts, Publish
<1>4. ASSUME NEW s \in Starter, ~Writing(s),
             Ask(s) \/ Fetch(s) \/ CannotCache(s) \/ ReadCache(s) \/ StarterDies(s)
      PROVE  Goal
  <2>1. /\ starter'[s].pc \in {"asking", "opening", "reading", "done"}
        /\ OtherStarters(s) /\ cache' = cache /\ (excuse' = {} => excuse = {})
    BY <1>0, <1>4, AskEffect, FetchEffect, CannotEffect, ReadCacheEffect, DiesEffect
       DEF StarterTurn, SparesCache, Stands
  <2> QED BY <1>2, <1>4, <2>1 DEF OtherStarters
\* A hook that was writing, and did not get to the end.
<1>7. ASSUME NEW s \in Starter, Writing(s),
             Ask(s) \/ Fetch(s) \/ CannotCache(s) \/ ReadCache(s) \/ StarterDies(s)
      PROVE  Goal
  <2>1. /\ excuse' # {} /\ OtherStarters(s) /\ starter'[s].pc = "done"
        /\ cache' = cache \/ cache' = <<starter[s].text[1], cache[2]>>
    BY <1>0, <1>7, AskEffect, FetchEffect, CannotEffect, ReadCacheEffect, DiesEffect
       DEF StarterTurn, SparesCache, Stands
  <2>2. cache' # NoFile
    BY <1>0, <1>7, <2>1 DEF NoFile
  <2> QED BY <2>1, <2>2
<1>5. ASSUME NEW s \in Starter, OpenCache(s) PROVE Goal
  <2>1. /\ starter[s].pc = "opening" /\ starter'[s].pc = "writing"
        /\ OtherStarters(s) /\ cache' = Empty /\ (excuse' = {} => ~WriterBeside(s))
    BY <1>0, <1>5, OpenEffect DEF StarterTurn, Stands
  <2>2. Empty # NoFile
    BY DEF Empty, NoFile
  <2>3. excuse' = {} => \A t \in Starter \ {s} : ~Writing(t)'
    BY <2>1 DEF WriterBeside, OtherStarters, Stands
  <2> QED BY <2>1, <2>2, <2>3
<1>6. ASSUME NEW s \in Starter, WriteCache(s) PROVE Goal
  <2>1. /\ starter[s].pc = "writing" /\ starter'[s].pc = "done" /\ OtherStarters(s)
        /\ excuse' = excuse
        /\ \/ cache' = starter[s].text
           \/ cache # Empty /\ cache' = <<starter[s].text[1], cache[2]>>
    BY <1>0, <1>6, WriteCacheEffect DEF StarterTurn, Stands
  <2>2. starter[s].text # NoFile
    BY <2>1 DEF CacheInv, Bodies
  <2>3. cache' # NoFile
    BY <2>1, <2>2 DEF NoFile
  <2>4. ASSUME excuse = {}
        PROVE  (\A t \in Starter : ~Writing(t)') /\ \E b \in 1..MaxBundle : cache' = Whole(b)
    <3>1. cache = Empty /\ \A t \in Starter \ {s} : ~Writing(t)
      BY <1>0, <2>1, <2>4
    <3>2. cache' = starter[s].text
      BY <2>1, <3>1
    <3>3. \E b \in 1..MaxBundle : starter[s].text = Whole(b)
      BY <2>1, <2>4 DEF CacheInv, Bodies, Current
    <3> QED BY <2>1, <3>1, <3>2, <3>3 DEF OtherStarters
  <2> QED BY <2>1, <2>3, <2>4
<1> QED BY <1>3, <1>4, <1>5, <1>6, <1>7 DEF CacheNext

LEMMA OfflineStep == CacheInv /\ [CacheNext]_contexts => OfflineIsOneBundle'
<1> SUFFICES ASSUME CacheInv, [CacheNext]_contexts, NEW t \in Starter,
                    starter'[t].label = "offline", excuse' = {}
             PROVE  starter'[t].text \in {Whole(b) : b \in 1..MaxBundle}
  BY DEF OfflineIsOneBundle
<1>0. CacheTypeOK
  BY DEF CacheInv
<1>1. excuse = {}
  <2>1. excuse \subseteq excuse'
    BY <1>0, AskEffect, FetchEffect, OpenEffect, WriteCacheEffect, CannotEffect, ReadCacheEffect,
       DiesEffect DEF CacheNext, Publish, contexts, SparesCache
  <2> QED BY <2>1
<1>2. CASE starter'[t] = starter[t]
  BY <1>1, <1>2 DEF CacheInv, OfflineIsOneBundle
<1>3. CASE UNCHANGED contexts \/ Publish
  BY <1>2, <1>3 DEF contexts, Publish
<1>4. ASSUME NEW s \in Starter, s # t,
             \/ Ask(s) \/ Fetch(s) \/ OpenCache(s) \/ WriteCache(s)
             \/ CannotCache(s) \/ ReadCache(s) \/ StarterDies(s)
      PROVE  starter'[t].text \in {Whole(b) : b \in 1..MaxBundle}
  <2>1. OtherStarters(s)
    BY <1>0, <1>4, AskEffect, FetchEffect, OpenEffect, WriteCacheEffect, CannotEffect, ReadCacheEffect,
       DiesEffect DEF StarterTurn, SparesCache
  <2> QED BY <1>2, <1>4, <2>1 DEF OtherStarters
<1>5. CASE ReadCache(t)
  <2>1. /\ starter'[t].text = cache /\ cache # NoFile
        /\ ~WriterBeside(t) /\ starter[t].pc = "reading"
    BY <1>0, <1>5, ReadCacheEffect DEF StarterTurn, Stands
  <2>2. \A s \in Starter : ~Stands(s, "writing")
    BY <2>1 DEF WriterBeside, Stands
  <2>3. \E b \in 1..MaxBundle : cache = Whole(b)
    BY <1>1, <2>1, <2>2 DEF CacheInv, OneWriter
  <2> QED BY <2>1, <2>3
<1>6. CASE WriteCache(t) \/ CannotCache(t) \/ StarterDies(t)
  BY <1>0, <1>6, WriteCacheEffect, CannotEffect, DiesEffect DEF StarterTurn
<1>7. CASE Ask(t) \/ Fetch(t) \/ OpenCache(t)
  <2>1. starter[t].pc # "done" /\ starter'[t].label = starter[t].label
    BY <1>0, <1>7, AskEffect, FetchEffect, OpenEffect DEF StarterTurn, Stands
  <2> QED BY <2>1 DEF CacheInv, Labelled, Stands
<1> QED BY <1>3, <1>4, <1>5, <1>6, <1>7 DEF CacheNext

-----------------------------------------------------------------------------
(* Theorems.                                                                *)

LEMMA CacheInitInv == CacheInit => CacheInv
<1> SUFFICES ASSUME CacheInit PROVE CacheInv
  OBVIOUS
<1>1. \A s \in Starter : /\ starter[s].pc = "idle" /\ starter[s].text = NoFile
                         /\ starter[s].since = 0 /\ starter[s].label = "none"
  BY DEF CacheInit
<1>2. CacheTypeOK
  BY CacheBoundAssumption DEF CacheInit, CacheTypeOK, StarterState, StarterPC, Half
<1>3. Labelled /\ OfflineIsOneBundle
  BY <1>1 DEF Labelled, OfflineIsOneBundle
<1>4. Bodies
  <2>1. bundle = 1 /\ 0 <= 1
    BY DEF CacheInit
  <2> QED BY <1>1, <2>1 DEF Bodies
<1>5. OneWriter
  BY <1>1 DEF OneWriter, Stands, CacheInit
<1> QED BY <1>2, <1>3, <1>4, <1>5 DEF CacheInv

\* The invariant from which the rest follows: what the hooks have in hand and
\* what the file holds, whichever of their steps come between.
THEOREM CacheInvariant == CacheSpec => []CacheInv
<1>1. CacheInv /\ [CacheNext]_contexts => CacheInv'
  BY CacheTypeStep, LabelledStep, BodiesStep, OneWriterStep, OfflineStep DEF CacheInv
<1> QED BY <1>1, CacheInitInv, PTL DEF CacheSpec

\* Every variable keeps its type.
THEOREM CacheTyped == CacheSpec => []CacheTypeOK
<1>1. CacheInv => CacheTypeOK
  BY DEF CacheInv
<1> QED BY <1>1, CacheInvariant, PTL

\* A session told "loaded" has a whole bundle that the server had since its
\* hook began, unless an answer was cut; the cache never stands in for it.
THEOREM LoadedCurrent == CacheSpec => []LoadedIsCurrent
<1>1. CacheInv => LoadedIsCurrent
  <2> SUFFICES ASSUME CacheInv, NEW s \in Starter, starter[s].label = "loaded",
                      "cut" \notin excuse
               PROVE  /\ starter[s].text[1] >= starter[s].since
                      /\ starter[s].text = Whole(starter[s].text[1])
    BY DEF LoadedIsCurrent
  <2>1. PICK b \in 1..MaxBundle : starter[s].text = Whole(b) /\ starter[s].since <= b
    BY DEF CacheInv, Bodies, Current
  <2>2. starter[s].text[1] = b
    BY <2>1 DEF Whole
  <2>3. starter[s].since \in Nat /\ b \in Nat
    BY CacheBoundAssumption DEF CacheInv, CacheTypeOK, StarterState, Half
  <2> QED BY <2>1, <2>2, <2>3
<1> QED BY <1>1, CacheInvariant, PTL

\* A session that starts offline sees one whole bundle, unless an answer was
\* cut, two hooks were at the file, or one did not write its text to the end.
THEOREM OfflineWhole == CacheSpec => []OfflineIsOneBundle
<1>1. CacheInv => OfflineIsOneBundle
  BY DEF CacheInv
<1> QED BY <1>1, CacheInvariant, PTL

-----------------------------------------------------------------------------
(* The hooks side by side.                                                  *)

LEMMA HooksStep ==
  [MCNext]_<<sessions, contexts, ending>> => [SessionsNext]_sessions /\ [CacheNext]_contexts
  BY DEF MCNext

\* The hooks at a session's end and those at its start share no state: a
\* behaviour of both is one of each, so that every theorem about SessionsSpec
\* or CacheSpec is one about a client.
THEOREM HooksApart == MCSpec => SessionsSpec /\ CacheSpec
<1>1. MCInit => SessionsInit /\ CacheInit
  BY DEF MCInit
<1> QED BY <1>1, HooksStep, PTL DEF MCSpec, SessionsSpec, CacheSpec

\* Every variable of both keeps its type; no hook sends a report twice.
THEOREM HooksTyped == MCSpec => []TypeOK
<1>1. SessionsTypeOK /\ CacheTypeOK => TypeOK
  BY DEF TypeOK
<1> QED BY <1>1, HooksApart, SessionsTyped, CacheTyped, PTL

\* A client's behaviours have the other properties of the two hooks, proved
\* above of each.
THEOREM HooksSafe ==
  MCSpec => [](NoReportVanishes /\ KilledOnlyWhenFull /\ DuplicateHasCause /\ EveryFileTried
               /\ LoadedIsCurrent /\ OfflineIsOneBundle)
  BY HooksApart, ReportsKept, KilledWhenFull, DuplicatesExplained, AllTried, LoadedCurrent,
     OfflineWhole, PTL
=============================================================================
