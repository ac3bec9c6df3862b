---------------------------- MODULE SessionsProofs ----------------------------
(***************************************************************************)
(* Proofs about Sessions, for any reports, hooks and times: that each      *)
(* conjunct of SessionsInv is kept by every step, and what follows from it. *)
(***************************************************************************)
EXTENDS Sessions, FiniteSetTheorems, TLAPS

\* h has file r at hand: it posts it or removes it.
Holds(h, r) == hook[h].cur = r /\ hook[h].pc \in {"sending", "removing"}

\* The variables have their types, but for how often a report is stored.
Typed ==
  /\ spool \in [Report -> File]
  /\ stored \in [Report -> Nat]
  /\ hook \in [Hook -> HookState]
  /\ lost \subseteq Report /\ doubtful \subseteq Report

\* The files a hook has still to visit, has at hand and left are of those it
\* found; a drain that is over has visited all.
Visits ==
  \A h \in Hook :
    /\ hook[h].todo \cup hook[h].left \subseteq hook[h].found
    /\ hook[h].pc = "idle" => hook[h].found = {}
    /\ hook[h].pc \in {"sending", "removing"} => hook[h].cur \in hook[h].found \ hook[h].todo
    /\ hook[h].pc = "sending" => hook[h].whole
    /\ hook[h].pc \in {"post", "spooling", "writing", "done", "killed", "died"} => hook[h].todo = {}

\* The file of a hook's own report is there for others only once the hook has
\* created it; one of an earlier time that is torn is given up.
Created ==
  /\ \A r \in Hook :
       spool[r] # "none" \/ (\E h \in Hook : r \in hook[h].found) => hook[r].pc \in {"writing", "done", "died"}
  /\ \A r \in Old : spool[r] = "torn" => r \in lost

\* Each file a hook found is ahead of it, at hand, gone or left.
Tried ==
  \A h \in Hook : hook[h].pc \notin {"killed", "died"} =>
    \A r \in hook[h].found :
      r \in hook[h].todo \/ Holds(h, r) \/ spool[r] = "none" \/ r \in hook[h].left

\* Of a hook's time, each file it is done with took no more than one post.
Handled(h) ==
  {r \in hook[h].found : r \notin hook[h].todo /\ ~(hook[h].cur = r /\ At(h, "sending"))}
TimeSpent ==
  \A h \in Hook : hook[h].pc \in {"idle", "drain", "sending", "removing", "post"} =>
    hook[h].spent <= Cardinality(Handled(h)) * DrainTime

\* A report that was found, or whose hook ended, is stored, in the spool or
\* given up; so is one whose file is being removed, or was taken away while
\* it was written.
Safe(r) == stored[r] > 0 \/ r \in lost
Kept ==
  /\ \A r \in Old : (\E h \in Hook : r \in hook[h].found) => Safe(r) \/ spool[r] = "whole"
  /\ \A r \in Hook : At(r, "done") => Safe(r) \/ spool[r] = "whole"
  /\ \A r \in Hook : At(r, "writing") => Safe(r) \/ spool[r] # "none"
  /\ \A h \in Hook : At(h, "removing") /\ hook[h].whole => stored[hook[h].cur] > 0

\* A report without a reason for doubt is in one hook's hands at a time and is
\* stored once; nobody will post it again.
Once ==
  \A r \in Report \ doubtful :
    /\ stored[r] <= 1
    /\ \A g, h \in Hook : Holds(g, r) /\ Holds(h, r) => g = h
    /\ stored[r] = 1 =>
         /\ r \in Hook => hook[r].pc \in {"writing", "done", "died"}
         /\ \A h \in Hook : Holds(h, r) => At(h, "removing") /\ hook[h].whole
         /\ spool[r] = "none" \/ \E h \in Hook : Holds(h, r)

\* The hooks that may have posted report r.
Posted(r) ==
  {h \in Hook :
     \/ r \in Handled(h)
     \/ r = h /\ hook[h].pc \in {"spooling", "writing", "done", "killed", "died"}}
StoredByEach == \A r \in Report : stored[r] <= Cardinality(Posted(r))

SessionsInv ==
  /\ Typed /\ Visits /\ Created /\ Tried /\ Kept /\ Once
  /\ TimeSpent /\ KilledOnlyWhenFull /\ StoredByEach

-----------------------------------------------------------------------------
(* What each action does to the hook that takes it.                         *)

Others(h) == \A g \in Hook \ {h} : hook'[g] = hook[g]

\* Hook h takes a step that leaves it with these locals.
Turn(h, pc, found, todo, cur, left) ==
  /\ Others(h)
  /\ hook'[h].pc = pc /\ hook'[h].found = found /\ hook'[h].todo = todo
  /\ hook'[h].cur = cur /\ hook'[h].left = left

\* The server stores report r once more, or the step has nothing stored; an
\* answer the client does not get leaves a doubt.
Stores(r) == stored'[r] = stored[r] + 1 /\ \A q \in Report \ {r} : stored'[q] = stored[q]
Unheard(r) ==
  \/ Stores(r) /\ doubtful' = doubtful \cup {r}
  \/ UNCHANGED <<stored, doubtful>>

LEMMA InReport == \A h \in Hook : h \in Report
  BY DEF Report

LEMMA ListEffect ==
  ASSUME Typed, NEW h \in Hook, List(h)
  PROVE  /\ At(h, "idle") /\ UNCHANGED <<spool, stored, lost, doubtful>>
         /\ Turn(h, "drain", hook'[h].found, hook'[h].found, hook[h].cur, hook[h].left)
         /\ hook'[h].found \subseteq {r \in Report : spool[r] # "none"}
         /\ hook'[h].spent = hook[h].spent
<1> PICK files \in {{r \in Report : spool[r] # "none"}, {}} :
      hook' = [hook EXCEPT ![h] = [@ EXCEPT !.pc = "drain", !.found = files, !.todo = files]]
  BY DEF List
<1> DEFINE next == [hook[h] EXCEPT !.pc = "drain", !.found = files, !.todo = files]
<1>1. hook' = [hook EXCEPT ![h] = next]
  OBVIOUS
<1>2. hook[h] \in HookState /\ hook'[h] = next /\ Others(h)
  BY <1>1 DEF Typed, Others
<1>3. At(h, "idle") /\ UNCHANGED <<spool, stored, lost, doubtful>>
  BY DEF List
<1>4. /\ hook'[h].pc = "drain" /\ hook'[h].found = files /\ hook'[h].todo = files
      /\ hook'[h].cur = hook[h].cur /\ hook'[h].left = hook[h].left
      /\ hook'[h].spent = hook[h].spent
  BY <1>2 DEF HookState
<1> QED BY <1>2, <1>3, <1>4 DEF Turn

LEMMA ReadEffect ==
  ASSUME Typed, NEW h \in Hook, NEW r \in Report, Read(h, r)
  PROVE  /\ At(h, "drain") /\ r \in hook[h].todo /\ UNCHANGED <<spool, stored, lost>>
         /\ \/ /\ spool[r] = "none"
               /\ Turn(h, "drain", hook[h].found, hook[h].todo \ {r}, hook[h].cur, hook[h].left)
            \/ Turn(h, "drain", hook[h].found, hook[h].todo \ {r}, hook[h].cur,
                    hook[h].left \cup {r})
            \/ /\ spool[r] = "whole" /\ hook'[h].whole
               /\ Turn(h, "sending", hook[h].found, hook[h].todo \ {r}, r, hook[h].left)
            \/ /\ spool[r] = "torn" /\ ~hook'[h].whole
               /\ Turn(h, "removing", hook[h].found, hook[h].todo \ {r}, r, hook[h].left)
         /\ hook'[h].spent = hook[h].spent
         /\ doubtful \subseteq doubtful'
         /\ Holds(h, r)' /\ (\E g \in Hook \ {h} : Holds(g, r)) => r \in doubtful'
<1>1. hook[h] \in HookState
  BY DEF Typed
<1>3. spool[r] \in {"none", "torn", "whole"}
  BY DEF Typed, File
<1>4. doubtful \subseteq doubtful'
  BY DEF Read
<1>5. At(h, "drain") /\ r \in hook[h].todo /\ UNCHANGED <<spool, stored, lost>>
  BY DEF Read
<1>6. CASE spool[r] = "none" /\ hook' = [hook EXCEPT ![h].todo = @ \ {r}]
  <2>1. hook'[h] = [hook[h] EXCEPT !.todo = @ \ {r}] /\ Others(h)
    BY <1>1, <1>6 DEF Typed, Others
  <2> QED BY <1>1, <1>4, <1>5, <1>6, <2>1 DEF Turn, HookState, At, Holds
<1>7. CASE hook' = [hook EXCEPT ![h].todo = @ \ {r}, ![h].left = @ \cup {r}]
  <2>1. hook'[h] = [hook[h] EXCEPT !.todo = @ \ {r}, !.left = @ \cup {r}] /\ Others(h)
    BY <1>1, <1>7 DEF Typed, Others
  <2> QED BY <1>1, <1>4, <1>5, <2>1 DEF Turn, HookState, At, Holds
<1>8. CASE /\ spool[r] # "none"
           /\ hook' = [hook EXCEPT ![h].todo = @ \ {r}, ![h].cur = r,
                         ![h].whole = (spool[r] = "whole"),
                         ![h].pc = IF spool[r] = "whole" THEN "sending" ELSE "removing"]
           /\ doubtful' = IF \E g \in Hook \ {h} :
                               hook[g].cur = r /\ hook[g].pc \in {"sending", "removing"}
                          THEN doubtful \cup {r} ELSE doubtful
  <2>1. (\E g \in Hook \ {h} : Holds(g, r)) => r \in doubtful'
    BY <1>8 DEF Holds
  <2>2. CASE spool[r] = "whole"
    <3>1. hook'[h] = [hook[h] EXCEPT !.todo = @ \ {r}, !.cur = r, !.whole = TRUE, !.pc = "sending"]
          /\ Others(h)
      BY <1>1, <1>8, <2>2 DEF Typed, Others
    <3> QED BY <1>1, <1>4, <1>5, <2>1, <2>2, <3>1 DEF Turn, HookState, At
  <2>3. CASE spool[r] = "torn"
    <3>1. hook'[h] = [hook[h] EXCEPT !.todo = @ \ {r}, !.cur = r, !.whole = FALSE, !.pc = "removing"]
          /\ Others(h)
      BY <1>1, <1>8, <2>3 DEF Typed, Others
    <3> QED BY <1>1, <1>4, <1>5, <2>1, <2>3, <3>1 DEF Turn, HookState, At
  <2> QED BY <1>3, <1>8, <2>2, <2>3
<1> QED BY <1>6, <1>7, <1>8 DEF Read

\* What the two ways to be told of an error come to.
LEMMA UnheardEffect ==
  ASSUME Typed, NEW r \in Report, StoredUnheard(r) \/ NotStored
  PROVE  Unheard(r)
  BY DEF Typed, StoredUnheard, NotStored, Unheard, Stores

LEMMA EndEffect ==
  ASSUME Typed, NEW h \in Hook, NEW pc, End(h, pc)
  PROVE  Turn(h, pc, hook[h].found, {}, h, hook[h].left) /\ hook'[h].spent = 0
<1> DEFINE next == [hook[h] EXCEPT !.pc = pc, !.todo = {}, !.cur = h, !.whole = FALSE, !.spent = 0]
<1>1. hook' = [hook EXCEPT ![h] = next]
  BY DEF End
<1>2. hook[h] \in HookState /\ hook'[h] = next /\ Others(h)
  BY <1>1 DEF Typed, Others
<1> QED BY <1>2 DEF Turn, HookState

LEMMA ResendEffect ==
  ASSUME Typed, NEW h \in Hook, Resend(h), NEW r, r = hook[h].cur
  PROVE  /\ At(h, "sending") /\ r \in Report /\ UNCHANGED <<spool, lost>>
         /\ \/ /\ Turn(h, "removing", hook[h].found, hook[h].todo, r, hook[h].left)
               /\ Stores(r) /\ UNCHANGED doubtful /\ hook'[h].whole = hook[h].whole
               /\ hook'[h].spent <= hook[h].spent + DrainTime
            \/ /\ Turn(h, "drain", hook[h].found, hook[h].todo, r, hook[h].left \cup {r})
               /\ Unheard(r)
               /\ hook'[h].spent <= hook[h].spent + DrainTime
            \/ /\ Turn(h, "killed", hook[h].found, {}, h, hook[h].left)
               /\ Unheard(r)
               /\ hook[h].spent + DrainTime > HookLimit
<1>1. At(h, "sending") /\ r \in Report /\ UNCHANGED <<spool, lost>> /\ hook[h] \in HookState
  BY DEF Resend, Typed, HookState
<1>2. CASE Overdue(h, r, DrainTime)
  <2>1. Turn(h, "killed", hook[h].found, {}, h, hook[h].left)
    BY <1>2, EndEffect DEF Overdue
  <2>2. Unheard(r)
    BY <1>1, <1>2, UnheardEffect DEF Overdue
  <2>3. hook[h].spent + DrainTime > HookLimit
    BY <1>1, <1>2, TimeAssumption DEF Overdue, InTime, HookState
  <2> QED BY <1>1, <2>1, <2>2, <2>3
<1>3. ASSUME NEW took \in {0, DrainTime}, Accepted(r),
             hook' = [hook EXCEPT ![h].pc = "removing", ![h].spent = @ + took]
      PROVE  /\ Turn(h, "removing", hook[h].found, hook[h].todo, r, hook[h].left)
             /\ Stores(r) /\ UNCHANGED doubtful /\ hook'[h].whole = hook[h].whole
             /\ hook'[h].spent <= hook[h].spent + DrainTime
  <2>1. Stores(r) /\ UNCHANGED doubtful
    BY <1>1, <1>3 DEF Accepted, Stores, Typed
  <2>2. hook'[h] = [hook[h] EXCEPT !.pc = "removing", !.spent = @ + took] /\ Others(h)
    BY <1>3 DEF Typed, Others
  <2>3. /\ Turn(h, "removing", hook[h].found, hook[h].todo, r, hook[h].left)
        /\ hook'[h].whole = hook[h].whole
    BY <1>1, <2>2 DEF Turn, HookState
  <2>4. hook'[h].spent = hook[h].spent + took /\ hook[h].spent \in Nat
    BY <1>1, <2>2 DEF HookState
  <2> QED BY <2>1, <2>3, <2>4, TimeAssumption
<1>4. ASSUME NEW took \in {0, DrainTime}, StoredUnheard(r) \/ NotStored,
             hook' = [hook EXCEPT ![h].pc = "drain", ![h].left = @ \cup {r},
                                  ![h].spent = @ + took]
      PROVE  /\ Turn(h, "drain", hook[h].found, hook[h].todo, r, hook[h].left \cup {r})
             /\ Unheard(r)
             /\ hook'[h].spent <= hook[h].spent + DrainTime
  <2>1. Unheard(r)
    BY <1>1, <1>4, UnheardEffect
  <2>2. /\ hook'[h] = [hook[h] EXCEPT !.pc = "drain", !.left = @ \cup {r}, !.spent = @ + took]
        /\ Others(h)
    BY <1>1, <1>4 DEF Typed, Others, HookState
  <2>3. Turn(h, "drain", hook[h].found, hook[h].todo, r, hook[h].left \cup {r})
    BY <1>1, <2>2 DEF Turn, HookState
  <2>4. hook'[h].spent = hook[h].spent + took /\ hook[h].spent \in Nat
    BY <1>1, <2>2 DEF HookState
  <2> QED BY <2>1, <2>3, <2>4, TimeAssumption
<1> QED BY <1>1, <1>2, <1>3, <1>4 DEF Resend

LEMMA RemoveEffect ==
  ASSUME Typed, NEW h \in Hook, Remove(h), NEW r, r = hook[h].cur
  PROVE  /\ At(h, "removing") /\ r \in Report /\ UNCHANGED stored
         /\ \/ /\ Turn(h, "drain", hook[h].found, hook[h].todo, h, hook[h].left)
               /\ spool'[r] = "none" /\ \A q \in Report \ {r} : spool'[q] = spool[q]
               /\ lost \subseteq lost' /\ (~hook[h].whole => r \in lost')
               /\ UNCHANGED doubtful
            \/ /\ Turn(h, "drain", hook[h].found, hook[h].todo, h, hook[h].left \cup {r})
               /\ UNCHANGED <<spool, lost>>
               /\ doubtful \subseteq doubtful' /\ (hook[h].whole => r \in doubtful')
         /\ hook'[h].spent = hook[h].spent
<1>1. At(h, "removing") /\ r \in Report /\ UNCHANGED stored /\ hook[h] \in HookState
  BY DEF Remove, Typed, HookState
<1>2. CASE /\ spool' = [spool EXCEPT ![r] = "none"]
           /\ lost' = IF hook[h].whole THEN lost ELSE lost \cup {r}
           /\ hook' = [hook EXCEPT ![h].pc = "drain", ![h].cur = h]
           /\ UNCHANGED doubtful
  <2>1. hook'[h] = [hook[h] EXCEPT !.pc = "drain", !.cur = h] /\ Others(h)
    BY <1>2 DEF Typed, Others
  <2>2. /\ Turn(h, "drain", hook[h].found, hook[h].todo, h, hook[h].left)
        /\ hook'[h].spent = hook[h].spent
    BY <1>1, <2>1 DEF Turn, HookState
  <2>3. spool'[r] = "none" /\ \A q \in Report \ {r} : spool'[q] = spool[q]
    BY <1>1, <1>2 DEF Typed
  <2> QED BY <1>1, <1>2, <2>2, <2>3
<1>3. CASE /\ hook' = [hook EXCEPT ![h].pc = "drain", ![h].cur = h, ![h].left = @ \cup {r}]
           /\ doubtful' = IF hook[h].whole THEN doubtful \cup {r} ELSE doubtful
           /\ UNCHANGED <<spool, lost>>
  <2>1. /\ hook'[h] = [hook[h] EXCEPT !.pc = "drain", !.cur = h, !.left = @ \cup {r}]
        /\ Others(h)
    BY <1>3 DEF Typed, Others
  <2>2. /\ Turn(h, "drain", hook[h].found, hook[h].todo, h, hook[h].left \cup {r})
        /\ hook'[h].spent = hook[h].spent
    BY <1>1, <2>1 DEF Turn, HookState
  <2> QED BY <1>1, <1>3, <2>2
<1> QED BY <1>2, <1>3 DEF Remove

\* A hook that dies leaves the files as they are; a post of its may be stored.
LEMMA DieEffect ==
  ASSUME Typed, NEW h \in Hook, Die(h), NEW r, r = hook[h].cur
  PROVE  /\ hook[h].pc \notin {"idle", "done", "killed", "died"} /\ r \in Report
         /\ UNCHANGED <<spool, lost>>
         /\ Turn(h, "died", hook[h].found, {}, h, hook[h].left)
         /\ \/ At(h, "sending") /\ Unheard(r)
            \/ At(h, "post") /\ Unheard(h)
            \/ At(h, "removing") /\ hook[h].whole /\ UNCHANGED stored
                 /\ doubtful' = doubtful \cup {r}
            \/ ~(At(h, "removing") /\ hook[h].whole) /\ UNCHANGED <<stored, doubtful>>
<1>1. /\ hook[h].pc \notin {"idle", "done", "killed", "died"} /\ r \in Report
      /\ UNCHANGED <<spool, lost>> /\ End(h, "died")
  BY DEF Die, Typed, HookState
<1>2. Turn(h, "died", hook[h].found, {}, h, hook[h].left)
  BY <1>1, EndEffect
<1>3. StoredUnheard(r) => Unheard(r)
  BY <1>1, UnheardEffect
<1>4. StoredUnheard(h) => Unheard(h)
  BY InReport, UnheardEffect
<1> QED BY <1>1, <1>2, <1>3, <1>4 DEF Die, NotStored

\* Go keeps all locals but the pc.
LEMMA GoEffect ==
  ASSUME Typed, NEW h \in Hook, NEW pc, Go(h, pc)
  PROVE  /\ Turn(h, pc, hook[h].found, hook[h].todo, hook[h].cur, hook[h].left)
         /\ hook'[h].spent = hook[h].spent
<1>1. hook' = [hook EXCEPT ![h].pc = pc]
  BY DEF Go
<1>2. hook'[h] = [hook[h] EXCEPT !.pc = pc] /\ Others(h) /\ hook[h] \in HookState
  BY <1>1 DEF Typed, Others
<1> QED BY <1>2 DEF Turn, HookState

LEMMA PostEffect ==
  ASSUME Typed, NEW h \in Hook, Post(h)
  PROVE  /\ At(h, "post") /\ UNCHANGED <<spool, lost>>
         /\ \/ /\ Turn(h, "done", hook[h].found, {}, h, hook[h].left)
               /\ Stores(h) /\ UNCHANGED doubtful
            \/ /\ Turn(h, "spooling", hook[h].found, hook[h].todo, hook[h].cur, hook[h].left)
               /\ Unheard(h)
            \/ /\ Turn(h, "killed", hook[h].found, {}, h, hook[h].left)
               /\ Unheard(h)
               /\ hook[h].spent + PostTime > HookLimit
<1>1. At(h, "post") /\ h \in Report /\ UNCHANGED <<spool, lost>> /\ hook[h] \in HookState
  BY InReport DEF Post, Typed
<1>2. CASE Overdue(h, h, PostTime)
  <2>1. Turn(h, "killed", hook[h].found, {}, h, hook[h].left)
    BY <1>2, EndEffect DEF Overdue
  <2>2. Unheard(h)
    BY <1>1, <1>2, UnheardEffect DEF Overdue
  <2>3. hook[h].spent + PostTime > HookLimit
    BY <1>1, <1>2, TimeAssumption DEF Overdue, InTime, HookState
  <2> QED BY <1>1, <2>1, <2>2, <2>3
<1>3. CASE Accepted(h) /\ End(h, "done")
  <2>1. Stores(h) /\ UNCHANGED doubtful
    BY <1>1, <1>3 DEF Accepted, Stores, Typed
  <2>2. Turn(h, "done", hook[h].found, {}, h, hook[h].left)
    BY <1>3, EndEffect
  <2> QED BY <1>1, <2>1, <2>2
<1>4. ASSUME NEW took \in {0, PostTime}, StoredUnheard(h) \/ NotStored,
             hook' = [hook EXCEPT ![h].pc = "spooling", ![h].spent = @ + took]
      PROVE  /\ Turn(h, "spooling", hook[h].found, hook[h].todo, hook[h].cur, hook[h].left)
             /\ Unheard(h)
  <2>1. Unheard(h)
    BY <1>1, <1>4, UnheardEffect
  <2>2. hook'[h] = [hook[h] EXCEPT !.pc = "spooling", !.spent = @ + took] /\ Others(h)
    BY <1>4 DEF Typed, Others
  <2> QED BY <1>1, <2>1, <2>2 DEF Turn, HookState
<1> QED BY <1>1, <1>2, <1>3, <1>4 DEF Post

LEMMA CreateEffect ==
  ASSUME Typed, NEW h \in Hook, Create(h)
  PROVE  /\ At(h, "spooling") /\ UNCHANGED <<stored, lost, doubtful>>
         /\ Turn(h, "writing", hook[h].found, hook[h].todo, hook[h].cur, hook[h].left)
         /\ spool'[h] = "torn" /\ \A q \in Report \ {h} : spool'[q] = spool[q]
  BY InReport, GoEffect DEF Create, Typed

LEMMA WriteEffect ==
  ASSUME Typed, NEW h \in Hook, Write(h)
  PROVE  /\ At(h, "writing") /\ UNCHANGED <<stored, lost, doubtful>>
         /\ Turn(h, "done", hook[h].found, {}, h, hook[h].left)
         /\ spool'[h] = IF spool[h] = "torn" THEN "whole" ELSE spool[h]
         /\ \A q \in Report \ {h} : spool'[q] = spool[q]
  BY InReport, EndEffect DEF Write, Typed

LEMMA CannotSpoolEffect ==
  ASSUME Typed, NEW h \in Hook, CannotSpool(h)
  PROVE  /\ hook[h].pc \in {"spooling", "writing"} /\ UNCHANGED <<spool, stored, doubtful>>
         /\ Turn(h, "done", hook[h].found, {}, h, hook[h].left)
         /\ lost' = lost \cup {h}
  BY EndEffect DEF CannotSpool

LEMMA DrainedEffect ==
  ASSUME Typed, NEW h \in Hook, Drained(h)
  PROVE  /\ At(h, "drain") /\ hook[h].todo = {} /\ UNCHANGED <<spool, stored, lost, doubtful>>
         /\ Turn(h, "post", hook[h].found, {}, hook[h].cur, hook[h].left)
         /\ hook'[h].spent = hook[h].spent
  BY GoEffect DEF Drained

-----------------------------------------------------------------------------
(* Each conjunct of the invariant is kept.                                  *)

LEMMA TypedStep == Typed /\ [SessionsNext]_sessions => Typed'
<1> SUFFICES ASSUME Typed, [SessionsNext]_sessions PROVE Typed'
  OBVIOUS
<1> USE DEF Typed
<1>1. CASE UNCHANGED sessions
  BY <1>1 DEF sessions
<1>2. ASSUME NEW h \in Hook, List(h) PROVE Typed'
  <2> PICK files \in {{r \in Report : spool[r] # "none"}, {}} :
        hook' = [hook EXCEPT ![h] = [@ EXCEPT !.pc = "drain", !.found = files, !.todo = files]]
    BY <1>2 DEF List
  <2> DEFINE next == [hook[h] EXCEPT !.pc = "drain", !.found = files, !.todo = files]
  <2>1. files \in SUBSET Report
    OBVIOUS
  <2>2. hook' = [hook EXCEPT ![h] = next]
    OBVIOUS
  <2>3. next \in HookState
    BY <2>1 DEF HookState, HookPC
  <2> HIDE DEF next
  <2> QED BY <1>2, <2>2, <2>3 DEF List
<1>3. ASSUME NEW h \in Hook, NEW r \in Report, Read(h, r) PROVE Typed'
  <2>1. hook' \in [Hook -> HookState]
    <3>1. CASE hook' = [hook EXCEPT ![h].todo = @ \ {r}]
      BY <1>3, <3>1 DEF HookState, HookPC
    <3>2. CASE hook' = [hook EXCEPT ![h].todo = @ \ {r}, ![h].left = @ \cup {r}]
      <4> DEFINE next == [hook[h] EXCEPT !.todo = @ \ {r}, !.left = @ \cup {r}]
      <4>1. next \in HookState
        BY DEF HookState
      <4>2. hook' = [hook EXCEPT ![h] = next]
        BY <3>2
      <4> HIDE DEF next
      <4> QED BY <4>1, <4>2
    <3>3. CASE hook' = [hook EXCEPT ![h].todo = @ \ {r}, ![h].cur = r,
                          ![h].whole = (spool[r] = "whole"),
                          ![h].pc = IF spool[r] = "whole" THEN "sending" ELSE "removing"]
      <4>1. PICK w \in BOOLEAN, pc \in HookPC :
              hook' = [hook EXCEPT ![h].todo = @ \ {r}, ![h].cur = r, ![h].whole = w,
                                   ![h].pc = pc]
        BY <3>3 DEF HookPC
      <4> DEFINE next == [hook[h] EXCEPT !.todo = @ \ {r}, !.cur = r, !.whole = w, !.pc = pc]
      <4>2. next \in HookState
        BY DEF HookState
      <4>3. hook' = [hook EXCEPT ![h] = next]
        BY <4>1
      <4> HIDE DEF next
      <4> QED BY <4>2, <4>3
    <3> QED BY <1>3, <3>1, <3>2, <3>3 DEF Read
  <2>2. doubtful' \subseteq Report
    BY <1>3 DEF Read
  <2> QED BY <1>3, <2>1, <2>2 DEF Read
<1>4. ASSUME NEW h \in Hook, NEW pc \in HookPC, End(h, pc) PROVE hook' \in [Hook -> HookState]
  BY <1>4, InReport DEF End, HookState
<1>5. ASSUME NEW r \in Report, Accepted(r) \/ StoredUnheard(r) \/ NotStored
      PROVE  stored' \in [Report -> Nat] /\ doubtful' \subseteq Report
  BY <1>5 DEF Accepted, StoredUnheard, NotStored
<1>6. ASSUME NEW h \in Hook, Resend(h) PROVE Typed'
  <2>1. hook[h].cur \in Report
    BY DEF HookState
  <2>2. stored' \in [Report -> Nat] /\ doubtful' \subseteq Report
    BY <1>5, <1>6, <2>1 DEF Resend, Overdue
  <2>3. hook' \in [Hook -> HookState]
    <3>1. CASE Overdue(h, hook[h].cur, DrainTime)
      BY <1>4, <3>1 DEF Overdue, HookPC
    <3>2. ASSUME NEW took \in {0, DrainTime},
                 hook' = [hook EXCEPT ![h].pc = "removing", ![h].spent = @ + took]
          PROVE  hook' \in [Hook -> HookState]
      <4>1. hook[h].spent + took \in Nat
        BY TimeAssumption DEF HookState
      <4> DEFINE next == [hook[h] EXCEPT !.pc = "removing", !.spent = @ + took]
      <4>2. next \in HookState
        BY <4>1 DEF HookState, HookPC
      <4>3. hook' = [hook EXCEPT ![h] = next]
        BY <3>2
      <4> HIDE DEF next
      <4> QED BY <4>2, <4>3
    <3>3. ASSUME NEW took \in {0, DrainTime},
                 hook' = [hook EXCEPT ![h].pc = "drain", ![h].left = @ \cup {hook[h].cur},
                                      ![h].spent = @ + took]
          PROVE  hook' \in [Hook -> HookState]
      <4>1. hook[h].spent + took \in Nat
        BY TimeAssumption DEF HookState
      <4>2. hook[h].left \cup {hook[h].cur} \in SUBSET Report
        BY <2>1 DEF HookState
      <4> DEFINE next == [hook[h] EXCEPT !.pc = "drain", !.left = @ \cup {hook[h].cur},
                                        !.spent = @ + took]
      <4>3. next \in HookState
        BY <4>1, <4>2 DEF HookState, HookPC
      <4>4. hook' = [hook EXCEPT ![h] = next]
        BY <3>3
      <4> HIDE DEF next
      <4> QED BY <4>3, <4>4
    <3> QED BY <1>6, <3>1, <3>2, <3>3 DEF Resend
  <2> QED BY <1>6, <2>2, <2>3 DEF Resend
<1>7. ASSUME NEW h \in Hook, Remove(h) PROVE Typed'
  <2>1. hook[h].cur \in Report
    BY DEF HookState
  <2>2. hook' \in [Hook -> HookState]
    <3>1. PICK left \in {hook[h].left, hook[h].left \cup {hook[h].cur}} :
            hook' = [hook EXCEPT ![h] = [@ EXCEPT !.pc = "drain", !.cur = h, !.left = left]]
      <4>1. CASE hook' = [hook EXCEPT ![h].pc = "drain", ![h].cur = h]
        <5>1. hook' = [hook EXCEPT ![h] = [@ EXCEPT !.pc = "drain", !.cur = h,
                                             !.left = hook[h].left]]
          BY <4>1 DEF HookState
        <5> QED BY <5>1
      <4>2. CASE hook' = [hook EXCEPT ![h].pc = "drain", ![h].cur = h,
                                      ![h].left = @ \cup {hook[h].cur}]
        <5>1. hook' = [hook EXCEPT ![h] = [@ EXCEPT !.pc = "drain", !.cur = h,
                                             !.left = hook[h].left \cup {hook[h].cur}]]
          BY <4>2 DEF HookState
        <5> QED BY <5>1
      <4> QED BY <1>7, <4>1, <4>2 DEF Remove
    <3> DEFINE next == [hook[h] EXCEPT !.pc = "drain", !.cur = h, !.left = left]
    <3>2. next \in HookState
      BY <2>1, InReport DEF HookState, HookPC
    <3>3. hook' = [hook EXCEPT ![h] = next]
      BY <3>1
    <3> HIDE DEF next
    <3> QED BY <3>2, <3>3
  <2> QED BY <1>7, <2>1, <2>2 DEF Remove, File
<1>8. ASSUME NEW h \in Hook, NEW pc \in HookPC, Go(h, pc) PROVE hook' \in [Hook -> HookState]
  BY <1>8 DEF Go, HookState
<1>9. ASSUME NEW h \in Hook, Post(h) PROVE Typed'
  <2>2. stored' \in [Report -> Nat] /\ doubtful' \subseteq Report
    BY <1>5, <1>9, InReport DEF Post, Overdue
  <2>3. hook' \in [Hook -> HookState]
    <3>1. ASSUME NEW took \in {0, PostTime},
                 hook' = [hook EXCEPT ![h].pc = "spooling", ![h].spent = @ + took]
          PROVE  hook' \in [Hook -> HookState]
      <4>1. hook[h].spent + took \in Nat
        BY TimeAssumption DEF HookState
      <4> DEFINE next == [hook[h] EXCEPT !.pc = "spooling", !.spent = @ + took]
      <4>2. next \in HookState
        BY <4>1 DEF HookState, HookPC
      <4>3. hook' = [hook EXCEPT ![h] = next]
        BY <3>1
      <4> HIDE DEF next
      <4> QED BY <4>2, <4>3
    <3>2. CASE End(h, "done") \/ End(h, "killed")
      BY <1>4, <3>2 DEF HookPC
    <3> QED BY <1>9, <3>1, <3>2 DEF Post, Overdue
  <2> QED BY <1>9, <2>2, <2>3 DEF Post
<1>10. ASSUME NEW h \in Hook, Create(h) \/ Write(h) \/ CannotSpool(h) \/ Drained(h) PROVE Typed'
  <2>1. hook' \in [Hook -> HookState]
    BY <1>4, <1>8, <1>10 DEF Create, Write, CannotSpool, Drained, HookPC
  <2>2. spool' \in [Report -> File] /\ lost' \subseteq Report
    BY <1>10, InReport DEF Create, Write, CannotSpool, Drained, File
  <2> QED BY <1>10, <2>1, <2>2 DEF Create, Write, CannotSpool, Drained
<1>11. ASSUME NEW h \in Hook, Die(h) PROVE Typed'
  <2>1. hook' \in [Hook -> HookState]
    BY <1>4, <1>11 DEF Die, HookPC
  <2>2. hook[h].cur \in Report
    BY DEF HookState
  <2>3. stored' \in [Report -> Nat] /\ doubtful' \subseteq Report
    <3>1. CASE StoredUnheard(hook[h].cur) \/ StoredUnheard(h) \/ NotStored
      BY <1>5, <2>2, <3>1, InReport
    <3> QED BY <1>11, <2>2, <3>1 DEF Die
  <2> QED BY <1>11, <2>1, <2>3 DEF Die
<1> QED BY <1>1, <1>2, <1>3, <1>6, <1>7, <1>9, <1>10, <1>11 DEF SessionsNext

\* The step of hook h, by what it leaves h with.
LEMMA VisitsStep == Typed /\ Visits /\ [SessionsNext]_sessions => Visits'
<1> SUFFICES ASSUME Typed, Visits, [SessionsNext]_sessions PROVE Visits'
  OBVIOUS
<1>1. CASE UNCHANGED sessions
  BY <1>1 DEF sessions, Visits
<1>2. ASSUME NEW h \in Hook, NEW pc, NEW found, NEW todo, NEW cur, NEW left,
             Turn(h, pc, found, todo, cur, left),
             todo \cup left \subseteq found, pc # "idle",
             pc \in {"sending", "removing"} => cur \in found \ todo,
             pc = "sending" => hook'[h].whole,
             pc \in {"post", "spooling", "writing", "done", "killed", "died"} => todo = {}
      PROVE  Visits'
  BY <1>2 DEF Turn, Others, Visits
<1>3. ASSUME NEW h \in Hook, List(h) PROVE Visits'
  <2>1. At(h, "idle") /\ hook[h].left = {}
    BY <1>3, ListEffect DEF Visits, At
  <2> QED BY <1>2, <1>3, <2>1, ListEffect
<1>4. ASSUME NEW h \in Hook, NEW r \in Report, Read(h, r) PROVE Visits'
  <2>1. hook[h].todo \cup hook[h].left \subseteq hook[h].found /\ r \in hook[h].todo
    BY <1>4, ReadEffect DEF Visits
  <2>2. CASE Turn(h, "drain", hook[h].found, hook[h].todo \ {r}, hook[h].cur, hook[h].left)
    BY <1>2, <2>1, <2>2
  <2>5. CASE Turn(h, "drain", hook[h].found, hook[h].todo \ {r}, hook[h].cur,
                  hook[h].left \cup {r})
    BY <1>2, <2>1, <2>5
  <2>3. CASE /\ Turn(h, "sending", hook[h].found, hook[h].todo \ {r}, r, hook[h].left)
             /\ hook'[h].whole
    BY <1>2, <2>1, <2>3
  <2>4. CASE Turn(h, "removing", hook[h].found, hook[h].todo \ {r}, r, hook[h].left)
    BY <1>2, <2>1, <2>4
  <2> QED BY <1>4, <2>2, <2>3, <2>4, <2>5, ReadEffect
<1>5. ASSUME NEW h \in Hook, Resend(h) PROVE Visits'
  <2> PICK r : r = hook[h].cur
    OBVIOUS
  <2>1. At(h, "sending")
    BY <1>5, ResendEffect
  <2>2. hook[h].todo \cup hook[h].left \subseteq hook[h].found /\ r \in hook[h].found \ hook[h].todo
    BY <2>1 DEF Visits, At
  <2>3. CASE Turn(h, "removing", hook[h].found, hook[h].todo, r, hook[h].left)
    BY <1>2, <2>2, <2>3
  <2>4. CASE Turn(h, "drain", hook[h].found, hook[h].todo, r, hook[h].left \cup {r})
    BY <1>2, <2>2, <2>4
  <2>5. CASE Turn(h, "killed", hook[h].found, {}, h, hook[h].left)
    BY <1>2, <2>2, <2>5
  <2> QED BY <1>5, <2>3, <2>4, <2>5, ResendEffect
<1>6. ASSUME NEW h \in Hook, Remove(h) PROVE Visits'
  <2> PICK r : r = hook[h].cur
    OBVIOUS
  <2>1. hook[h].todo \cup hook[h].left \subseteq hook[h].found
    BY DEF Visits
  <2>2. r \in hook[h].found
    BY <1>6, RemoveEffect DEF Visits, At
  <2>3. CASE Turn(h, "drain", hook[h].found, hook[h].todo, h, hook[h].left)
    BY <1>2, <2>1, <2>3
  <2>4. CASE Turn(h, "drain", hook[h].found, hook[h].todo, h, hook[h].left \cup {r})
    BY <1>2, <2>1, <2>2, <2>4
  <2> QED BY <1>6, <2>3, <2>4, RemoveEffect
<1>7. ASSUME NEW h \in Hook, Post(h) PROVE Visits'
  <2>1. At(h, "post")
    BY <1>7, PostEffect
  <2>2. hook[h].todo = {} /\ hook[h].left \subseteq hook[h].found
    BY <2>1 DEF Visits, At
  <2> QED BY <1>2, <1>7, <2>2, PostEffect
<1>8. ASSUME NEW h \in Hook, Create(h) PROVE Visits'
  <2>1. At(h, "spooling")
    BY <1>8, CreateEffect
  <2>2. hook[h].todo = {} /\ hook[h].left \subseteq hook[h].found
    BY <2>1 DEF Visits, At
  <2> QED BY <1>2, <1>8, <2>2, CreateEffect
<1>9. ASSUME NEW h \in Hook, Write(h) \/ CannotSpool(h) PROVE Visits'
  <2>1. hook[h].left \subseteq hook[h].found
    BY DEF Visits
  <2> QED BY <1>2, <1>9, <2>1, WriteEffect, CannotSpoolEffect
<1>10. ASSUME NEW h \in Hook, Drained(h) PROVE Visits'
  <2>1. hook[h].left \subseteq hook[h].found
    BY DEF Visits
  <2> QED BY <1>2, <1>10, <2>1, DrainedEffect
<1>11. ASSUME NEW h \in Hook, Die(h) PROVE Visits'
  <2>1. hook[h].left \subseteq hook[h].found
    BY DEF Visits
  <2> QED BY <1>2, <1>11, <2>1, DieEffect
<1> QED BY <1>1, <1>3, <1>4, <1>5, <1>6, <1>7, <1>8, <1>9, <1>10, <1>11 DEF SessionsNext

\* What no step does, whoever takes it: a hook does not go back from its
\* report's file; it finds only files that are there; only the hook of a
\* report brings its file; nothing stored, lost or doubtful is forgotten.
Onward ==
  /\ \A h \in Hook : hook[h].pc \in {"writing", "done", "died"} => hook'[h].pc \in {"writing", "done", "died"}
  /\ \A h \in Hook, r \in Report : r \in hook'[h].found => r \in hook[h].found \/ spool[r] # "none"
  /\ \A r \in Report : spool'[r] # "none" =>
       spool[r] # "none" \/ (r \in Hook /\ At(r, "spooling") /\ hook'[r].pc = "writing")
  /\ \A r \in Report : spool'[r] = "torn" => spool[r] = "torn" \/ r \in Hook
  /\ \A r \in Report : stored'[r] >= stored[r]
  /\ lost \subseteq lost' /\ doubtful \subseteq doubtful'

LEMMA OnwardStep == Typed /\ [SessionsNext]_sessions => Onward
<1> SUFFICES ASSUME Typed, [SessionsNext]_sessions PROVE Onward
  OBVIOUS
<1>0. \A r \in Report : stored[r] \in Nat
  BY DEF Typed
<1>1. CASE UNCHANGED sessions
  BY <1>0, <1>1 DEF sessions, Onward
<1>2. ASSUME NEW h \in Hook, NEW pc, NEW todo, NEW cur, NEW left,
             Turn(h, pc, hook[h].found, todo, cur, left),
             hook[h].pc \in {"writing", "done", "died"} => pc \in {"done", "died"}
      PROVE  /\ \A g \in Hook : hook[g].pc \in {"writing", "done", "died"}
                                  => hook'[g].pc \in {"writing", "done", "died"}
             /\ \A g \in Hook : hook'[g].found = hook[g].found
  BY <1>2 DEF Turn, Others
<1>3. ASSUME NEW r \in Report, Unheard(r) \/ (Stores(r) /\ UNCHANGED doubtful)
      PROVE  (\A q \in Report : stored'[q] >= stored[q]) /\ doubtful \subseteq doubtful'
  BY <1>0, <1>3 DEF Unheard, Stores
<1>4. ASSUME NEW h \in Hook, List(h) PROVE Onward
  BY <1>0, <1>4, ListEffect DEF Turn, Others, Onward, At
<1>5. ASSUME NEW h \in Hook, NEW r \in Report, Read(h, r) PROVE Onward
  <2>1. /\ \A g \in Hook : hook[g].pc \in {"writing", "done", "died"}
                             => hook'[g].pc \in {"writing", "done", "died"}
        /\ \A g \in Hook : hook'[g].found = hook[g].found
    BY <1>5, ReadEffect DEF Turn, Others, At
  <2>2. UNCHANGED <<spool, stored, lost>> /\ doubtful \subseteq doubtful'
    BY <1>5, ReadEffect
  <2> QED BY <1>0, <2>1, <2>2 DEF Onward
<1>6. ASSUME NEW h \in Hook, Resend(h) PROVE Onward
  <2> PICK r : r = hook[h].cur
    OBVIOUS
  <2>1. /\ \A g \in Hook : hook[g].pc \in {"writing", "done", "died"}
                             => hook'[g].pc \in {"writing", "done", "died"}
        /\ \A g \in Hook : hook'[g].found = hook[g].found
    BY <1>6, ResendEffect DEF Turn, Others, At
  <2>2. (\A q \in Report : stored'[q] >= stored[q]) /\ doubtful \subseteq doubtful'
    BY <1>3, <1>6, ResendEffect
  <2>3. UNCHANGED <<spool, lost>>
    BY <1>6, ResendEffect
  <2> QED BY <2>1, <2>2, <2>3 DEF Onward
<1>7. ASSUME NEW h \in Hook, Remove(h) PROVE Onward
  <2>1. At(h, "removing")
    BY <1>7, RemoveEffect
  <2>2. /\ \A g \in Hook : hook[g].pc \in {"writing", "done", "died"}
                             => hook'[g].pc \in {"writing", "done", "died"}
        /\ \A g \in Hook : hook'[g].found = hook[g].found
    BY <1>7, <2>1, RemoveEffect DEF Turn, Others, At
  <2>3. \A q \in Report : spool'[q] \in {spool[q], "none"}
    BY <1>7, RemoveEffect
  <2>4. lost \subseteq lost' /\ doubtful \subseteq doubtful' /\ UNCHANGED stored
    BY <1>7, RemoveEffect
  <2> QED BY <1>0, <2>2, <2>3, <2>4 DEF Onward
<1>8. ASSUME NEW h \in Hook, Post(h) PROVE Onward
  <2>1. /\ \A g \in Hook : hook[g].pc \in {"writing", "done", "died"}
                             => hook'[g].pc \in {"writing", "done", "died"}
        /\ \A g \in Hook : hook'[g].found = hook[g].found
    BY <1>8, PostEffect DEF Turn, Others, At
  <2>2. (\A q \in Report : stored'[q] >= stored[q]) /\ doubtful \subseteq doubtful'
    BY <1>3, <1>8, PostEffect, InReport
  <2> QED BY <1>8, <2>1, <2>2, PostEffect DEF Onward
<1>9. ASSUME NEW h \in Hook, Create(h) PROVE Onward
  <2>1. hook'[h].pc = "writing" /\ hook'[h].found = hook[h].found /\ Others(h)
    BY <1>9, CreateEffect DEF Turn
  <2> QED BY <1>0, <1>9, <2>1, CreateEffect DEF Others, Onward, At
<1>10. ASSUME NEW h \in Hook, Write(h) \/ CannotSpool(h) PROVE Onward
  <2>1. hook'[h].pc = "done" /\ hook'[h].found = hook[h].found /\ Others(h)
    BY <1>10, WriteEffect, CannotSpoolEffect DEF Turn
  <2>2. \A r \in Report : (spool'[r] # "none" => spool[r] # "none")
                          /\ (spool'[r] = "torn" => spool[r] = "torn")
    BY <1>10, WriteEffect, CannotSpoolEffect
  <2>3. lost \subseteq lost' /\ UNCHANGED <<stored, doubtful>>
    BY <1>10, WriteEffect, CannotSpoolEffect
  <2> QED BY <1>0, <2>1, <2>2, <2>3 DEF Others, Onward
<1>11. ASSUME NEW h \in Hook, Drained(h) PROVE Onward
  <2>1. hook[h].pc = "drain" /\ hook'[h].found = hook[h].found /\ Others(h)
    BY <1>11, DrainedEffect DEF Turn, At
  <2> QED BY <1>0, <1>11, <2>1, DrainedEffect DEF Others, Onward
<1>12. ASSUME NEW h \in Hook, Die(h) PROVE Onward
  <2> PICK r : r = hook[h].cur
    OBVIOUS
  <2>1. /\ \A g \in Hook : hook[g].pc \in {"writing", "done", "died"}
                             => hook'[g].pc \in {"writing", "done", "died"}
        /\ \A g \in Hook : hook'[g].found = hook[g].found
    BY <1>12, DieEffect DEF Turn, Others
  <2>2. (\A q \in Report : stored'[q] >= stored[q]) /\ doubtful \subseteq doubtful'
    BY <1>0, <1>3, <1>12, DieEffect, InReport
  <2>3. UNCHANGED <<spool, lost>>
    BY <1>12, DieEffect
  <2> QED BY <2>1, <2>2, <2>3 DEF Onward
<1> QED BY <1>1, <1>4, <1>5, <1>6, <1>7, <1>8, <1>9, <1>10, <1>11, <1>12 DEF SessionsNext

LEMMA CreatedStep == Typed /\ Created /\ [SessionsNext]_sessions => Created'
<1> SUFFICES ASSUME Typed, Created, [SessionsNext]_sessions PROVE Created'
  OBVIOUS
<1>1. Onward
  BY OnwardStep
<1>2. ASSUME NEW r \in Hook,
             spool'[r] # "none" \/ (\E h \in Hook : r \in hook'[h].found)
      PROVE  hook'[r].pc \in {"writing", "done", "died"}
  BY <1>1, <1>2, InReport DEF Onward, Created
<1>3. ASSUME NEW r \in Old, spool'[r] = "torn" PROVE r \in lost'
  BY <1>1, <1>3, ReportAssumption DEF Onward, Created, Report
<1> QED BY <1>2, <1>3 DEF Created

\* A file that was found and is gone does not come back.
LEMMA GoneStays ==
  ASSUME Typed, Created, [SessionsNext]_sessions, NEW h \in Hook, NEW r \in hook[h].found,
         spool[r] = "none"
  PROVE  spool'[r] = "none"
<1>1. r \in Report
  BY DEF Typed, HookState
<1>2. r \in Hook => ~At(r, "spooling")
  BY DEF Created, At
<1> QED BY <1>1, <1>2, OnwardStep DEF Onward

LEMMA TriedStep ==
  Typed /\ Visits /\ Created /\ Tried /\ [SessionsNext]_sessions => Tried'
<1> SUFFICES ASSUME Typed, Visits, Created, Tried, [SessionsNext]_sessions,
                    NEW g \in Hook, hook'[g].pc \notin {"killed", "died"}, NEW r \in hook'[g].found
             PROVE  \/ r \in hook'[g].todo \/ Holds(g, r)'
                    \/ spool'[r] = "none" \/ r \in hook'[g].left
  BY DEF Tried, At
<1> DEFINE Goal == \/ r \in hook'[g].todo \/ Holds(g, r)'
                   \/ spool'[r] = "none" \/ r \in hook'[g].left
<1>1. CASE hook'[g] = hook[g]
  BY <1>1, GoneStays DEF Tried, Holds, At
<1>2. ASSUME NEW h \in Hook, Others(h), h # g PROVE Goal
  BY <1>1, <1>2 DEF Others
<1>3. CASE List(g)
  BY <1>3, ListEffect DEF Turn
<1>4. ASSUME r \in hook[g].found, hook[g].pc \notin {"killed", "died"}
      PROVE  r \in hook[g].todo \/ Holds(g, r) \/ spool'[r] = "none" \/ r \in hook[g].left
  BY <1>4, GoneStays DEF Tried, At
<1>5. ASSUME NEW q \in Report, Read(g, q) PROVE Goal
  <2>1. At(g, "drain") /\ spool' = spool /\ hook'[g].found = hook[g].found
    BY <1>5, ReadEffect DEF Turn
  <2>2. r \in hook[g].todo \/ spool'[r] = "none" \/ r \in hook[g].left
    BY <1>4, <2>1 DEF Holds, At
  <2>3. CASE r = q
    BY <1>5, <2>1, <2>3, ReadEffect DEF Turn, Holds
  <2>4. CASE r # q
    BY <1>5, <2>2, <2>4, ReadEffect DEF Turn
  <2> QED BY <2>3, <2>4
<1>6. CASE Resend(g)
  <2> PICK c : c = hook[g].cur
    OBVIOUS
  <2>1. At(g, "sending") /\ hook'[g].found = hook[g].found
    BY <1>6, ResendEffect DEF Turn
  <2>2. r \in hook[g].todo \/ r = c \/ spool'[r] = "none" \/ r \in hook[g].left
    BY <1>4, <2>1 DEF Holds, At
  <2>3. CASE Turn(g, "removing", hook[g].found, hook[g].todo, c, hook[g].left)
    BY <2>2, <2>3 DEF Turn, Holds
  <2>4. CASE Turn(g, "drain", hook[g].found, hook[g].todo, c, hook[g].left \cup {c})
    BY <2>2, <2>4 DEF Turn
  <2>5. CASE Turn(g, "killed", hook[g].found, {}, g, hook[g].left)
    BY <2>5 DEF Turn
  <2> QED BY <1>6, <2>3, <2>4, <2>5, ResendEffect
<1>7. CASE Remove(g)
  <2> PICK c : c = hook[g].cur
    OBVIOUS
  <2>1. /\ At(g, "removing") /\ hook'[g].found = hook[g].found /\ hook'[g].todo = hook[g].todo
        /\ \/ spool'[c] = "none" /\ hook'[g].left = hook[g].left
           \/ hook'[g].left = hook[g].left \cup {c}
    BY <1>7, RemoveEffect DEF Turn
  <2>2. r \in hook[g].todo \/ r = c \/ spool'[r] = "none" \/ r \in hook[g].left
    BY <1>4, <2>1 DEF Holds, At
  <2> QED BY <2>1, <2>2
<1>8. ASSUME hook[g].pc \in {"post", "spooling", "writing", "drain"}, hook[g].todo = {},
             hook'[g].found = hook[g].found, hook'[g].left = hook[g].left
      PROVE  Goal
  BY <1>4, <1>8 DEF Holds
<1>9. CASE Post(g)
  <2>1. At(g, "post")
    BY <1>9, PostEffect
  <2>2. hook[g].todo = {}
    BY <2>1 DEF Visits, At
  <2>3. hook'[g].found = hook[g].found /\ hook'[g].left = hook[g].left
    BY <1>9, PostEffect DEF Turn
  <2> QED BY <1>8, <2>1, <2>2, <2>3 DEF At
<1>10. CASE Create(g) \/ Write(g) \/ CannotSpool(g) \/ Drained(g)
  <2>1. /\ hook[g].pc \in {"spooling", "writing"} \/ (At(g, "drain") /\ hook[g].todo = {})
        /\ hook'[g].found = hook[g].found /\ hook'[g].left = hook[g].left
    BY <1>10, CreateEffect, WriteEffect, CannotSpoolEffect, DrainedEffect DEF Turn, At
  <2>2. hook[g].todo = {}
    BY <2>1 DEF Visits
  <2> QED BY <1>8, <2>1, <2>2 DEF At
<1>11. ASSUME NEW h \in Hook, h # g,
              \/ List(h) \/ Resend(h) \/ Remove(h) \/ Drained(h)
              \/ Post(h) \/ Create(h) \/ Write(h) \/ CannotSpool(h) \/ Die(h)
              \/ \E q \in Report : Read(h, q)
       PROVE  Goal
  <2> PICK c : c = hook[h].cur
    OBVIOUS
  <2>1. Others(h)
    BY <1>11, ListEffect, ReadEffect, ResendEffect, RemoveEffect, DrainedEffect, PostEffect,
       CreateEffect, WriteEffect, CannotSpoolEffect, DieEffect DEF Turn
  <2> QED BY <1>2, <1>11, <2>1
<1>12. CASE UNCHANGED sessions
  BY <1>1, <1>12 DEF sessions
<1>13. CASE Die(g)
  BY <1>13, DieEffect DEF Turn
<1> QED BY <1>3, <1>5, <1>6, <1>7, <1>9, <1>10, <1>11, <1>12, <1>13 DEF SessionsNext

\* A hook changes only by a step of its own.
LEMMA Actor ==
  ASSUME Typed, [SessionsNext]_sessions, NEW g \in Hook
  PROVE  \/ hook'[g] = hook[g]
         \/ List(g) \/ Resend(g) \/ Remove(g) \/ Drained(g)
         \/ Post(g) \/ Create(g) \/ Write(g) \/ CannotSpool(g) \/ Die(g)
         \/ \E q \in Report : Read(g, q)
<1>1. ASSUME NEW h \in Hook, h # g,
             \/ List(h) \/ Resend(h) \/ Remove(h) \/ Drained(h)
             \/ Post(h) \/ Create(h) \/ Write(h) \/ CannotSpool(h) \/ Die(h)
             \/ \E q \in Report : Read(h, q)
      PROVE  hook'[g] = hook[g]
  <2> PICK c : c = hook[h].cur
    OBVIOUS
  <2>1. Others(h)
    BY <1>1, ListEffect, ReadEffect, ResendEffect, RemoveEffect, DrainedEffect, PostEffect,
       CreateEffect, WriteEffect, CannotSpoolEffect, DieEffect DEF Turn
  <2> QED BY <1>1, <2>1 DEF Others
<1>2. CASE UNCHANGED sessions
  BY <1>2 DEF sessions
<1> QED BY <1>1, <1>2 DEF SessionsNext

LEMMA SafeStays ==
  ASSUME Typed, [SessionsNext]_sessions, NEW r \in Report, Safe(r)
  PROVE  Safe(r)'
  BY OnwardStep, TypedStep DEF Safe, Onward, Typed

\* A file goes only when its report is stored or given up.
LEMMA FileStays ==
  ASSUME Typed, Created, Kept, [SessionsNext]_sessions, NEW r \in Report
  PROVE  /\ spool[r] = "whole" => Safe(r)' \/ spool'[r] = "whole"
         /\ spool[r] # "none" => Safe(r)' \/ spool'[r] # "none"
<1> DEFINE Goal == /\ spool[r] = "whole" => Safe(r)' \/ spool'[r] = "whole"
                   /\ spool[r] # "none" => Safe(r)' \/ spool'[r] # "none"
<1>1. CASE spool'[r] = spool[r]
  BY <1>1
<1>2. ASSUME NEW h \in Hook, Remove(h) PROVE Goal
  <2> PICK c : c = hook[h].cur
    OBVIOUS
  <2>1. /\ At(h, "removing") /\ UNCHANGED stored
        /\ (~hook[h].whole => c \in lost') \/ spool' = spool
        /\ \A q \in Report \ {c} : spool'[q] = spool[q]
    BY <1>2, RemoveEffect
  <2>2. CASE r # c
    BY <1>1, <2>1, <2>2
  <2>3. CASE r = c /\ (~hook[h].whole => c \in lost')
    <3>1. hook[h].whole => stored[c] > 0
      BY <2>1 DEF Kept
    <3>2. Safe(c)'
      BY <2>1, <2>3, <3>1 DEF Safe
    <3> QED BY <2>3, <3>2
  <2> QED BY <1>1, <2>1, <2>2, <2>3
<1>3. ASSUME NEW h \in Hook, Create(h) PROVE Goal
  <2>1. At(h, "spooling") /\ \A q \in Report \ {h} : spool'[q] = spool[q]
    BY <1>3, CreateEffect
  <2>2. spool[h] = "none"
    BY <2>1 DEF Created, At
  <2> QED BY <2>1, <2>2
<1>4. ASSUME NEW h \in Hook, Write(h) PROVE Goal
  BY <1>4, WriteEffect
<1>5. ASSUME NEW h \in Hook,
             \/ List(h) \/ Resend(h) \/ Drained(h) \/ Post(h) \/ CannotSpool(h) \/ Die(h)
             \/ \E q \in Report : Read(h, q)
      PROVE  Goal
  <2> PICK c : c = hook[h].cur
    OBVIOUS
  <2>1. spool' = spool
    BY <1>5, ListEffect, ReadEffect, ResendEffect, DrainedEffect, PostEffect, CannotSpoolEffect,
       DieEffect
  <2> QED BY <1>1, <2>1
<1>6. CASE UNCHANGED sessions
  BY <1>1, <1>6 DEF sessions
<1> QED BY <1>2, <1>3, <1>4, <1>5, <1>6 DEF SessionsNext

LEMMA KeptStep ==
  Typed /\ Created /\ Kept /\ [SessionsNext]_sessions => Kept'
<1> SUFFICES ASSUME Typed, Created, Kept, [SessionsNext]_sessions PROVE Kept'
  OBVIOUS
<1>0. Onward /\ \A r \in Report : stored[r] \in Nat
  BY OnwardStep DEF Typed
<1>1. ASSUME NEW r \in Old, NEW h \in Hook, r \in hook'[h].found
      PROVE  Safe(r)' \/ spool'[r] = "whole"
  <2>1. r \in Report
    BY DEF Report
  <2>2. CASE r \in hook[h].found
    BY <2>1, <2>2, SafeStays, FileStays DEF Kept
  <2>3. CASE spool[r] # "none"
    <3>1. spool[r] = "whole" \/ Safe(r)
      BY <2>1, <2>3 DEF Created, Typed, File, Safe
    <3> QED BY <2>1, <3>1, FileStays, SafeStays
  <2> QED BY <1>0, <1>1, <2>1, <2>2, <2>3 DEF Onward
<1>2. ASSUME NEW r \in Hook, hook'[r].pc = "done"
      PROVE  Safe(r)' \/ spool'[r] = "whole"
  <2>0. r \in Report
    BY InReport
  <2>1. CASE At(r, "done")
    BY <2>0, <2>1, SafeStays, FileStays DEF Kept
  <2>2. CASE Post(r)
    <3>1. stored'[r] = stored[r] + 1
      BY <1>2, <2>2, PostEffect DEF Turn, Stores
    <3> QED BY <1>0, <2>0, <3>1 DEF Safe
  <2>3. CASE Write(r)
    <3>1. Safe(r) \/ spool[r] # "none"
      BY <2>3, WriteEffect DEF Kept
    <3>2. spool[r] # "none" => spool'[r] = "whole"
      BY <2>0, <2>3, WriteEffect DEF Typed, File
    <3> QED BY <2>0, <3>1, <3>2, SafeStays
  <2>4. CASE CannotSpool(r)
    BY <2>4, CannotSpoolEffect DEF Safe
  <2>5. CASE List(r) \/ Remove(r) \/ Drained(r) \/ Create(r)
    BY <1>2, <2>5, ListEffect, RemoveEffect, DrainedEffect, CreateEffect DEF Turn
  <2>6. CASE Resend(r) \/ Die(r) \/ \E q \in Report : Read(r, q)
    <3> PICK c : c = hook[r].cur
      OBVIOUS
    <3> QED BY <1>2, <2>6, ResendEffect, ReadEffect, DieEffect DEF Turn
  <2> QED BY <1>2, <2>1, <2>2, <2>3, <2>4, <2>5, <2>6, Actor DEF At
<1>3. ASSUME NEW r \in Hook, hook'[r].pc = "writing"
      PROVE  Safe(r)' \/ spool'[r] # "none"
  <2>0. r \in Report
    BY InReport
  <2>1. CASE At(r, "writing")
    BY <2>0, <2>1, SafeStays, FileStays DEF Kept
  <2>2. CASE Create(r)
    BY <2>2, CreateEffect
  <2>3. CASE \/ List(r) \/ Remove(r) \/ Drained(r) \/ Post(r) \/ Write(r) \/ CannotSpool(r)
    BY <1>3, <2>3, ListEffect, RemoveEffect, DrainedEffect, PostEffect, WriteEffect,
       CannotSpoolEffect DEF Turn
  <2>4. CASE Resend(r) \/ Die(r) \/ \E q \in Report : Read(r, q)
    <3> PICK c : c = hook[r].cur
      OBVIOUS
    <3> QED BY <1>3, <2>4, ResendEffect, ReadEffect, DieEffect DEF Turn
  <2> QED BY <1>3, <2>1, <2>2, <2>3, <2>4, Actor DEF At
<1>4. ASSUME NEW h \in Hook, hook'[h].pc = "removing", hook'[h].whole
      PROVE  stored'[hook'[h].cur] > 0
  <2>1. CASE hook'[h] = hook[h]
    <3>1. hook[h].cur \in Report /\ stored[hook[h].cur] > 0
      BY <1>4, <2>1 DEF Kept, At, Typed, HookState
    <3>2. \A q \in Report : stored[q] > 0 => stored'[q] > 0
      <4>1. stored' \in [Report -> Nat]
        BY TypedStep DEF Typed
      <4> QED BY <1>0, <4>1 DEF Onward
    <3> QED BY <2>1, <3>1, <3>2
  <2>2. CASE Resend(h)
    <3> PICK c : c = hook[h].cur
      OBVIOUS
    <3>1. c \in Report /\ stored'[c] = stored[c] + 1 /\ hook'[h].cur = c
      BY <1>4, <2>2, ResendEffect DEF Turn, Stores
    <3> QED BY <1>0, <3>1
  <2>3. CASE \E q \in Report : Read(h, q)
    BY <1>4, <2>3, ReadEffect DEF Turn
  <2>4. CASE \/ List(h) \/ Remove(h) \/ Drained(h) \/ Post(h) \/ Create(h) \/ Write(h)
             \/ CannotSpool(h) \/ Die(h)
    BY <1>4, <2>4, ListEffect, RemoveEffect, DrainedEffect, PostEffect, CreateEffect,
       WriteEffect, CannotSpoolEffect, DieEffect DEF Turn
  <2> QED BY <2>1, <2>2, <2>3, <2>4, Actor
<1> QED BY <1>1, <1>2, <1>3, <1>4 DEF Kept, At

LEMMA OnceStep ==
  Typed /\ Visits /\ Created /\ Once /\ [SessionsNext]_sessions => Once'
<1> SUFFICES ASSUME Typed, Visits, Created, Once, [SessionsNext]_sessions,
                    NEW r \in Report, r \notin doubtful'
             PROVE  /\ stored'[r] <= 1
                    /\ \A g, h \in Hook : Holds(g, r)' /\ Holds(h, r)' => g = h
                    /\ stored'[r] = 1 =>
                         /\ r \in Hook => hook'[r].pc \in {"writing", "done", "died"}
                         /\ \A h \in Hook : Holds(h, r)' => hook'[h].pc = "removing" /\ hook'[h].whole
                         /\ spool'[r] = "none" \/ \E h \in Hook : Holds(h, r)'
  BY DEF Once, At
<1> DEFINE Goal == /\ stored'[r] <= 1
                   /\ \A g, h \in Hook : Holds(g, r)' /\ Holds(h, r)' => g = h
                   /\ stored'[r] = 1 =>
                        /\ r \in Hook => hook'[r].pc \in {"writing", "done", "died"}
                        /\ \A h \in Hook : Holds(h, r)' => hook'[h].pc = "removing" /\ hook'[h].whole
                        /\ spool'[r] = "none" \/ \E h \in Hook : Holds(h, r)'
<1>0. Onward /\ r \notin doubtful /\ stored[r] \in Nat
  BY OnwardStep DEF Onward, Typed
<1>1. /\ stored[r] <= 1
      /\ \A g, h \in Hook : Holds(g, r) /\ Holds(h, r) => g = h
      /\ stored[r] = 1 =>
           /\ r \in Hook => hook[r].pc \in {"writing", "done", "died"}
           /\ \A h \in Hook : Holds(h, r) => hook[h].pc = "removing" /\ hook[h].whole
           /\ spool[r] = "none" \/ \E h \in Hook : Holds(h, r)
  BY <1>0 DEF Once, At
\* A step of a hook that does not hold r after it, and not before if r is
\* stored; it neither stores r nor brings its file.
<1>2. ASSUME NEW h \in Hook, Others(h), ~Holds(h, r) \/ stored[r] # 1, ~Holds(h, r)',
             stored'[r] = stored[r],
             spool[r] = "none" => spool'[r] = "none" \/ stored[r] # 1
      PROVE  Goal
  <2>1. /\ \A g \in Hook : Holds(g, r)' => Holds(g, r) /\ hook'[g] = hook[g]
        /\ stored[r] = 1 => \A g \in Hook : Holds(g, r) => Holds(g, r)'
    BY <1>2 DEF Others, Holds
  <2>2. r \in Hook /\ hook[r].pc \in {"writing", "done", "died"} => hook'[r].pc \in {"writing", "done", "died"}
    BY <1>0 DEF Onward
  <2> QED BY <1>1, <1>2, <2>1, <2>2
<1>3. CASE UNCHANGED sessions
  <2>1. \A g \in Hook : Holds(g, r)' <=> Holds(g, r)
    BY <1>3 DEF sessions, Holds
  <2> QED BY <1>1, <1>3, <2>1 DEF sessions
<1>4. ASSUME NEW h \in Hook, \/ List(h) \/ Drained(h) \/ Write(h) \/ CannotSpool(h)
      PROVE  Goal
  <2>1. /\ hook[h].pc \in {"idle", "drain", "writing", "spooling"}
        /\ hook'[h].pc \in {"drain", "post", "done"}
        /\ Others(h) /\ UNCHANGED stored
        /\ spool[r] = "none" => spool'[r] = "none"
    BY <1>4, ListEffect, DrainedEffect, WriteEffect, CannotSpoolEffect DEF At, Turn
  <2> QED BY <1>2, <2>1 DEF Holds
<1>5. ASSUME NEW h \in Hook, Create(h) PROVE Goal
  <2>1. /\ hook[h].pc = "spooling" /\ hook'[h].pc = "writing"
        /\ Others(h) /\ UNCHANGED stored
        /\ r # h => spool'[r] = spool[r]
    BY <1>5, CreateEffect DEF At, Turn
  <2>2. r = h => stored[r] # 1
    BY <1>1, <2>1
  <2> QED BY <1>2, <2>1, <2>2 DEF Holds
<1>6. ASSUME NEW h \in Hook, Post(h) PROVE Goal
  <2>1. /\ hook[h].pc = "post" /\ hook'[h].pc \in {"spooling", "done", "killed"}
        /\ Others(h) /\ UNCHANGED spool
    BY <1>6, PostEffect DEF At, Turn
  <2>2. ~Holds(h, r) /\ ~Holds(h, r)'
    BY <2>1 DEF Holds
  <2>3. CASE r # h
    <3>1. stored'[r] = stored[r]
      BY <1>6, <2>3, PostEffect DEF Unheard, Stores
    <3> QED BY <1>2, <2>1, <2>2, <3>1
  <2>4. CASE Unheard(h) /\ r = h
    <3>1. stored'[r] = stored[r]
      BY <2>4 DEF Unheard
    <3> QED BY <1>2, <2>1, <2>2, <3>1
  <2>5. CASE Stores(h) /\ r = h /\ hook'[h].pc = "done"
    <3>1. stored[r] = 0 /\ stored'[r] = 1
      BY <1>0, <1>1, <2>1, <2>5 DEF Stores
    <3>2. spool[r] = "none" /\ \A g \in Hook : r \notin hook[g].found
      BY <2>1, <2>5 DEF Created
    <3>3. \A g \in Hook : ~Holds(g, r)
      BY <3>2 DEF Visits, Holds
    <3>4. \A g \in Hook : ~Holds(g, r)'
      BY <2>1, <2>2, <3>3 DEF Others, Holds
    <3> QED BY <2>1, <2>5, <3>1, <3>2, <3>4
  <2> QED BY <1>6, <2>3, <2>4, <2>5, PostEffect DEF Turn
<1>7. ASSUME NEW h \in Hook, NEW q \in Report, Read(h, q) PROVE Goal
  <2>1. /\ hook[h].pc = "drain" /\ Others(h) /\ UNCHANGED <<spool, stored>>
        /\ ~Holds(h, r)
    BY <1>7, ReadEffect DEF At, Turn, Holds
  <2>2. CASE ~Holds(h, r)'
    BY <1>2, <2>1, <2>2
  <2>3. CASE Holds(h, r)'
    <3>1. q = r /\ spool[r] # "none"
      BY <1>7, <2>3, ReadEffect DEF Turn, Holds
    <3>2. \A g \in Hook \ {h} : ~Holds(g, r)
      BY <1>7, <2>3, <3>1, ReadEffect
    <3>3. \A g \in Hook \ {h} : ~Holds(g, r)'
      BY <2>1, <3>2 DEF Others, Holds
    <3>4. stored[r] # 1
      BY <1>1, <2>1, <3>1, <3>2
    <3> QED BY <1>1, <2>1, <3>3, <3>4
  <2> QED BY <2>2, <2>3
<1>8. ASSUME NEW h \in Hook, Remove(h) PROVE Goal
  <2> PICK c : c = hook[h].cur
    OBVIOUS
  <2>1. hook[h].pc = "removing" /\ hook'[h].pc = "drain" /\ Others(h) /\ UNCHANGED stored
    BY <1>8, RemoveEffect DEF At, Turn
  <2>2. CASE spool'[c] = "none" /\ \A q \in Report \ {c} : spool'[q] = spool[q]
    <3>1. \A g \in Hook : Holds(g, r)' => Holds(g, r) /\ hook'[g] = hook[g]
      BY <2>1 DEF Others, Holds
    <3>2. r # c => \A g \in Hook : Holds(g, r) => Holds(g, r)'
      BY <2>1 DEF Others, Holds
    <3>3. r \in Hook /\ hook[r].pc \in {"writing", "done", "died"}
            => hook'[r].pc \in {"writing", "done", "died"}
      BY <1>0 DEF Onward
    <3> QED BY <1>1, <2>1, <2>2, <3>1, <3>2, <3>3
  <2>3. CASE spool' = spool /\ (hook[h].whole => c \in doubtful')
    <3>1. ~Holds(h, r) \/ stored[r] # 1
      BY <1>1, <2>3 DEF Holds
    <3>2. ~Holds(h, r)'
      BY <2>1 DEF Holds
    <3> QED BY <1>2, <2>1, <2>3, <3>1, <3>2
  <2> QED BY <1>8, <2>2, <2>3, RemoveEffect
<1>9. ASSUME NEW h \in Hook, Resend(h) PROVE Goal
  <2> PICK c : c = hook[h].cur
    OBVIOUS
  <2>1. /\ hook[h].pc = "sending" /\ Others(h) /\ UNCHANGED spool /\ c \in Report
        /\ Holds(h, r) => r = c
        /\ Holds(h, r)' => r = c
    <3>1. /\ At(h, "sending") /\ c \in Report /\ UNCHANGED spool /\ Others(h)
          /\ hook'[h].cur = c \/ hook'[h].pc = "killed"
      BY <1>9, ResendEffect DEF Turn
    <3> QED BY <3>1 DEF At, Holds
  <2>2. CASE r # c
    <3>1. Stores(c) \/ Unheard(c)
      BY <1>9, ResendEffect
    <3>2. stored'[r] = stored[r]
      BY <2>2, <3>1 DEF Unheard, Stores
    <3> QED BY <1>2, <2>1, <2>2, <3>2
  <2>3. CASE r = c
    <3>0. Holds(h, r)
      BY <2>1, <2>3 DEF Holds
    <3>1. Holds(h, r) /\ stored[r] = 0 /\ \A g \in Hook \ {h} : ~Holds(g, r)
      BY <1>0, <1>1, <2>1, <3>0
    <3>2. \A g \in Hook \ {h} : ~Holds(g, r)'
      BY <2>1, <3>1 DEF Others, Holds
    <3>3. CASE /\ Stores(c) /\ hook'[h].whole = hook[h].whole
               /\ Turn(h, "removing", hook[h].found, hook[h].todo, c, hook[h].left)
      <4>1. stored'[r] = 1
        BY <2>3, <3>1, <3>3 DEF Stores
      <4>2. Holds(h, r)' /\ hook'[h].pc = "removing" /\ hook'[h].whole
        BY <2>1, <2>3, <3>3 DEF Turn, Holds, Visits
      <4>3. r \in hook[h].found
        BY <2>1, <2>3 DEF Visits
      <4>4. r \in Hook => hook'[r].pc \in {"writing", "done", "died"}
        BY <1>0, <4>3 DEF Created, Onward
      <4> QED BY <3>2, <4>1, <4>2, <4>4
    <3>4. CASE Unheard(c)
      <4>1. stored'[r] = 0
        BY <2>3, <3>1, <3>4 DEF Unheard
      <4> QED BY <3>2, <4>1
    <3> QED BY <1>9, <3>3, <3>4, ResendEffect
  <2> QED BY <2>2, <2>3
<1>10. ASSUME NEW h \in Hook, Die(h) PROVE Goal
  <2> PICK c : c = hook[h].cur
    OBVIOUS
  <2>1. Others(h) /\ UNCHANGED spool /\ ~Holds(h, r)'
    BY <1>10, DieEffect DEF Turn, Holds
  <2>2. stored'[r] = stored[r] /\ (Holds(h, r) => r = c /\ hook[h].pc \in {"sending", "removing"})
    BY <1>10, DieEffect DEF Unheard, Stores, Holds
  <2>3. CASE At(h, "removing") /\ hook[h].whole
    <3>1. c \in doubtful'
      BY <1>10, <2>3, DieEffect DEF At
    <3> QED BY <1>2, <2>1, <2>2, <3>1
  <2>4. CASE ~(At(h, "removing") /\ hook[h].whole)
    <3>1. Holds(h, r) => stored[r] # 1
      BY <1>1, <2>4 DEF At
    <3> QED BY <1>2, <2>1, <2>2, <3>1
  <2> QED BY <2>3, <2>4
<1> QED BY <1>3, <1>4, <1>5, <1>6, <1>7, <1>8, <1>9, <1>10 DEF SessionsNext

-----------------------------------------------------------------------------
(* What is counted: the seconds of a hook, and how often a report is stored. *)

LEMMA Times ==
  ASSUME NEW m \in Nat, NEW n \in Nat, NEW d \in Nat
  PROVE  /\ m * d \in Nat
         /\ m <= n => m * d <= n * d
         /\ m + 1 <= n => m * d + d <= n * d
<1>1. \A k \in Nat : k * d \in Nat /\ (m + k) * d = m * d + k * d
  OBVIOUS
<1>2. ASSUME m <= n PROVE m * d <= n * d
  <2>1. n - m \in Nat /\ n = m + (n - m)
    BY <1>2
  <2> QED BY <1>1, <2>1
<1>3. ASSUME m + 1 <= n PROVE m * d + d <= n * d
  <2> DEFINE k == n - (m + 1)
  <2>1. k \in Nat /\ n = m + (k + 1)
    BY <1>3
  <2>2. k * d \in Nat /\ (k + 1) * d = k * d + d
    BY <2>1
  <2>3. k + 1 \in Nat
    BY <2>1
  <2> HIDE DEF k
  <2>4. (m + (k + 1)) * d = m * d + (k + 1) * d
    BY <1>1, <2>3
  <2>5. n * d = m * d + (k * d + d)
    BY <2>1, <2>2, <2>4
  <2> QED BY <1>1, <2>2, <2>5
<1> QED BY <1>1, <1>2, <1>3

LEMMA Within ==
  ASSUME NEW s \in Nat, NEW t \in Nat, NEW x \in Nat, NEW y \in Nat, NEW d \in Nat, s <= x
  PROVE  /\ t = s /\ x <= y => t <= y
         /\ t <= s + d /\ x + d <= y => t <= y
  OBVIOUS

LEMMA Counted ==
  ASSUME NEW T, IsFiniteSet(T), NEW S, S \subseteq T
  PROVE  /\ Cardinality(S) \in Nat /\ Cardinality(T) \in Nat
         /\ Cardinality(S) <= Cardinality(T)
         /\ \A x \in T \ S : Cardinality(S) + 1 <= Cardinality(T)
<1>1. IsFiniteSet(S) /\ Cardinality(S) <= Cardinality(T)
  BY FS_Subset
<1>2. Cardinality(S) \in Nat /\ Cardinality(T) \in Nat
  BY <1>1, FS_CardinalityType
<1>3. ASSUME NEW x \in T \ S PROVE Cardinality(S) + 1 <= Cardinality(T)
  <2>1. IsFiniteSet(S \cup {x}) /\ Cardinality(S \cup {x}) = Cardinality(S) + 1
    BY <1>1, <1>3, FS_AddElement
  <2>2. S \cup {x} \subseteq T
    BY <1>3
  <2> QED BY <2>1, <2>2, FS_Subset
<1> QED BY <1>1, <1>2, <1>3

LEMMA FoundFinite ==
  ASSUME Typed, NEW h \in Hook
  PROVE  IsFiniteSet(hook[h].found) /\ hook[h].spent \in Nat
<1>1. hook[h].found \subseteq Old \cup Hook
  BY DEF Typed, HookState, Report
<1> QED BY <1>1, ReportAssumption, FS_Subset DEF Typed, HookState

\* How a hook's own step changes what it is done with.
LEMMA HandledStep ==
  ASSUME Typed, Visits, [SessionsNext]_sessions, NEW h \in Hook
  PROVE  /\ hook[h].pc # "idle" => hook'[h].found = hook[h].found
         /\ hook[h].pc # "idle" => Handled(h) \subseteq Handled(h)'
         /\ hook[h].pc = "idle" => Handled(h) = {} /\ Handled(h)' = {}
         /\ hook'[h].pc \in {"idle", "drain", "sending", "removing", "post"} =>
              \/ hook'[h].spent = hook[h].spent
              \/ /\ hook[h].pc = "sending" /\ hook[h].cur \in Handled(h)' \ Handled(h)
                 /\ hook'[h].spent <= hook[h].spent + DrainTime
         /\ hook'[h].pc \in {"idle", "drain", "sending", "removing", "post"} =>
              hook[h].pc \in {"idle", "drain", "sending", "removing", "post"}
<1> USE DEF Handled, At
<1>0. /\ hook[h].todo \cup hook[h].left \subseteq hook[h].found
      /\ hook[h].pc = "idle" => hook[h].found = {}
      /\ hook[h].pc \in {"sending", "removing"} => hook[h].cur \in hook[h].found \ hook[h].todo
  BY DEF Visits
<1>1. CASE hook'[h] = hook[h]
  BY <1>0, <1>1
<1>2. CASE List(h)
  BY <1>0, <1>2, ListEffect DEF Turn
<1>3. ASSUME NEW q \in Report, Read(h, q)
      PROVE  /\ hook[h].pc = "drain" /\ hook'[h].found = hook[h].found
             /\ Handled(h) \subseteq Handled(h)' /\ hook'[h].spent = hook[h].spent
  <2>1. hook[h].pc = "drain" /\ q \in hook[h].todo /\ hook'[h].spent = hook[h].spent
    BY <1>3, ReadEffect
  <2>2. /\ hook'[h].found = hook[h].found /\ hook'[h].todo = hook[h].todo \ {q}
        /\ hook'[h].cur = q \/ hook'[h].pc # "sending"
    BY <1>3, ReadEffect DEF Turn
  <2> QED BY <2>1, <2>2
<1>4. CASE Resend(h)
  <2> PICK c : c = hook[h].cur
    OBVIOUS
  <2>1. hook[h].pc = "sending" /\ hook'[h].found = hook[h].found
    BY <1>4, ResendEffect DEF Turn
  <2>2. \/ /\ hook'[h].pc \in {"removing", "drain"} /\ hook'[h].todo = hook[h].todo
           /\ hook'[h].spent <= hook[h].spent + DrainTime
        \/ hook'[h].pc = "killed" /\ hook'[h].todo = {}
    BY <1>4, ResendEffect DEF Turn
  <2> QED BY <1>0, <2>1, <2>2
<1>5. CASE Remove(h)
  <2> PICK c : c = hook[h].cur
    OBVIOUS
  <2>1. /\ hook[h].pc = "removing" /\ hook'[h].pc = "drain" /\ hook'[h].found = hook[h].found
        /\ hook'[h].todo = hook[h].todo /\ hook'[h].spent = hook[h].spent
    BY <1>5, RemoveEffect DEF Turn
  <2> QED BY <2>1
<1>6. CASE Drained(h)
  BY <1>6, DrainedEffect DEF Turn
<1>7. CASE Post(h)
  <2>1. /\ hook[h].pc = "post" /\ hook'[h].pc \in {"done", "spooling", "killed"}
        /\ hook'[h].found = hook[h].found /\ hook'[h].todo \subseteq hook[h].todo
    BY <1>7, PostEffect DEF Turn
  <2> QED BY <2>1
<1>8. CASE Create(h) \/ Write(h) \/ CannotSpool(h)
  <2>1. /\ hook[h].pc \in {"spooling", "writing"} /\ hook'[h].pc \in {"done", "writing"}
        /\ hook'[h].found = hook[h].found /\ hook'[h].todo \subseteq hook[h].todo
    BY <1>8, CreateEffect, WriteEffect, CannotSpoolEffect DEF Turn
  <2> QED BY <2>1
<1>9. CASE Die(h)
  <2>1. /\ hook[h].pc # "idle" /\ hook'[h].pc = "died"
        /\ hook'[h].found = hook[h].found /\ hook'[h].todo = {}
    BY <1>9, DieEffect DEF Turn
  <2> QED BY <2>1
<1> QED BY <1>1, <1>2, <1>3, <1>4, <1>5, <1>6, <1>7, <1>8, <1>9, Actor

LEMMA TimeSpentStep ==
  Typed /\ Visits /\ TimeSpent /\ [SessionsNext]_sessions => TimeSpent'
<1> SUFFICES ASSUME Typed, Visits, TimeSpent, [SessionsNext]_sessions, NEW h \in Hook,
                    hook'[h].pc \in {"idle", "drain", "sending", "removing", "post"}
             PROVE  hook'[h].spent <= Cardinality(Handled(h)') * DrainTime
  BY DEF TimeSpent
<1> DEFINE n == Cardinality(Handled(h))
           m == Cardinality(Handled(h)')
<1>1. hook[h].spent \in Nat /\ hook'[h].spent \in Nat /\ IsFiniteSet(Handled(h)')
  <2>1. Typed'
    BY TypedStep
  <2>2. IsFiniteSet(hook'[h].found) /\ hook'[h].spent \in Nat
    <3>1. hook'[h].found \subseteq Old \cup Hook
      BY <2>1 DEF Typed, HookState, Report
    <3> QED BY <2>1, <3>1, ReportAssumption, FS_Subset DEF Typed, HookState
  <2>3. Handled(h)' \subseteq hook'[h].found
    BY DEF Handled
  <2> QED BY <2>2, <2>3, FS_Subset, FoundFinite
<1>2. hook[h].spent <= n * DrainTime
  BY HandledStep DEF TimeSpent
<1>3. Handled(h) \subseteq Handled(h)'
  BY HandledStep
<1>4. n \in Nat /\ m \in Nat /\ n <= m
  BY <1>1, <1>3, Counted
<1>5. CASE hook'[h].spent = hook[h].spent
  <2>1. n * DrainTime <= m * DrainTime /\ n * DrainTime \in Nat /\ m * DrainTime \in Nat
    BY <1>4, Times, TimeAssumption
  <2> QED BY <1>1, <1>2, <1>5, <2>1, Within
<1>6. CASE /\ hook[h].cur \in Handled(h)' \ Handled(h)
           /\ hook'[h].spent <= hook[h].spent + DrainTime
  <2>1. n + 1 <= m
    BY <1>1, <1>3, <1>6, Counted
  <2>2. n * DrainTime + DrainTime <= m * DrainTime
        /\ n * DrainTime \in Nat /\ m * DrainTime \in Nat
    BY <1>4, <2>1, Times, TimeAssumption
  <2> QED BY <1>1, <1>2, <1>6, <2>2, Within, TimeAssumption
<1> QED BY <1>5, <1>6, HandledStep

LEMMA KilledStep ==
  Typed /\ Visits /\ TimeSpent /\ KilledOnlyWhenFull /\ [SessionsNext]_sessions
    => KilledOnlyWhenFull'
<1> SUFFICES ASSUME Typed, Visits, TimeSpent, KilledOnlyWhenFull, [SessionsNext]_sessions,
                    NEW h \in Hook, hook'[h].pc = "killed"
             PROVE  Cardinality(hook'[h].found) * DrainTime + PostTime > HookLimit
  BY DEF KilledOnlyWhenFull, At
<1> DEFINE n == Cardinality(Handled(h))
           m == Cardinality(hook[h].found)
<1>0. /\ IsFiniteSet(hook[h].found) /\ hook[h].spent \in Nat
      /\ Handled(h) \subseteq hook[h].found
  BY FoundFinite DEF Handled
<1>1. n \in Nat /\ m \in Nat /\ n <= m
      /\ n * DrainTime \in Nat /\ m * DrainTime \in Nat /\ n * DrainTime <= m * DrainTime
  BY <1>0, Counted, Times, TimeAssumption
<1>2. CASE hook'[h] = hook[h]
  BY <1>2 DEF KilledOnlyWhenFull, At
<1>3. CASE Resend(h)
  <2> PICK c : c = hook[h].cur
    OBVIOUS
  <2>1. /\ hook[h].pc = "sending" /\ hook'[h].found = hook[h].found
        /\ hook[h].spent + DrainTime > HookLimit
    BY <1>3, ResendEffect DEF At, Turn
  <2>2. hook[h].spent <= n * DrainTime
    BY <2>1 DEF TimeSpent
  <2>3. c \in hook[h].found \ Handled(h)
    BY <2>1 DEF Visits, Handled, At
  <2>4. n * DrainTime + DrainTime <= m * DrainTime
    BY <1>0, <1>1, <2>3, Counted, Times, TimeAssumption
  <2>5. hook[h].spent + DrainTime <= m * DrainTime
    BY <1>0, <1>1, <2>2, <2>4, Within, TimeAssumption
  <2>6. Cardinality(hook'[h].found) = m
    BY <2>1
  <2> QED BY <1>0, <1>1, <2>1, <2>5, <2>6, TimeAssumption
<1>4. CASE Post(h)
  <2>1. /\ hook[h].pc = "post" /\ hook'[h].found = hook[h].found
        /\ hook[h].spent + PostTime > HookLimit
    BY <1>4, PostEffect DEF At, Turn
  <2>2. hook[h].spent <= n * DrainTime
    BY <2>1 DEF TimeSpent
  <2>3. hook[h].spent <= m * DrainTime
    BY <1>0, <1>1, <2>2
  <2>4. Cardinality(hook'[h].found) = m
    BY <2>1
  <2> QED BY <1>0, <1>1, <2>1, <2>3, <2>4, TimeAssumption
<1>5. CASE \/ List(h) \/ Remove(h) \/ Drained(h) \/ Create(h) \/ Write(h) \/ CannotSpool(h)
           \/ Die(h) \/ \E q \in Report : Read(h, q)
  <2> PICK c : c = hook[h].cur
    OBVIOUS
  <2> QED BY <1>5, ListEffect, ReadEffect, RemoveEffect, DrainedEffect, CreateEffect,
             WriteEffect, CannotSpoolEffect, DieEffect DEF Turn
<1> QED BY <1>2, <1>3, <1>4, <1>5, Actor

\* A hook that may have posted a report stays one.
LEMMA PostedStays ==
  ASSUME Typed, Visits, [SessionsNext]_sessions, NEW r \in Report
  PROVE  Posted(r) \subseteq Posted(r)'
<1> SUFFICES ASSUME NEW g \in Posted(r) PROVE g \in Posted(r)'
  OBVIOUS
<1>1. g \in Hook
  BY DEF Posted
<1>2. CASE r \in Handled(g)
  <2>1. hook[g].pc # "idle"
    BY <1>1, <1>2 DEF Handled, Visits
  <2>2. r \in Handled(g)'
    BY <1>1, <1>2, <2>1, HandledStep
  <2> QED BY <1>1, <2>2 DEF Posted
<1>3. CASE r = g /\ hook[g].pc \in {"spooling", "writing", "done", "killed", "died"}
  <2>1. hook'[g].pc \in {"spooling", "writing", "done", "killed", "died"}
    <3> PICK c : c = hook[g].cur
      OBVIOUS
    <3>1. CASE hook'[g] = hook[g]
      BY <1>3, <3>1
    <3>2. CASE Create(g) \/ Write(g) \/ CannotSpool(g) \/ Die(g)
      BY <1>1, <3>2, CreateEffect, WriteEffect, CannotSpoolEffect, DieEffect DEF Turn
    <3>3. CASE \/ List(g) \/ Resend(g) \/ Remove(g) \/ Drained(g) \/ Post(g)
               \/ \E q \in Report : Read(g, q)
      BY <1>1, <1>3, <3>3, ListEffect, ReadEffect, ResendEffect, RemoveEffect, DrainedEffect,
         PostEffect DEF At
    <3> QED BY <1>1, <3>1, <3>2, <3>3, Actor
  <2> QED BY <1>1, <1>3, <2>1 DEF Posted, At
<1> QED BY <1>2, <1>3 DEF Posted

\* A report is stored by a hook that cannot have posted it before.
LEMMA StoredByNew ==
  ASSUME Typed, Visits, Created, [SessionsNext]_sessions, NEW r \in Report
  PROVE  \/ stored'[r] = stored[r]
         \/ stored'[r] = stored[r] + 1 /\ \E h \in Hook : h \in Posted(r)' \ Posted(r)
<1> DEFINE Goal == \/ stored'[r] = stored[r]
                   \/ stored'[r] = stored[r] + 1 /\ \E h \in Hook : h \in Posted(r)' \ Posted(r)
<1>1. ASSUME NEW h \in Hook, NEW c, c = hook[h].cur,
             Resend(h) \/ (Die(h) /\ Unheard(c)), At(h, "sending")
      PROVE  Goal
  <2>1. c \in Report /\ (Stores(c) \/ Unheard(c)) /\ At(h, "sending")
    BY <1>1, ResendEffect, DieEffect
  <2>2. stored'[r] = stored[r] \/ (r = c /\ stored'[r] = stored[r] + 1)
    BY <2>1 DEF Stores, Unheard
  <2>3. c \in Handled(h)' \ Handled(h)
    <3>1. c \in hook[h].found \ hook[h].todo
      BY <1>1 DEF Visits, At
    <3>2. /\ hook'[h].found = hook[h].found /\ hook'[h].todo \subseteq hook[h].todo
          /\ hook'[h].pc # "sending"
      BY <1>1, ResendEffect, DieEffect DEF Turn
    <3> QED BY <1>1, <2>1, <3>1, <3>2 DEF Handled, At
  <2>4. c # h
    <3>1. c \in hook[h].found /\ hook[h].pc = "sending"
      BY <1>1 DEF Visits, At
    <3> QED BY <3>1 DEF Created
  <2>5. h \in Posted(c)' \ Posted(c)
    BY <2>3, <2>4 DEF Posted
  <2> QED BY <2>2, <2>5
<1>2. ASSUME NEW h \in Hook, NEW c, c = hook[h].cur,
             Post(h) \/ (Die(h) /\ Unheard(h) /\ At(h, "post"))
      PROVE  Goal
  <2>1. At(h, "post") /\ hook'[h].pc \in {"done", "spooling", "killed", "died"}
        /\ (Stores(h) \/ Unheard(h))
    BY <1>2, PostEffect, DieEffect DEF Turn
  <2>2. stored'[r] = stored[r] \/ (r = h /\ stored'[r] = stored[r] + 1)
    BY <2>1 DEF Stores, Unheard
  <2>3. h \notin Handled(h)
    BY <2>1 DEF Handled, Created, At
  <2>4. h \in Posted(h)' \ Posted(h)
    BY <2>1, <2>3 DEF Posted, At
  <2> QED BY <2>2, <2>4
<1>3. ASSUME NEW h \in Hook,
             \/ List(h) \/ Remove(h) \/ Drained(h) \/ Create(h) \/ Write(h) \/ CannotSpool(h)
             \/ \E q \in Report : Read(h, q)
      PROVE  Goal
  <2> PICK c : c = hook[h].cur
    OBVIOUS
  <2>1. stored' = stored
    BY <1>3, ListEffect, ReadEffect, RemoveEffect, DrainedEffect, CreateEffect,
       WriteEffect, CannotSpoolEffect
  <2> QED BY <2>1
<1>4. CASE UNCHANGED sessions
  BY <1>4 DEF sessions
<1>5. ASSUME NEW h \in Hook, Resend(h) \/ Post(h) \/ Die(h) PROVE Goal
  <2> PICK c : c = hook[h].cur
    OBVIOUS
  <2>1. CASE Resend(h)
    BY <1>1, <2>1, ResendEffect
  <2>2. CASE Post(h)
    BY <1>2, <2>2
  <2>3. CASE Die(h)
    BY <1>1, <1>2, <2>3, DieEffect
  <2> QED BY <1>5, <2>1, <2>2, <2>3
<1> QED BY <1>3, <1>4, <1>5 DEF SessionsNext

LEMMA HookFinite == IsFiniteSet(Hook)
  BY ReportAssumption, FS_Subset

LEMMA StoredByEachStep ==
  Typed /\ Visits /\ Created /\ StoredByEach /\ [SessionsNext]_sessions => StoredByEach'
<1> SUFFICES ASSUME Typed, Visits, Created, StoredByEach, [SessionsNext]_sessions,
                    NEW r \in Report
             PROVE  stored'[r] <= Cardinality(Posted(r)')
  BY DEF StoredByEach
<1> DEFINE n == Cardinality(Posted(r))
           m == Cardinality(Posted(r)')
<1>1. Posted(r) \subseteq Posted(r)' /\ IsFiniteSet(Posted(r)')
  <2>1. Posted(r)' \subseteq Hook
    BY DEF Posted
  <2> QED BY <2>1, PostedStays, HookFinite, FS_Subset
<1>2. n \in Nat /\ m \in Nat /\ n <= m /\ \A x \in Posted(r)' \ Posted(r) : n + 1 <= m
  BY <1>1, Counted
<1>3. stored[r] \in Nat /\ stored[r] <= n
  BY DEF Typed, StoredByEach
<1>4. stored'[r] = stored[r] \/ (stored'[r] = stored[r] + 1 /\ n + 1 <= m)
  BY <1>2, StoredByNew
<1> QED BY <1>2, <1>3, <1>4, Within

-----------------------------------------------------------------------------
(* Theorems.                                                                *)

LEMMA InitInv == SessionsInit => SessionsInv
<1> SUFFICES ASSUME SessionsInit PROVE SessionsInv
  OBVIOUS
<1>1. /\ \A h \in Hook : hook[h] = IdleHook(h)
      /\ \A r \in Report : stored[r] = 0 /\ spool[r] \in File
      /\ \A r \in Old : spool[r] = "torn" => r \in lost
      /\ lost \subseteq Report /\ doubtful = {}
      /\ \A r \in Hook : spool[r] = "none"
  <2>1. PICK files \in [Old -> File] :
          /\ spool = [r \in Report |-> IF r \in Old THEN files[r] ELSE "none"]
          /\ lost = {r \in Old : files[r] = "torn"}
    BY DEF SessionsInit
  <2> QED BY <2>1, InReport, ReportAssumption DEF SessionsInit, Report, File
<1>2. \A h \in Hook : /\ hook[h].pc = "idle" /\ hook[h].found = {} /\ hook[h].todo = {}
                      /\ hook[h].left = {} /\ hook[h].spent = 0
  <2> SUFFICES ASSUME NEW h \in Hook
               PROVE  /\ hook[h].pc = "idle" /\ hook[h].found = {} /\ hook[h].todo = {}
                      /\ hook[h].left = {} /\ hook[h].spent = 0
    OBVIOUS
  <2>1. hook[h] = IdleHook(h)
    BY <1>1
  <2> QED BY <2>1 DEF IdleHook
<1>3. Typed
  <2>1. \A h \in Hook : IdleHook(h) \in HookState
    BY InReport DEF IdleHook, HookState, HookPC
  <2>2. spool \in [Report -> File]
    BY DEF SessionsInit, File
  <2> QED BY <1>1, <2>1, <2>2 DEF SessionsInit, Typed
<1>4. Visits /\ Tried /\ KilledOnlyWhenFull
  BY <1>2 DEF Visits, Tried, KilledOnlyWhenFull, At
<1>5. Created
  BY <1>1, <1>2 DEF Created, Report
<1>6. Kept
  BY <1>2 DEF Kept, At
<1>7. Once
  BY <1>1, <1>2 DEF Once, Holds
<1>8. TimeSpent
  <2> SUFFICES ASSUME NEW h \in Hook
               PROVE  hook[h].spent <= Cardinality(Handled(h)) * DrainTime
    BY DEF TimeSpent
  <2>1. Handled(h) = {}
    BY <1>2 DEF Handled
  <2>2. Cardinality(Handled(h)) = 0
    BY <2>1, FS_EmptySet
  <2> QED BY <1>2, <2>2, TimeAssumption
<1>9. StoredByEach
  <2> SUFFICES ASSUME NEW r \in Report PROVE stored[r] <= Cardinality(Posted(r))
    BY DEF StoredByEach
  <2>1. IsFiniteSet(Posted(r))
    BY HookFinite, FS_Subset DEF Posted
  <2>2. Cardinality(Posted(r)) \in Nat
    BY <2>1, FS_CardinalityType
  <2> QED BY <1>1, <2>2
<1> QED BY <1>3, <1>4, <1>5, <1>6, <1>7, <1>8, <1>9 DEF SessionsInv

\* The invariant from which the rest follows: what the hooks have found, tried,
\* posted and spent, whichever of their steps come between.
THEOREM SessionsInvariant == SessionsSpec => []SessionsInv
<1>1. SessionsInv /\ [SessionsNext]_sessions => SessionsInv'
  BY TypedStep, VisitsStep, CreatedStep, TriedStep, KeptStep, OnceStep, TimeSpentStep,
     KilledStep, StoredByEachStep DEF SessionsInv
<1> QED BY <1>1, InitInv, PTL DEF SessionsSpec

\* Every variable keeps its type, and no hook sends a report twice: whatever
\* the hooks find in the spool, a report is stored at most once for each.
THEOREM SessionsTyped == SessionsSpec => []SessionsTypeOK
<1>1. SessionsInv => SessionsTypeOK
  <2> SUFFICES ASSUME SessionsInv PROVE SessionsTypeOK
    OBVIOUS
  <2>1. ASSUME NEW r \in Report PROVE stored[r] \in 0..Cardinality(Hook)
    <3>1. Posted(r) \subseteq Hook
      BY DEF Posted
    <3>2. /\ Cardinality(Posted(r)) \in Nat /\ Cardinality(Hook) \in Nat
          /\ Cardinality(Posted(r)) <= Cardinality(Hook)
      BY <3>1, HookFinite, Counted
    <3>3. stored[r] \in Nat /\ stored[r] <= Cardinality(Posted(r))
      BY DEF SessionsInv, Typed, StoredByEach
    <3> QED BY <3>2, <3>3
  <2>2. stored \in [Report -> 0..Cardinality(Hook)]
    BY <2>1 DEF SessionsInv, Typed
  <2> QED BY <2>2 DEF SessionsInv, Typed, Visits, SessionsTypeOK
<1> QED BY <1>1, SessionsInvariant, PTL

\* Whatever the hooks that share a spool interleave: the report of a hook that
\* ended by itself is stored, whole in the spool, or was lost in one of the two
\* ways in which spooling in place loses it.
THEOREM ReportsKept == SessionsSpec => []NoReportVanishes
<1>1. SessionsInv => NoReportVanishes
  BY DEF SessionsInv, Kept, Safe, NoReportVanishes, Report
<1> QED BY <1>1, SessionsInvariant, PTL

\* The host ends a hook only when it found more files than it has time for.
THEOREM KilledWhenFull == SessionsSpec => []KilledOnlyWhenFull
<1>1. SessionsInv => KilledOnlyWhenFull
  BY DEF SessionsInv
<1> QED BY <1>1, SessionsInvariant, PTL

\* A second copy of a report comes of a post whose answer was lost, of two hooks
\* at one file, or of the file of an accepted report that could not be removed
\* or whose hook died before it was, and of nothing else.
THEOREM DuplicatesExplained == SessionsSpec => []DuplicateHasCause
<1>1. SessionsInv => DuplicateHasCause
  BY DEF SessionsInv, Typed, Once, DuplicateHasCause
<1> QED BY <1>1, SessionsInvariant, PTL

\* A hook that ended by itself came to each file it found, those behind a file
\* that was taken, torn, refused, or could not be read or removed included.
THEOREM AllTried == SessionsSpec => []EveryFileTried
<1>1. SessionsInv => EveryFileTried
  BY DEF SessionsInv, Visits, Tried, Holds, At, EveryFileTried
<1> QED BY <1>1, SessionsInvariant, PTL

-----------------------------------------------------------------------------
(* Termination.                                                             *)

\* How many steps a hook has still to take at most: three for each file it has
\* still to visit, then those of its own report.
Steps(pc) ==
  IF pc = "idle" THEN 5
  ELSE IF pc = "sending" THEN 6
  ELSE IF pc = "removing" THEN 5
  ELSE IF pc = "drain" THEN 4
  ELSE IF pc = "post" THEN 3
  ELSE IF pc = "spooling" THEN 2
  ELSE IF pc = "writing" THEN 1
  ELSE 0
StepsLeft(x) == 3 * Cardinality(IF x.pc = "idle" THEN Report ELSE x.todo) + Steps(x.pc)

LEMMA Visitable ==
  ASSUME NEW x \in HookState
  PROVE  /\ Cardinality(x.todo) \in Nat /\ Cardinality(Report) \in Nat
         /\ Cardinality(x.todo) <= Cardinality(Report)
         /\ \A r \in x.todo : Cardinality(x.todo \ {r}) = Cardinality(x.todo) - 1
         /\ Cardinality({}) = 0
<1>1. IsFiniteSet(Report) /\ x.todo \subseteq Report
  BY ReportAssumption DEF Report, HookState
<1>2. IsFiniteSet(x.todo) /\ Cardinality(x.todo) <= Cardinality(Report)
  BY <1>1, FS_Subset
<1>3. Cardinality(x.todo) \in Nat /\ Cardinality(Report) \in Nat
  BY <1>1, <1>2, FS_CardinalityType
<1>4. \A r \in x.todo : Cardinality(x.todo \ {r}) = Cardinality(x.todo) - 1
  BY <1>2, FS_RemoveElement
<1> QED BY <1>2, <1>3, <1>4, FS_EmptySet

\* Hook h takes a step and has fewer to take.
Nearer(h) == Others(h) /\ StepsLeft(hook'[h]) < StepsLeft(hook[h])

LEMMA NearerStep ==
  ASSUME Typed, SessionsNext
  PROVE  \E h \in Hook : Nearer(h)
<1>1. PICK h \in Hook :
        \/ List(h) \/ Resend(h) \/ Remove(h) \/ Drained(h)
        \/ Post(h) \/ Create(h) \/ Write(h) \/ CannotSpool(h) \/ Die(h)
        \/ \E r \in Report : Read(h, r)
  BY DEF SessionsNext
<1> DEFINE x == hook[h]
           y == hook'[h]
           n == Cardinality(x.todo)
<1>2. x \in HookState /\ y \in HookState
  <2>1. Typed'
    BY TypedStep
  <2> QED BY <2>1 DEF Typed
<1>3. /\ n \in Nat /\ Cardinality(Report) \in Nat
      /\ \A r \in x.todo : Cardinality(x.todo \ {r}) = n - 1
      /\ Cardinality(y.todo) \in Nat /\ Cardinality(y.todo) <= Cardinality(Report)
      /\ Cardinality({}) = 0
  BY <1>2, Visitable
\* One step less of the same file, or none of it.
<1>a. ASSUME Others(h), y.pc # "idle", x.pc # "idle", y.todo = x.todo \/ y.todo = {},
             Steps(y.pc) < Steps(x.pc)
      PROVE  Nearer(h)
  <2>1. Cardinality(y.todo) <= n
    BY <1>3, <1>a
  <2>2. Steps(x.pc) \in Nat /\ Steps(y.pc) \in Nat
    BY DEF Steps
  <2> HIDE DEF x, y, n
  <2>3. 3 * Cardinality(y.todo) + Steps(y.pc) < 3 * Cardinality(x.todo) + Steps(x.pc)
    BY <1>3, <1>a, <2>1, <2>2 DEF n
  <2> QED BY <1>a, <2>3 DEF Nearer, StepsLeft, x, y
<1>4. CASE List(h)
  <2>1. x.pc = "idle" /\ y.pc = "drain" /\ Others(h)
    BY <1>4, ListEffect DEF Turn, At
  <2> QED BY <1>3, <2>1 DEF Nearer, StepsLeft, Steps
<1>5. ASSUME NEW r \in Report, Read(h, r) PROVE Nearer(h)
  <2>1. /\ x.pc = "drain" /\ r \in x.todo /\ y.todo = x.todo \ {r} /\ Others(h)
        /\ y.pc \in {"drain", "sending", "removing"}
    BY <1>5, ReadEffect DEF Turn, At
  <2>2. Cardinality(y.todo) = n - 1
    BY <1>3, <2>1
  <2>3. Steps(x.pc) = 4 /\ Steps(y.pc) \in {4, 5, 6} /\ x.pc # "idle" /\ y.pc # "idle"
    BY <2>1 DEF Steps
  <2> HIDE DEF x, y, n
  <2>4. 3 * Cardinality(y.todo) + Steps(y.pc) < 3 * Cardinality(x.todo) + Steps(x.pc)
    BY <1>3, <2>2, <2>3 DEF n
  <2> QED BY <2>1, <2>3, <2>4 DEF Nearer, StepsLeft, x, y
<1>6. CASE Resend(h)
  <2>1. /\ x.pc = "sending" /\ y.pc \in {"removing", "drain", "killed"} /\ Others(h)
        /\ y.todo = x.todo \/ y.todo = {}
    BY <1>6, ResendEffect DEF Turn, At
  <2> QED BY <1>a, <2>1 DEF Steps
<1>7. CASE Remove(h)
  <2>1. x.pc = "removing" /\ y.pc = "drain" /\ Others(h) /\ y.todo = x.todo
    BY <1>7, RemoveEffect DEF Turn, At
  <2> QED BY <1>a, <2>1 DEF Steps
<1>8. CASE Drained(h)
  <2>1. x.pc = "drain" /\ y.pc = "post" /\ Others(h) /\ y.todo = {}
    BY <1>8, DrainedEffect DEF Turn, At
  <2> QED BY <1>a, <2>1 DEF Steps
<1>9. CASE Post(h)
  <2>1. /\ x.pc = "post" /\ y.pc \in {"done", "spooling", "killed"} /\ Others(h)
        /\ y.todo = x.todo \/ y.todo = {}
    BY <1>9, PostEffect DEF Turn, At
  <2> QED BY <1>a, <2>1 DEF Steps
<1>10. CASE Create(h)
  <2>1. x.pc = "spooling" /\ y.pc = "writing" /\ Others(h) /\ y.todo = x.todo
    BY <1>10, CreateEffect DEF Turn, At
  <2> QED BY <1>a, <2>1 DEF Steps
<1>11. CASE Write(h) \/ CannotSpool(h)
  <2>1. x.pc \in {"spooling", "writing"} /\ y.pc = "done" /\ Others(h) /\ y.todo = {}
    BY <1>11, WriteEffect, CannotSpoolEffect DEF Turn, At
  <2> QED BY <1>a, <2>1 DEF Steps
<1>12. CASE Die(h)
  <2>1. /\ x.pc \in {"drain", "sending", "removing", "post", "spooling", "writing"}
        /\ y.pc = "died" /\ Others(h) /\ y.todo = {}
    BY <1>2, <1>12, DieEffect DEF Turn, HookState, HookPC
  <2> QED BY <1>a, <2>1 DEF Steps
<1> QED BY <1>1, <1>4, <1>5, <1>6, <1>7, <1>8, <1>9, <1>10, <1>11, <1>12

\* Every hook comes to an end, whatever is in the spool, whatever the server
\* answers and whatever other hooks do to the files: each step of a hook leaves
\* it fewer to take, and the others as many as before.
THEOREM HooksEnd == SessionsSpec => [][\E h \in Hook : Nearer(h)]_sessions
<1>1. Typed /\ [SessionsNext]_sessions => [\E h \in Hook : Nearer(h)]_sessions
  BY NearerStep
<1>2. SessionsInv => Typed
  BY DEF SessionsInv
<1> QED BY <1>1, <1>2, SessionsInvariant, PTL DEF SessionsSpec
=============================================================================
