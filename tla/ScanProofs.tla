------------------------------ MODULE ScanProofs ------------------------------
(***************************************************************************)
(* Proofs about SemverScan, for lists of any length of versions of any      *)
(* size, in any order.                                                      *)
(***************************************************************************)
EXTENDS SemverScan, SequenceTheorems, TLAPS

\* What the loop has seen when it comes to string n.
Seen(list, n) == UNION {list[j] : j \in 1..(n - 1)}

\* best is the highest version seen so far, if there is one.
BestOf(S, b, found) ==
  /\ found <=> S # {}
  /\ ~found => b = Zero
  /\ found => b \in S /\ \A v \in S : ~Higher(v, b)

ScanInv ==
  /\ versions \in Lists /\ i \in 1..(Len(versions) + 1) /\ ok \in BOOLEAN
  /\ BestOf(Seen(versions, i), best, ok)

-----------------------------------------------------------------------------
(* Versions.                                                                *)

\* The versions that are listed.
Small == {V(a, b, c) : a, b, c \in 0..MaxPart}

LEMMA SmallParts ==
  ASSUME NEW v \in Small \cup {Zero}
  PROVE  v \in Version /\ v.major \in 0..MaxPart /\ v.minor \in 0..MaxPart /\ v.patch \in 0..MaxPart
<1>1. \E a, b, c \in 0..MaxPart : v = V(a, b, c)
  BY ScanBoundAssumption DEF Small, Zero
<1> QED BY <1>1, ScanBoundAssumption DEF V, Version

\* Higher orders the versions.
LEMMA HigherOrder ==
  ASSUME NEW u \in Version, NEW v \in Version, NEW w \in Version
  PROVE  /\ ~Higher(u, u)
         /\ Higher(u, v) => ~Higher(v, u)
         /\ Higher(u, v) \/ Higher(v, u) \/ u = v
         /\ Higher(u, v) /\ Higher(v, w) => Higher(u, w)
         /\ Higher(u, v) /\ ~Higher(w, v) => Higher(u, w)
<1>1. u.major = v.major /\ u.minor = v.minor /\ u.patch = v.patch => u = v
  BY DEF Version
<1> QED BY <1>1 DEF Version, Higher

\* Latest yields the version that none is above.
LEMMA LatestIs ==
  ASSUME NEW S \in SUBSET Version, NEW u \in S, \A w \in S : ~Higher(w, u)
  PROVE  Latest(S) = u
<1> DEFINE highest == {v \in S : \A w \in S : Compare(w, v) <= 0}
<1>1. \A v \in S, w \in S : Compare(w, v) <= 0 <=> ~Higher(w, v)
  BY HigherOrder DEF Compare
<1>2. highest = {u}
  <2>1. u \in highest
    BY <1>1
  <2>2. \A v \in highest : v \in S /\ ~Higher(u, v)
    BY <1>1
  <2>3. \A v \in highest : v = u
    BY <2>2, HigherOrder
  <2> HIDE DEF highest
  <2> QED BY <2>1, <2>3
<1>3. Latest(S) = IF highest = {} THEN Zero ELSE CHOOSE v \in highest : TRUE
  BY DEF Latest
<1> HIDE DEF highest
<1> QED BY <1>2, <1>3

\* Above, kind by kind.
LEMMA AboveIs ==
  ASSUME NEW cur, NEW kind \in BumpKind, NEW v
  PROVE  v \in Above(cur, kind) <=>
           /\ \E a, b, c \in 0..MaxPart + 1 : v = V(a, b, c)
           /\ \/ kind = "major" /\ v.major > cur.major
              \/ kind = "minor" /\ v.major = cur.major /\ v.minor > cur.minor
              \/ kind = "patch" /\ v.major = cur.major /\ v.minor = cur.minor /\ v.patch > cur.patch
<1> DEFINE all == {V(a, b, c) : a, b, c \in 0..MaxPart + 1}
<1>1. v \in all <=> \E a, b, c \in 0..MaxPart + 1 : v = V(a, b, c)
  OBVIOUS
<1>2. CASE kind = "major"
  <2>1. Above(cur, kind) = {w \in all : w.major > cur.major}
    BY <1>2 DEF Above
  <2> HIDE DEF all
  <2> QED BY <1>1, <1>2, <2>1
<1>3. CASE kind = "minor"
  <2>1. Above(cur, kind) = {w \in all : w.major = cur.major /\ w.minor > cur.minor}
    BY <1>3 DEF Above
  <2> HIDE DEF all
  <2> QED BY <1>1, <1>3, <2>1
<1>4. CASE kind = "patch"
  <2>1. Above(cur, kind) = {w \in all : w.major = cur.major /\ w.minor = cur.minor /\ w.patch > cur.patch}
    BY <1>4 DEF Above
  <2> HIDE DEF all
  <2> QED BY <1>1, <1>4, <2>1
<1> QED BY <1>2, <1>3, <1>4 DEF BumpKind

\* A bump is above the version it starts from, and below the others that
\* are so in the part it is about.
LEMMA BumpNext ==
  ASSUME NEW cur \in Small \cup {Zero}, NEW kind \in BumpKind
  PROVE  /\ Bump(cur, kind) \in Version /\ Higher(Bump(cur, kind), cur)
         /\ Bump(cur, kind) \in Above(cur, kind)
         /\ \A v \in Above(cur, kind) : v = Bump(cur, kind) \/ Higher(v, Bump(cur, kind))
<1> DEFINE next == Bump(cur, kind)
<1>0. MaxPart \in Nat /\ MaxPart + 1 \in Nat
  BY ScanBoundAssumption
<1>1. /\ cur \in Version /\ cur.major \in 0..MaxPart /\ cur.minor \in 0..MaxPart
      /\ cur.patch \in 0..MaxPart
  BY SmallParts
<1>2. \E a, b, c \in 0..MaxPart + 1 :
        /\ next = V(a, b, c)
        /\ \/ kind = "major" /\ a = cur.major + 1 /\ b = 0 /\ c = 0
           \/ kind = "minor" /\ a = cur.major /\ b = cur.minor + 1 /\ c = 0
           \/ kind = "patch" /\ a = cur.major /\ b = cur.minor /\ c = cur.patch + 1
  <2>1. CASE kind = "major"
    <3>1. next = V(cur.major + 1, 0, 0)
      BY <2>1 DEF Bump
    <3> HIDE DEF next
    <3> QED BY <1>0, <1>1, <2>1, <3>1
  <2>2. CASE kind = "minor"
    <3>1. next = V(cur.major, cur.minor + 1, 0)
      BY <2>2 DEF Bump
    <3> HIDE DEF next
    <3> QED BY <1>0, <1>1, <2>2, <3>1
  <2>3. CASE kind = "patch"
    <3>1. next = V(cur.major, cur.minor, cur.patch + 1)
      BY <2>3 DEF Bump
    <3> HIDE DEF next
    <3> QED BY <1>0, <1>1, <2>3, <3>1
  <2> QED BY <2>1, <2>2, <2>3 DEF BumpKind
<1>3. PICK a \in 0..MaxPart + 1, b \in 0..MaxPart + 1, c \in 0..MaxPart + 1 :
        /\ next = V(a, b, c)
        /\ \/ kind = "major" /\ a = cur.major + 1 /\ b = 0 /\ c = 0
           \/ kind = "minor" /\ a = cur.major /\ b = cur.minor + 1 /\ c = 0
           \/ kind = "patch" /\ a = cur.major /\ b = cur.minor /\ c = cur.patch + 1
  BY <1>2
<1> HIDE DEF next
<1>4. next.major = a /\ next.minor = b /\ next.patch = c /\ next \in Version
  BY <1>0, <1>3 DEF V, Version
<1>5. Higher(next, cur)
  BY <1>0, <1>1, <1>3, <1>4 DEF Higher
<1>6. next \in Above(cur, kind)
  <2>1. \/ kind = "major" /\ next.major > cur.major
        \/ kind = "minor" /\ next.major = cur.major /\ next.minor > cur.minor
        \/ kind = "patch" /\ next.major = cur.major /\ next.minor = cur.minor /\ next.patch > cur.patch
    BY <1>0, <1>1, <1>3, <1>4
  <2>2. \E d, e, f \in 0..MaxPart + 1 : next = V(d, e, f)
    BY <1>3
  <2> QED BY <2>1, <2>2, AboveIs
<1>7. ASSUME NEW v \in Above(cur, kind) PROVE v = next \/ Higher(v, next)
  <2>1. PICK d \in 0..MaxPart + 1, e \in 0..MaxPart + 1, f \in 0..MaxPart + 1 : v = V(d, e, f)
    BY <1>7, AboveIs
  <2>2. v.major = d /\ v.minor = e /\ v.patch = f /\ v \in Version
    BY <1>0, <2>1 DEF V, Version
  <2>3. \/ kind = "major" /\ d > cur.major
        \/ kind = "minor" /\ d = cur.major /\ e > cur.minor
        \/ kind = "patch" /\ d = cur.major /\ e = cur.minor /\ f > cur.patch
    <3>1. \/ kind = "major" /\ v.major > cur.major
          \/ kind = "minor" /\ v.major = cur.major /\ v.minor > cur.minor
          \/ kind = "patch" /\ v.major = cur.major /\ v.minor = cur.minor /\ v.patch > cur.patch
      BY <1>7, AboveIs
    <3> QED BY <2>2, <3>1
  <2>4. ~Higher(next, v)
    BY <1>0, <1>1, <1>3, <1>4, <2>2, <2>3 DEF Higher
  <2> QED BY <1>4, <2>2, <2>4, HigherOrder
<1> QED BY <1>4, <1>5, <1>6, <1>7 DEF next

-----------------------------------------------------------------------------
(* The loop.                                                                *)

LEMMA ListedParts ==
  ASSUME NEW list \in Lists
  PROVE  /\ Len(list) \in Nat /\ DOMAIN list = 1..Len(list)
         /\ \A j \in 1..Len(list) : list[j] \in Listed
         /\ \A n \in 1..(Len(list) + 1) : Seen(list, n) \subseteq Small
<1>1. PICK n \in 0..MaxTags : list \in [1..n -> Listed]
  BY DEF Lists
<1>2. list \in Seq(Listed)
  BY <1>1, ScanBoundAssumption, SeqDef
<1>3. \A v \in Listed : v \subseteq Small
  BY DEF Listed, Small
<1>4. Len(list) \in Nat /\ DOMAIN list = 1..Len(list) /\ \A j \in 1..Len(list) : list[j] \in Listed
  BY <1>2
<1>5. ASSUME NEW k \in 1..(Len(list) + 1) PROVE Seen(list, k) \subseteq Small
  BY <1>3, <1>4 DEF Seen
<1> QED BY <1>4, <1>5

LEMMA SmallVersions == Small \subseteq Version
BY SmallParts

\* A round keeps the higher of the best so far and the version it finds.
LEMMA BetterBest ==
  ASSUME NEW S \in SUBSET Version, NEW b, NEW found \in BOOLEAN, BestOf(S, b, found), NEW v \in Version
  PROVE  BestOf(S \cup {v}, Better(b, found, v), TRUE)
<1>1. CASE ~found
  BY <1>1, HigherOrder DEF BestOf, Better
<1>2. CASE found
  <2>1. b \in S /\ \A w \in S : ~Higher(w, b)
    BY <1>2 DEF BestOf
  <2>2. Better(b, found, v) = IF Higher(v, b) THEN v ELSE b
    BY <1>2, <2>1, HigherOrder DEF Better, Compare
  <2>3. CASE Higher(v, b)
    <3>1. \A w \in S : ~Higher(w, v)
      BY <2>1, <2>3, HigherOrder
    <3> QED BY <2>2, <2>3, <3>1, HigherOrder DEF BestOf
  <2>4. CASE ~Higher(v, b)
    BY <2>1, <2>2, <2>4 DEF BestOf
  <2> QED BY <2>3, <2>4
<1> QED BY <1>1, <1>2

LEMMA InitInv == ScanInit => ScanInv
<1> SUFFICES ASSUME ScanInit PROVE ScanInv
  OBVIOUS
<1>1. versions \in Lists /\ i = 1 /\ best = Zero /\ ok = FALSE
  BY DEF ScanInit
<1>2. i \in 1..(Len(versions) + 1)
  BY <1>1, ListedParts
<1>3. Seen(versions, i) = {}
  BY <1>1 DEF Seen
<1> QED BY <1>1, <1>2, <1>3 DEF ScanInv, BestOf

LEMMA NextInv == ScanInv /\ [Round]_scanVars => ScanInv'
<1> SUFFICES ASSUME ScanInv, [Round]_scanVars PROVE ScanInv'
  OBVIOUS
<1>0. /\ versions \in Lists /\ i \in 1..(Len(versions) + 1) /\ BestOf(Seen(versions, i), best, ok)
      /\ Len(versions) \in Nat /\ ok \in BOOLEAN
  BY ListedParts DEF ScanInv
<1>1. CASE UNCHANGED scanVars
  BY <1>0, <1>1 DEF ScanInv, scanVars
<1>2. CASE Round
  <2>1. i <= Len(versions) /\ i' = i + 1 /\ versions' = versions
    BY <1>2 DEF Round
  <2>2. i' \in 1..(Len(versions) + 1) /\ i \in 1..Len(versions)
    BY <1>0, <2>1
  <2>3. Seen(versions, i + 1) = Seen(versions, i) \cup versions[i]
    <3>1. 1..((i + 1) - 1) = (1..(i - 1)) \cup {i}
      BY <2>2
    <3> QED BY <3>1 DEF Seen
  <2>4. versions[i] \in Listed /\ Seen(versions, i) \subseteq Version
    BY <1>0, <2>2, ListedParts, SmallVersions
  <2>5. CASE versions[i] = {} /\ UNCHANGED <<best, ok>>
    BY <1>0, <2>1, <2>2, <2>3, <2>5 DEF ScanInv
  <2>6. CASE \E v \in versions[i] : best' = Better(best, ok, v) /\ ok' = TRUE
    <3>1. PICK v \in versions[i] : best' = Better(best, ok, v) /\ ok' = TRUE
      BY <2>6
    <3>2. versions[i] = {v} /\ v \in Small
      <4>1. PICK a \in 0..MaxPart, b \in 0..MaxPart, c \in 0..MaxPart : versions[i] = {V(a, b, c)}
        BY <2>4, <3>1 DEF Listed
      <4> QED BY <3>1, <4>1 DEF Small
    <3>3. ok \in BOOLEAN
      BY <1>0
    <3>4. BestOf(Seen(versions, i + 1), best', ok')
      <4>1. PICK S, b, found : S = Seen(versions, i) /\ b = best /\ found = ok
        OBVIOUS
      <4>2. S \in SUBSET Version /\ found \in BOOLEAN /\ BestOf(S, b, found) /\ v \in Version
        BY <1>0, <2>4, <3>2, <3>3, <4>1, SmallVersions
      <4>3. BestOf(S \cup {v}, Better(b, found, v), TRUE)
        BY <4>2, BetterBest
      <4>4. Seen(versions, i + 1) = S \cup {v} /\ best' = Better(b, found, v)
        BY <2>3, <3>1, <3>2, <4>1
      <4>5. ok' = TRUE
        BY <3>1
      <4>6. BestOf(Seen(versions, i + 1), best', TRUE)
        BY <4>3, <4>4
      <4> QED BY <4>5, <4>6 DEF BestOf
    <3>5. ok' \in BOOLEAN
      BY <3>1
    <3>6. versions' \in Lists /\ i' \in 1..(Len(versions') + 1)
      BY <1>0, <2>1, <2>2
    <3>7. BestOf(Seen(versions', i'), best', ok')
      BY <2>1, <3>4
    <3> QED BY <3>5, <3>6, <3>7 DEF ScanInv
  <2> QED BY <1>2, <2>5, <2>6 DEF Round
<1> QED BY <1>1, <1>2

\* The loop of semver.Latest keeps ScanInv: after each string it holds the
\* highest version among those listed so far, and knows whether there is one.
THEOREM ScanInvariant == ScanSpec => []ScanInv
<1> QED BY InitInv, NextInv, PTL DEF ScanSpec

\* At the end the loop has seen all.
LEMMA SeenAll ==
  ASSUME ScanInv, i > Len(versions)
  PROVE  BestOf(Parsed, best, ok) /\ Parsed \subseteq Small
<1>1. versions \in Lists /\ i \in 1..(Len(versions) + 1) /\ Len(versions) \in Nat
      /\ DOMAIN versions = 1..Len(versions)
  BY ListedParts DEF ScanInv
<1>2. i - 1 = Len(versions)
  BY <1>1
<1>3. Seen(versions, i) = Parsed
  BY <1>1, <1>2 DEF Seen, Parsed, ToSet
<1> QED BY <1>1, <1>3, ListedParts DEF ScanInv

\* semver.Latest returns the highest version of the list, whatever the order
\* and the repetitions, and says there is none exactly when nothing parses.
THEOREM LatestScanned == ScanSpec => []ScanIsLatest
<1>1. ScanInv => ScanIsLatest
  <2> SUFFICES ASSUME ScanInv, i > Len(versions)
               PROVE  best = Latest(Parsed) /\ (ok <=> Parsed # {})
    BY DEF ScanIsLatest
  <2>1. BestOf(Parsed, best, ok) /\ Parsed \in SUBSET Version
    BY SeenAll, SmallVersions
  <2>2. CASE ok
    BY <2>1, <2>2, LatestIs DEF BestOf
  <2>3. CASE ~ok
    <3>1. Parsed = {} /\ best = Zero
      BY <2>1, <2>3 DEF BestOf
    <3> QED BY <2>3, <3>1 DEF Latest
  <2> QED BY <2>2, <2>3
<1> QED BY <1>1, ScanInvariant, PTL

\* Bump of what Latest returns is above every version listed, and the lowest
\* of those above it in the part that is bumped.
THEOREM BumpedNext == ScanSpec => []BumpIsNext
<1>1. ScanInv => BumpIsNext
  <2> SUFFICES ASSUME ScanInv, i > Len(versions), NEW kind \in BumpKind
               PROVE  /\ \A v \in Parsed : Higher(Bump(best, kind), v)
                      /\ Bump(best, kind) \in Above(best, kind)
                      /\ \A v \in Above(best, kind) : v = Bump(best, kind) \/ Higher(v, Bump(best, kind))
    BY DEF BumpIsNext
  <2>1. BestOf(Parsed, best, ok) /\ Parsed \subseteq Small
    BY SeenAll
  <2>2. best \in Small \cup {Zero} /\ \A v \in Parsed : ~Higher(v, best)
    BY <2>1 DEF BestOf
  <2>3. /\ Bump(best, kind) \in Version /\ Higher(Bump(best, kind), best)
        /\ Bump(best, kind) \in Above(best, kind)
        /\ \A v \in Above(best, kind) : v = Bump(best, kind) \/ Higher(v, Bump(best, kind))
    BY <2>2, BumpNext
  <2>4. \A v \in Parsed : Higher(Bump(best, kind), v)
    BY <2>1, <2>2, <2>3, HigherOrder, SmallParts
  <2> QED BY <2>3, <2>4
<1> QED BY <1>1, ScanInvariant, PTL

===============================================================================
