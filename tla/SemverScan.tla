------------------------------ MODULE SemverScan ------------------------------
(***************************************************************************)
(* The loop of semver.Latest over the versions that git lists, in whatever *)
(* order, one round per step, and what a bump of its result is worth.      *)
(***************************************************************************)
EXTENDS Semver, Sequences, SequencesExt

CONSTANTS
  MaxPart,   \* bounds the parts of the versions listed
  MaxTags    \* bounds the length of the list

ASSUME ScanBoundAssumption == MaxPart \in Nat /\ MaxTags \in Nat

\* What Parse makes of a string: one version, or none.
Listed == {{V(a, b, c)} : a, b, c \in 0..MaxPart} \cup {{}}
Lists == UNION {[1..n -> Listed] : n \in 0..MaxTags}

VARIABLES versions, i, best, ok

scanVars == <<versions, i, best, ok>>

ScanInit == versions \in Lists /\ i = 1 /\ best = Zero /\ ok = FALSE

\* One round: a string that does not parse is skipped.
Round ==
  /\ i <= Len(versions)
  /\ i' = i + 1
  /\ \/ versions[i] = {} /\ UNCHANGED <<best, ok>>
     \/ \E v \in versions[i] : best' = Better(best, ok, v) /\ ok' = TRUE
  /\ UNCHANGED versions

ScanSpec == ScanInit /\ [][Round]_scanVars

-----------------------------------------------------------------------------
(* Properties.                                                              *)

Parsed == UNION ToSet(versions)

\* Whatever the order and the repetitions, the loop ends with what Latest
\* says of the set of versions, which is how the other modules use it.
ScanIsLatest ==
  i > Len(versions) => best = Latest(Parsed) /\ (ok <=> Parsed # {})

\* A bump leaves the version it started from behind, and is the lowest of all
\* versions that do so in the part it is about: no number is skipped, and
\* none below a restarted part is kept.
Above(cur, kind) ==
  {v \in {V(a, b, c) : a, b, c \in 0..MaxPart + 1} :
     CASE kind = "major" -> v.major > cur.major
       [] kind = "minor" -> v.major = cur.major /\ v.minor > cur.minor
       [] kind = "patch" -> v.major = cur.major /\ v.minor = cur.minor /\ v.patch > cur.patch}

BumpIsNext ==
  i > Len(versions) =>
    \A kind \in BumpKind :
      LET next == Bump(best, kind)
      IN  /\ \A v \in Parsed : Higher(next, v)
          /\ next \in Above(best, kind)
          /\ \A v \in Above(best, kind) : v = next \/ Higher(v, next)
===============================================================================
