------------------------------- MODULE Semver -------------------------------
(***************************************************************************)
(* Release versions of artifacts (internal/semver/semver.go): vMAJOR.MINOR *)
(* .PATCH, three naturals, no pre-release and no build part.  A version is *)
(* a value; its text form only matters for the order in which git lists    *)
(* tags (ListedBefore).                                                    *)
(***************************************************************************)
EXTENDS Integers

Version == [major : Nat, minor : Nat, patch : Nat]

V(maj, min, pat) == [major |-> maj, minor |-> min, patch |-> pat]

\* The zero value of the Go struct: what a release bumps when no tag exists.
Zero == V(0, 0, 0)

BumpKind == {"major", "minor", "patch"}

\* a is a higher version than b: the first part that differs decides.
Higher(a, b) ==
  \/ a.major > b.major
  \/ a.major = b.major /\ a.minor > b.minor
  \/ a.major = b.major /\ a.minor = b.minor /\ a.patch > b.patch

Compare(a, b) == IF Higher(b, a) THEN -1 ELSE IF Higher(a, b) THEN 1 ELSE 0

\* Variants that are wrong, to see which properties notice: the lower parts
\* of a version kept, and a version gone back.
BumpKeepsLower(cur, kind) ==
  CASE kind = "major" -> [cur EXCEPT !.major = @ + 1]
    [] kind = "minor" -> [cur EXCEPT !.minor = @ + 1]
    [] kind = "patch" -> [cur EXCEPT !.patch = @ + 1]

BumpBack(cur, kind) ==
  IF kind = "patch" THEN [cur EXCEPT !.patch = @ - 1] ELSE BumpKeepsLower(cur, kind)

\* The lower parts restart at zero.
Bump(cur, kind) ==
  CASE kind = "major" -> V(cur.major + 1, 0, 0)
    [] kind = "minor" -> V(cur.major, cur.minor + 1, 0)
    [] kind = "patch" -> V(cur.major, cur.minor, cur.patch + 1)

\* Wrong: the version listed last wins.
BetterIsLast(best, ok, v) == v

\* One round of the loop of Latest: keep the higher of the best so far and v.
Better(best, ok, v) == IF ~ok \/ Compare(v, best) > 0 THEN v ELSE best

\* Wrong: the comparison turned round.
LatestIsLowest(S) ==
  LET lowest == {v \in S : \A w \in S : Compare(w, v) >= 0}
  IN  IF lowest = {} THEN Zero ELSE CHOOSE v \in lowest : TRUE

\* What Latest returns on the versions of the finite set S: the highest, or
\* the zero value (with ok = FALSE) when there is none.
Latest(S) ==
  LET highest == {v \in S : \A w \in S : Compare(w, v) <= 0}
  IN  IF highest = {} THEN Zero ELSE CHOOSE v \in highest : TRUE

-----------------------------------------------------------------------------
(* git lists tags in the byte order of their names, so a part is ordered by *)
(* its decimal digits: 10 comes before 9, and 1 before 10.                  *)

DigitCount(n) == IF n = 0 THEN 1 ELSE CHOOSE k \in 1..10 : 10^(k-1) <= n /\ n < 10^k

DigitsBefore(m, n) ==
  LET p == m * 10^DigitCount(n)
      q == n * 10^DigitCount(m)
  IN  p < q \/ (p = q /\ DigitCount(m) < DigitCount(n))

ListedBefore(a, b) ==
  \/ DigitsBefore(a.major, b.major)
  \/ a.major = b.major /\ DigitsBefore(a.minor, b.minor)
  \/ a.major = b.major /\ a.minor = b.minor /\ DigitsBefore(a.patch, b.patch)
=============================================================================
