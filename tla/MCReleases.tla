----------------------------- MODULE MCReleases -----------------------------
(* Releases, and the scan of a list of tags that a request does in one of   *)
(* its steps, on small instances.  They share no variable, so a behaviour   *)
(* runs the one or the other.  Requests are interchangeable; artifacts are  *)
(* not, since Init names one of them.                                       *)
EXTENDS Releases, SemverScan, TLC

VARIABLE scanning   \* this behaviour scans one list of tags

MCInit ==
  /\ Init /\ ScanInit
  /\ scanning \in BOOLEAN /\ (~scanning => versions = <<>>)
MCNext ==
  \/ ~scanning /\ Next /\ UNCHANGED <<scanVars, scanning>>
  \/ scanning /\ Round /\ UNCHANGED <<vars, scanning>>
MCSpec == MCInit /\ [][MCNext]_<<vars, scanVars, scanning>>

Symmetry == Permutations(Request)
=============================================================================
