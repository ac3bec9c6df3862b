---------------------------- MODULE ReleaseLedger ----------------------------
(***************************************************************************)
(* What ubiqo promises about releases (docs/adr/0004: git is the truth,    *)
(* rows are projections of it), without saying how.  A release comes into  *)
(* being as a tag, is then listed in the database, and only then may one   *)
(* caller, and no other, be told that it cut it.  Nothing is taken back.   *)
(* Module Releases implements this; module Restore takes backups of it.    *)
(***************************************************************************)
CONSTANTS
  Caller,   \* who asks for releases, each once
  Nothing   \* a caller was told of no release

VARIABLES
  tagged,   \* the releases git has
  listed,   \* the releases the database lists
  told      \* the release each caller was told of

ledger == <<tagged, listed, told>>

LedgerInit ==
  /\ tagged = {} /\ listed = {}
  /\ told = [c \in Caller |-> Nothing]

\* A version is cut once: git refuses the name a second time.
Cut(e) ==
  /\ e \notin tagged
  /\ tagged' = tagged \cup {e}
  /\ UNCHANGED <<listed, told>>

\* By the request that cut it, or by fsck.
List(e) ==
  /\ e \in tagged \ listed
  /\ listed' = listed \cup {e}
  /\ UNCHANGED <<tagged, told>>

Tell(c, e) ==
  /\ e \in tagged \cap listed
  /\ told[c] = Nothing /\ \A d \in Caller : told[d] # e
  /\ told' = [told EXCEPT ![c] = e]
  /\ UNCHANGED <<tagged, listed>>

\* A release, a pair of an artifact and a version, is whatever the step adds.
LedgerNext ==
  \/ \E e \in tagged' : Cut(e)
  \/ \E e \in listed' : List(e)
  \/ \E c \in Caller : Tell(c, told'[c])

LedgerSpec == LedgerInit /\ [][LedgerNext]_ledger
=============================================================================
