----------------------------- MODULE MCSessions -----------------------------
(* The two hooks of a client on small instances.  They share no variable,   *)
(* so a behaviour runs the one or the other.                                *)
EXTENDS Sessions, ContextCache

VARIABLE ending   \* the sessions of this behaviour end, or start

MCInit ==
  /\ SessionsInit /\ CacheInit
  /\ ending \in BOOLEAN /\ (~ending => \A r \in Report : spool[r] = "none")
MCNext ==
  \/ ending /\ SessionsNext /\ UNCHANGED <<contexts, ending>>
  \/ ~ending /\ CacheNext /\ UNCHANGED <<sessions, ending>>
MCSpec == MCInit /\ [][MCNext]_<<sessions, contexts, ending>>

TypeOK == SessionsTypeOK /\ CacheTypeOK
=============================================================================
