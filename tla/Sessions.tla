------------------------------ MODULE Sessions ------------------------------
(***************************************************************************)
(* Reporting the end of a session: `ubiqo hook session-end' of             *)
(* cmd/ubiqo/client.go, the directory it spools reports in while the       *)
(* server is away, and POST /v1/session-end (internal/httpapi, core        *)
(* RecordSessionEnd, store AppendEvent).                                   *)
(*                                                                         *)
(* Sessions that end together run their hooks together on one spool, with  *)
(* no lock.  A post may be refused (a revoked token, no such project, a    *)
(* failing database), be lost on its way, or be stored although the        *)
(* client hears of an error.  Posts are what takes time: each takes none   *)
(* or all of its client's timeout, and the host ends a hook that is over   *)
(* its limit (hooks.json).  A hook may also die at any other moment.  A    *)
(* summary of blanks, which the server accepts and does not store, is left *)
(* out.                                                                    *)
(***************************************************************************)
EXTENDS Naturals, FiniteSets

CONSTANTS
  Old,        \* reports that hooks of an earlier time may have spooled; the
              \* numbers stand for the random names of the files, in order
  Hook,       \* the hooks that run now, each named like its own report
  DrainTime,  \* seconds a post of a spooled report may take
  PostTime,   \* seconds the post of the new report may take
  HookLimit   \* seconds the host gives a hook

ASSUME ReportAssumption ==
  /\ Old \cup Hook \subseteq Nat /\ IsFiniteSet(Old \cup Hook)
  /\ Old \cap Hook = {}
ASSUME TimeAssumption == DrainTime \in Nat /\ PostTime \in Nat /\ HookLimit \in Nat

Report == Old \cup Hook

VARIABLES
  spool,     \* the spool: per report, its file
  stored,    \* database: how many session.summary events each report has
  hook,      \* the hooks and where each stands
  lost,      \* reports given up: a file half written, or read half written
  doubtful   \* reports stored with an error for an answer, read by a hook while
             \* another one was at them, or accepted and not removed

sessions == <<spool, stored, hook, lost, doubtful>>

File == {"none", "torn", "whole"}
HookPC == {"idle", "drain", "sending", "removing", "post", "spooling", "writing", "done", "killed", "died"}

\* found, todo: the files listed, and those still to visit; cur: the file at
\* hand; whole: it was posted, not just undecodable; left: those that could not
\* be read, posted or removed.
HookState == [pc : HookPC, found : SUBSET Report, todo : SUBSET Report, cur : Report,
              whole : BOOLEAN, left : SUBSET Report, spent : Nat]

IdleHook(h) == [pc |-> "idle", found |-> {}, todo |-> {}, cur |-> h, whole |-> FALSE,
                left |-> {}, spent |-> 0]

\* A hook of an earlier time may have died while it wrote its file.
SessionsInit ==
  /\ \E files \in [Old -> File] :
       /\ spool = [r \in Report |-> IF r \in Old THEN files[r] ELSE "none"]
       /\ lost = {r \in Old : files[r] = "torn"}
  /\ stored = [r \in Report |-> 0]
  /\ hook = [h \in Hook |-> IdleHook(h)]
  /\ doubtful = {}

At(h, pc) == hook[h].pc = pc
Go(h, pc) == hook' = [hook EXCEPT ![h].pc = pc]

\* A hook that is over: of its locals only what the properties ask about.
End(h, pc) ==
  hook' = [hook EXCEPT ![h] = [@ EXCEPT !.pc = pc, !.todo = {}, !.cur = h, !.whole = FALSE,
                           !.spent = 0]]

-----------------------------------------------------------------------------
(* One post: client.go postSessionEnd and the server's handler.             *)

\* The ways a post of r by h can go.  No branch of the code tells a refusal
\* from a lost request or a timeout.
Accepted(r) == stored' = [stored EXCEPT ![r] = @ + 1] /\ UNCHANGED doubtful
StoredUnheard(r) == stored' = [stored EXCEPT ![r] = @ + 1] /\ doubtful' = doubtful \cup {r}
NotStored == UNCHANGED <<stored, doubtful>>

\* The post is over in time, after `took' seconds ...
InTime(h, took) == hook[h].spent + took <= HookLimit
\* ... or the host ends the hook before, whatever the server did.
Overdue(h, r, limit) ==
  /\ ~InTime(h, limit)
  /\ StoredUnheard(r) \/ NotStored
  /\ End(h, "killed")

-----------------------------------------------------------------------------
(* drainSpool.                                                             *)

\* os.ReadDir; with an error, or without a directory, there is no drain.
List(h) ==
  /\ At(h, "idle")
  /\ \E files \in {{r \in Report : spool[r] # "none"}, {}} :
       hook' = [hook EXCEPT ![h] = [@ EXCEPT !.pc = "drain", !.found = files, !.todo = files]]
  /\ UNCHANGED <<spool, stored, lost, doubtful>>

\* os.ReadFile and Unmarshal of the next file, in the order of their names.  A
\* file that is gone or cannot be read is passed over, one that cannot be
\* decoded is removed.
Read(h, r) ==
  /\ At(h, "drain") /\ r \in hook[h].todo /\ \A q \in hook[h].todo : r <= q
  /\ \/ /\ spool[r] = "none"
        /\ hook' = [hook EXCEPT ![h].todo = @ \ {r}]
        /\ UNCHANGED doubtful
     \/ /\ spool[r] # "none"
        /\ hook' = [hook EXCEPT ![h].todo = @ \ {r}, ![h].left = @ \cup {r}]
        /\ UNCHANGED doubtful
     \/ /\ spool[r] # "none"
        /\ hook' = [hook EXCEPT ![h].todo = @ \ {r}, ![h].cur = r, ![h].whole = (spool[r] = "whole"),
                                ![h].pc = IF spool[r] = "whole" THEN "sending" ELSE "removing"]
        /\ doubtful' = IF \E g \in Hook \ {h} : hook[g].cur = r /\ hook[g].pc \in {"sending", "removing"}
                       THEN doubtful \cup {r} ELSE doubtful
  /\ UNCHANGED <<spool, stored, lost>>

\* Wrong: a failed post ends the drain.
ResendOrStop(h) ==
  LET r == hook[h].cur
  IN  /\ At(h, "sending")
      /\ \E took \in {0, DrainTime} :
           /\ InTime(h, took)
           /\ \/ Accepted(r) /\ hook' = [hook EXCEPT ![h].pc = "removing", ![h].spent = @ + took]
              \/ /\ NotStored
                 /\ hook' = [hook EXCEPT ![h].pc = "drain", ![h].todo = {}, ![h].left = @ \cup {r},
                                           ![h].spent = @ + took]
      /\ UNCHANGED <<spool, lost>>

\* Wrong: the spooled reports get the timeout of the new one.
ResendSlowly(h) ==
  LET r == hook[h].cur
  IN  /\ At(h, "sending")
      /\ \/ \E took \in {0, PostTime} :
              /\ InTime(h, took)
              /\ \/ Accepted(r) /\ hook' = [hook EXCEPT ![h].pc = "removing", ![h].spent = @ + took]
                 \/ /\ NotStored
                    /\ hook' = [hook EXCEPT ![h].pc = "drain", ![h].left = @ \cup {r},
                                           ![h].spent = @ + took]
         \/ Overdue(h, r, PostTime)
      /\ UNCHANGED <<spool, lost>>

\* Wrong: a post that failed is made again at once, for as long as it fails.
ResendAgain(h) ==
  LET r == hook[h].cur
  IN  /\ At(h, "sending")
      /\ \/ Accepted(r) /\ Go(h, "removing")
         \/ (StoredUnheard(r) \/ NotStored) /\ UNCHANGED hook
      /\ UNCHANGED <<spool, lost>>

\* Wrong: the file stays although its report was accepted.
ResendAndKeep(h) ==
  LET r == hook[h].cur
  IN  /\ At(h, "sending")
      /\ Accepted(r) \/ NotStored
      /\ Go(h, "drain")
      /\ UNCHANGED <<spool, lost>>

\* The post of a spooled report: only an accepted one is removed.
Resend(h) ==
  LET r == hook[h].cur
  IN  /\ At(h, "sending")
      /\ \/ \E took \in {0, DrainTime} :
              /\ InTime(h, took)
              /\ \/ Accepted(r) /\ hook' = [hook EXCEPT ![h].pc = "removing", ![h].spent = @ + took]
                 \/ /\ StoredUnheard(r) \/ NotStored
                    /\ hook' = [hook EXCEPT ![h].pc = "drain", ![h].left = @ \cup {r},
                                           ![h].spent = @ + took]
         \/ Overdue(h, r, DrainTime)
      /\ UNCHANGED <<spool, lost>>

\* os.Remove.  The file that could not be decoded may be whole by now.  No error
\* is looked at: a file that stays is there for the next hook, accepted or not.
Remove(h) ==
  LET r == hook[h].cur
  IN  /\ At(h, "removing")
      /\ \/ /\ spool' = [spool EXCEPT ![r] = "none"]
            /\ lost' = IF hook[h].whole THEN lost ELSE lost \cup {r}
            /\ hook' = [hook EXCEPT ![h].pc = "drain", ![h].cur = h]
            /\ UNCHANGED doubtful
         \/ /\ hook' = [hook EXCEPT ![h].pc = "drain", ![h].cur = h, ![h].left = @ \cup {r}]
            /\ doubtful' = IF hook[h].whole THEN doubtful \cup {r} ELSE doubtful
            /\ UNCHANGED <<spool, lost>>
      /\ UNCHANGED stored

Drained(h) ==
  /\ At(h, "drain") /\ hook[h].todo = {}
  /\ Go(h, "post")
  /\ UNCHANGED <<spool, stored, lost, doubtful>>

-----------------------------------------------------------------------------
(* The new report: cmdHook and spool.                                      *)

\* Wrong: an error of the post is not looked at.
PostBestEffort(h) ==
  /\ At(h, "post")
  /\ Accepted(h) \/ NotStored
  /\ End(h, "done")
  /\ UNCHANGED <<spool, lost>>

Post(h) ==
  /\ At(h, "post")
  /\ \/ \E took \in {0, PostTime} :
          /\ InTime(h, took)
          /\ \/ Accepted(h) /\ End(h, "done")
             \/ /\ StoredUnheard(h) \/ NotStored
                /\ hook' = [hook EXCEPT ![h].pc = "spooling", ![h].spent = @ + took]
     \/ Overdue(h, h, PostTime)
  /\ UNCHANGED <<spool, lost>>

\* os.WriteFile opens the file, and is then seen by others ...
Create(h) ==
  /\ At(h, "spooling")
  /\ spool' = [spool EXCEPT ![h] = "torn"]
  /\ Go(h, "writing")
  /\ UNCHANGED <<stored, lost, doubtful>>

\* ... and writes it, wherever the file is by then.
Write(h) ==
  /\ At(h, "writing")
  /\ spool' = [spool EXCEPT ![h] = IF @ = "torn" THEN "whole" ELSE @]
  /\ End(h, "done")
  /\ UNCHANGED <<stored, lost, doubtful>>

\* No error of spool is looked at: the disk is full, before or after.
CannotSpool(h) ==
  /\ hook[h].pc \in {"spooling", "writing"}
  /\ lost' = lost \cup {h}
  /\ End(h, "done")
  /\ UNCHANGED <<spool, stored, doubtful>>

\* The hook dies between two steps or in one: a post under way may still be
\* stored, a file that is open stays half written.
Die(h) ==
  /\ hook[h].pc \notin {"idle", "done", "killed", "died"}
  /\ \/ At(h, "sending") /\ StoredUnheard(hook[h].cur)
     \/ At(h, "post") /\ StoredUnheard(h)
     \/ At(h, "removing") /\ hook[h].whole
          /\ doubtful' = doubtful \cup {hook[h].cur} /\ UNCHANGED stored
     \/ ~(At(h, "removing") /\ hook[h].whole) /\ NotStored
  /\ End(h, "died")
  /\ UNCHANGED <<spool, lost>>

SessionsNext ==
  \E h \in Hook :
    \/ List(h) \/ Resend(h) \/ Remove(h) \/ Drained(h)
    \/ Post(h) \/ Create(h) \/ Write(h) \/ CannotSpool(h) \/ Die(h)
    \/ \E r \in Report : Read(h, r)

SessionsSpec == SessionsInit /\ [][SessionsNext]_sessions

-----------------------------------------------------------------------------
(* Properties.                                                              *)

\* Every variable keeps its type; no hook sends a report twice.
SessionsTypeOK ==
  /\ spool \in [Report -> File]
  /\ stored \in [Report -> 0..Cardinality(Hook)]
  /\ hook \in [Hook -> HookState]
  /\ \A h \in Hook : hook[h].todo \cup hook[h].left \subseteq hook[h].found
  /\ lost \subseteq Report /\ doubtful \subseteq Report

\* "Report a session summary event; spool on failure and retry": the report of
\* a hook that ended by itself is in the database or whole in the spool, and
\* stays there until it is stored, but for the two ways in which spooling in
\* place loses it: the file could not be written, or was read half written.
NoReportVanishes ==
  \A r \in Report :
    (r \in Old => \E h \in Hook : r \in hook[h].found) /\ (r \in Hook => At(r, "done"))
      => stored[r] > 0 \/ spool[r] = "whole" \/ r \in lost

\* The host ends a hook only when it found so many files that draining them
\* leaves no time for its own report; with the values of the code, four.
KilledOnlyWhenFull ==
  \A h \in Hook : At(h, "killed") =>
    Cardinality(hook[h].found) * DrainTime + PostTime > HookLimit

\* A report is stored twice only when the client was told of an error for a
\* post that was stored, when two hooks were at its file together, or when the
\* file of an accepted report stayed, because it could not be removed or the
\* hook died before it did.
DuplicateHasCause == \A r \in Report : stored[r] > 1 => r \in doubtful

\* A hook that ended by itself came to every file it found: each one is gone, or
\* could not be read, posted or removed.  A file that another hook took or tore,
\* that cannot be opened, or that the server keeps refusing, does not keep the
\* hook from those behind it.
EveryFileTried ==
  \A h \in Hook : At(h, "done") =>
    \A r \in hook[h].found : spool[r] = "none" \/ r \in hook[h].left
=============================================================================
