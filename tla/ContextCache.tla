---------------------------- MODULE ContextCache ----------------------------
(***************************************************************************)
(* What a session is shown when it starts: `ubiqo hook session-start' of   *)
(* cmd/ubiqo/client.go fetches the context bundle (GET /v1/context),       *)
(* replaces the file it caches it in, and falls back on that file when the *)
(* fetch fails.  Hooks of sessions that start together share the file.     *)
(*                                                                         *)
(* A text is a pair, the bundle its first half comes from and the bundle   *)
(* its second half comes from; 0 where there is no such half.              *)
(***************************************************************************)
EXTENDS Naturals

CONSTANTS
  Starter,    \* the session-start hooks
  MaxBundle   \* bound: how often the bundle changes

ASSUME CacheBoundAssumption == MaxBundle \in Nat \ {0}

VARIABLES
  bundle,    \* the server: the number of the current bundle
  cache,     \* the cache file
  starter,   \* the hooks and where each stands
  excuse     \* "cut": a body was cut; "together": two hooks were at the file;
             \* "unwritten": the file was opened and not written to its end

contexts == <<bundle, cache, starter, excuse>>

Half == 0..MaxBundle
Whole(b) == <<b, b>>
Empty == <<0, 0>>
NoFile == <<>>

StarterPC == {"idle", "asking", "opening", "writing", "reading", "done"}
StarterState ==
  [pc : StarterPC, text : (Half \X Half) \cup {NoFile}, since : Half,
   label : {"none", "loaded", "offline", "unavailable"}]

CacheInit ==
  /\ bundle = 1 /\ cache = NoFile /\ excuse = {}
  /\ starter = [s \in Starter |-> [pc |-> "idle", text |-> NoFile, since |-> 0, label |-> "none"]]

Stands(s, pc) == starter[s].pc = pc
Becomes(s, pc) == starter' = [starter EXCEPT ![s].pc = pc]
Show(s, label, text) ==
  starter' = [starter EXCEPT ![s] = [@ EXCEPT !.pc = "done", !.label = label, !.text = text]]

\* Another hook is between opening the file and writing it.
WriterBeside(s) == \E t \in Starter \ {s} : Stands(t, "writing")
Beside(s) == excuse' = IF WriterBeside(s) THEN excuse \cup {"together"} ELSE excuse

-----------------------------------------------------------------------------

\* Anything that the bundle is compiled from changes.
Publish ==
  /\ bundle < MaxBundle
  /\ bundle' = bundle + 1
  /\ UNCHANGED <<cache, starter, excuse>>

\* Wrong: the cache is looked at first, to start the session sooner.
AskCacheFirst(s) ==
  /\ Stands(s, "idle")
  /\ IF cache = NoFile
     THEN starter' = [starter EXCEPT ![s].pc = "asking", ![s].since = bundle]
     ELSE starter' = [starter EXCEPT ![s] = [pc |-> "done", text |-> cache, since |-> bundle,
                                             label |-> "loaded"]]
  /\ UNCHANGED <<bundle, cache, excuse>>

\* boundProject and loadClientConfig; without a login the cache is all there is.
Ask(s) ==
  /\ Stands(s, "idle")
  /\ \E pc \in {"asking", "reading"} :
       starter' = [starter EXCEPT ![s].pc = pc, ![s].since = bundle]
  /\ UNCHANGED <<bundle, cache, excuse>>

\* fetchContext.  Any status but 200 and any error of the request is a
\* failure; an error while the body is read is not looked at, and what came
\* is taken for the whole.
Fetch(s) ==
  /\ Stands(s, "asking")
  /\ \/ /\ starter' = [starter EXCEPT ![s].pc = "opening", ![s].text = Whole(bundle)]
        /\ UNCHANGED excuse
     \/ /\ starter' = [starter EXCEPT ![s].pc = "opening", ![s].text = <<bundle, 0>>]
        /\ excuse' = excuse \cup {"cut"}
     \/ Becomes(s, "reading") /\ UNCHANGED excuse
  /\ UNCHANGED <<bundle, cache>>

\* Wrong: the file is opened without O_TRUNC.
OpenCacheAsIs(s) ==
  /\ Stands(s, "opening")
  /\ cache' = IF cache = NoFile THEN Empty ELSE cache
  /\ Becomes(s, "writing")
  /\ Beside(s)
  /\ UNCHANGED bundle

\* os.WriteFile truncates the file first.
OpenCache(s) ==
  /\ Stands(s, "opening")
  /\ cache' = Empty
  /\ Becomes(s, "writing")
  /\ Beside(s)
  /\ UNCHANGED bundle

\* The body goes over what the file has by now: a longer text of another hook
\* keeps its tail.
WriteCache(s) ==
  LET text == starter[s].text
  IN  /\ Stands(s, "writing")
      /\ \/ cache' = text
         \/ cache # Empty /\ cache' = <<text[1], cache[2]>>
      /\ Show(s, "loaded", text)
      /\ UNCHANGED <<bundle, excuse>>

\* What is in the file when the text of s was not, or not all of it, written.
Unwritten(s) ==
  /\ Stands(s, "writing")
  /\ UNCHANGED cache \/ cache' = <<starter[s].text[1], cache[2]>>
  /\ excuse' = excuse \cup {"unwritten"}

\* No error of MkdirAll or WriteFile is looked at: the file is not opened, or is
\* opened, truncated and not written to its end (the disk is full).
CannotCache(s) ==
  /\ \/ Stands(s, "opening") /\ UNCHANGED <<cache, excuse>>
     \/ Unwritten(s)
  /\ Show(s, "loaded", starter[s].text)
  /\ UNCHANGED bundle

\* The hook dies, and nothing is shown.
StarterDies(s) ==
  /\ \/ starter[s].pc \in {"asking", "opening", "reading"} /\ UNCHANGED <<cache, excuse>>
     \/ Unwritten(s)
  /\ Show(s, "none", NoFile)
  /\ UNCHANGED bundle

\* Fail open: the cached text with the word STALE, or no context at all.
ReadCache(s) ==
  /\ Stands(s, "reading")
  /\ Show(s, IF cache = NoFile THEN "unavailable" ELSE "offline", cache)
  /\ Beside(s)
  /\ UNCHANGED <<bundle, cache>>

CacheNext ==
  \/ Publish
  \/ \E s \in Starter :
       \/ Ask(s) \/ Fetch(s) \/ OpenCache(s) \/ WriteCache(s)
       \/ CannotCache(s) \/ ReadCache(s) \/ StarterDies(s)

CacheSpec == CacheInit /\ [][CacheNext]_contexts

-----------------------------------------------------------------------------
(* Properties.                                                              *)

CacheTypeOK ==
  /\ bundle \in 1..MaxBundle
  /\ cache \in (Half \X Half) \cup {NoFile}
  /\ starter \in [Starter -> StarterState]
  /\ excuse \subseteq {"cut", "together", "unwritten"}

\* A session whose status line says "loaded" starts with a bundle the server
\* had since the hook began, all of it unless the answer was cut.
LoadedIsCurrent ==
  \A s \in Starter : starter[s].label = "loaded" =>
    \/ starter[s].text[1] >= starter[s].since /\ starter[s].text = Whole(starter[s].text[1])
    \/ "cut" \in excuse

\* A session that starts offline is shown one whole bundle, however often the
\* file was replaced, unless a cut body was cached, another hook was at the file,
\* or a hook opened it and did not get to write its text to the end.
OfflineIsOneBundle ==
  \A s \in Starter : starter[s].label = "offline" =>
    starter[s].text \in {Whole(b) : b \in 1..MaxBundle} \/ excuse # {}
=============================================================================
