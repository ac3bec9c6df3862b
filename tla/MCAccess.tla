------------------------------ MODULE MCAccess ------------------------------
(* Access on small instances.  Requests are interchangeable.  While setup   *)
(* runs, and after one that failed, there is one at a time; later two at a  *)
(* time; a third one comes alone, after two, and all are of memories, one   *)
(* of them at most a recall, or all of events.                              *)
EXTENDS Access, TLC

Made == {r \in Request : ~At(r, "idle")}
UnderWay == {r \in Made : ~At(r, "done")}
Recalling == {r \in Made : req[r].op \in Recalls}
OfMemories == {r \in Made : req[r].op \in {"remember user", "remember project"}} \cup Recalling
OfEvents == {r \in Made : req[r].op \in {"report", "activity"}}

FewRequests ==
  /\ setup # "printed" => Cardinality(Made) <= 1
  /\ Cardinality(UnderWay) <= 2
  /\ Cardinality(Made) > 2 => /\ Made \in {OfMemories, OfEvents}
                              /\ Cardinality(UnderWay) <= 1 /\ Cardinality(Recalling) <= 1

Symmetry == Permutations(Request)
=============================================================================
