--------------------------- MODULE MCIndexRebuild ---------------------------
(***************************************************************************)
(* Instances of IndexRebuild.  What no later step and no property looks at *)
(* is left out of the states TLC compares: of a row at rest all but its    *)
(* status, of the insertion times all but the order of the open rows, the  *)
(* enumeration once it was counted, and what abandoned targets were for.  *)
(***************************************************************************)
EXTENDS IndexRebuild, TLC

Open == {j \in Jobs : Unfinished(jobs, j)}

Place(j) == Cardinality({k \in Open : jobs[k].created < jobs[j].created})

JobsView ==
  [j \in Jobs |-> IF j \in Open THEN [jobs[j] EXCEPT !.created = Place(j)]
                                ELSE [NoRow EXCEPT !.status = jobs[j].status]]

LeavesView == IF pc \in RebuildPcs \ {"park", "finish"} THEN <<leaves, left>>
                                                        ELSE <<{}, {}>>

BasisView ==
  [p \in Physical |-> IF p \in Bound \cup {cur, Logical} THEN basis[p] ELSE {}]

CheckView(c) ==
  [checks[c] EXCEPT
     !.created = Cardinality({d \in Checks : checks[d].created < @})]

View == <<JobsView, catalog, gated, [c \in Checks |-> CheckView(c)], store, pc,
          cur, LeavesView, verdict, candidate, routes, BasisView, faults>>

TargetSymmetry == Permutations(Targets)
CheckSymmetry == Permutations(Checks)
=============================================================================
