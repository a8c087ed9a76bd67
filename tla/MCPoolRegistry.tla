---------------------------- MODULE MCPoolRegistry ----------------------------
(* Bounded instances of the pool registry.                                      *)
EXTENDS PoolRegistry, TLC

CONSTANTS t1, t2, t3, s1, s2

(* Three threads that get connections of two data sources; one of them closes.  *)
PlainProgram ==
  t1 :> ({"get", "close"} \X {s1, s2}) @@ t2 :> ({"get"} \X {s1, s2}) @@ t3 :> ({"get"} \X {s1, s2})

(* Two threads that make every call.                                            *)
WildProgram ==
  t1 :> (OpNames \X {s1}) @@ t2 :> (OpNames \X {s1}) @@ t3 :> {}

AllPrograms == {PlainProgram, WildProgram}

(* Users and pools are interchangeable (safety runs only).                      *)
RegistrySymmetry == Permutations(Users) \cup Permutations(PoolIds)
=============================================================================
