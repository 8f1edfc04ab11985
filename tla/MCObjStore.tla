----------------------------- MODULE MCObjStore -----------------------------
(* Small stores: two objects of one sector, or the empty object and one of  *)
(* two sectors.                                                             *)
EXTENDS ObjStore

CONSTANTS o1, o2

Objects == {o1, o2}

Alike == [o \in Objects |-> 1]

Unlike == [o \in Objects |-> IF o = o1 THEN 0 ELSE 2]

=============================================================================
