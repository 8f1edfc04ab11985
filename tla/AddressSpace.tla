---------------------------- MODULE AddressSpace ----------------------------
(***************************************************************************)
(* What paging.rs promises of the one address space: a page has no mapping *)
(* or one, with the rights it was asked for.  A call maps the pages it is  *)
(* given in order and stops at the first that fails, an unmapping removes  *)
(* just its pages, and no call touches any other page.                     *)
(***************************************************************************)
EXTENDS Integers, Sequences

CONSTANTS
    Va,             \* the pages
    NoMapping

VARIABLES
    space,          \* the mapping of each page, or NoMapping
    answer          \* the last call and what it returned

vars == <<space, answer>>

Init == answer = [op |-> "none"]

HasRights(mapping, r) ==
    /\ mapping # NoMapping
    /\ mapping.user = r.user /\ mapping.write = r.write /\ mapping.nx = r.nx

\* The first n requests take effect.  A strict call maps no mapped page; the
\* other calls pass over it.
Map(reqs, strict, ok) ==
    \E n \in 0 .. Len(reqs) :
        LET Done == {reqs[i] : i \in 1 .. n}
        IN  /\ ok <=> n = Len(reqs)
            /\ \A r \in Done :
                  IF space[r.va] = NoMapping
                  THEN HasRights(space'[r.va], r)
                  ELSE ~strict /\ space'[r.va] = space[r.va]
            /\ \A va \in Va \ {r.va : r \in Done} : space'[va] = space[va]

Unmap(vas, ok) ==
    space' = IF ok THEN [va \in Va |-> IF va \in vas THEN NoMapping
                                       ELSE space[va]]
             ELSE space

Next ==
    \/ answer'.op = "map" /\ Map(answer'.reqs, answer'.strict, answer'.ok)
    \/ answer'.op = "unmap" /\ Unmap(answer'.vas, answer'.ok)

Spec == Init /\ [][Next]_vars

=============================================================================
