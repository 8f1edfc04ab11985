---------------------------- MODULE MCKernelEdf ----------------------------
(***************************************************************************)
(* Kernel under EDF for model checking: two peers that share an endpoint,  *)
(* the second restartable, without grants and with one message word.       *)
(***************************************************************************)
EXTENDS KernelEdf, TLC

NoCaps == [objects |-> EmptyObjectTable,
           tables  |-> [d \in Domain |-> EmptyCapTable]]

Shared == create_endpoint(NoCaps)

\* The endpoint's root capability, delegated to every other domain.
EdfBoot ==
    LET Grant(cs, d) == delegate_from_root(cs, d, Shared.cptr, {"INVOKE"}).cs
    IN  IF DomainCount = 3
        THEN Grant(Grant(Shared.cs, 1), 2)
        ELSE Grant(Grant(Grant(Shared.cs, 1), 2), 3)

OwnDomain == [t \in Task |-> t]

NoMaps == [d \in Domain |-> <<>>]

NoXfer == {CPTR_NONE}

\* Periods 2, 3, 2, ... and equal ones.
Unequal == [t \in Task |-> 2 + (t % 2)]

Equal == [t \in Task |-> 2]

=============================================================================
