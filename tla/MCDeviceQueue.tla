--------------------------- MODULE MCDeviceQueue ----------------------------
(***************************************************************************)
(* Devices for DeviceQueue: with and without a write cache, and one that   *)
(* init turns down.                                                        *)
(***************************************************************************)
EXTENDS DeviceQueue

Working == [found |-> TRUE, mapped |-> TRUE, windows |-> {"common", "notify"},
            resets |-> TRUE, version1 |-> TRUE, flush |-> TRUE,
            features_ok |-> TRUE, queue_max |-> 256, frames |-> 4]

MCOffers == {Working, [Working EXCEPT !.flush = FALSE, !.queue_max = 64],
             [Working EXCEPT !.frames = 3]}

=============================================================================
