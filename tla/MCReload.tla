------------------------------ MODULE MCReload ------------------------------
(***************************************************************************)
(* The changes cover a new address for each plane and, for the HTTP        *)
(* planes, a change that keeps it; UDP is moved, disabled and enabled;     *)
(* traffic asks for the address management had; overrides are set and      *)
(* removed; the DELETE names an override that no save has set.             *)
(***************************************************************************)
EXTENDS Reload

UDP(enabled, listen, mode) == [enabled |-> enabled, listen |-> listen, mode |-> mode]
MCLower == [management |-> "m1", auth |-> "a1", traffic |-> "t1", cors |-> FALSE,
            udp |-> UDP(TRUE, "u1", "capture"), capacity |-> 1, retention |-> 1]
MCChanges ==
    { [put |-> TRUE, removals |-> {},
       values |-> [management |-> "m2", cors |-> TRUE, udp |-> UDP(TRUE, "u2", "proxy"), capacity |-> 3]],
      [put |-> TRUE, removals |-> {"capacity"},
       values |-> [auth |-> "a2", traffic |-> "m1", udp |-> UDP(FALSE, "u2", "proxy")]],
      [put |-> FALSE, removals |-> {"retention"}, values |-> [field \in {} |-> None]] }
=============================================================================
