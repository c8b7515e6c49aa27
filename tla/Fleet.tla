------------------------------- MODULE Fleet --------------------------------
(***************************************************************************)
(* How the fleet driver (sim/fleet.py) shares its devices out: worker      *)
(* processes own slices of the range of indices, and a device's id is made *)
(* from its index.                                                         *)
(***************************************************************************)
EXTENDS Integers

(* The id of a device, as a number. *)
ImeiFor(index, base) == base + index + 1

(* The number of workers: as asked for, or one for 25 devices but no more  *)
(* than cores; never more than devices, and at least one.                  *)
Clamped(k, devices) ==
    LET fewer == IF k < devices THEN k ELSE devices
    IN  IF fewer < 1 THEN 1 ELSE fewer

Workers(asked, cores, devices) ==
    LET some == IF devices \div 25 < 1 THEN 1 ELSE devices \div 25
        auto == IF cores < some THEN cores ELSE some
    IN  Clamped(IF asked = 0 THEN auto ELSE asked, devices)

(* islice(range(devices), w, devices, workers) *)
Bucket(w, workers, devices) ==
    {i \in 0 .. devices - 1 : \E k \in Nat : i = w + k * workers}
=============================================================================
