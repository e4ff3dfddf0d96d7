---------------------------- MODULE MCSettingsControl ---------------------------
(***************************************************************************)
(* Instance of SettingsControl: register 280 holds grid_peak_shaving (g)   *)
(* and gen_peak_shaving (n), register 326 force_generator_on (f) and the   *)
(* read-only meter_phases (m).  The two registers are not adjacent and are *)
(* read in different blocks.                                               *)
(***************************************************************************)
EXTENDS SettingsControl

CONSTANTS api, auto, bad, wide, unasked, unread, noetag

MCWriters     == {api, auto}
MCMaxRequests == [w \in MCWriters |-> 1]
SerialRequests == [w \in {api} |-> 2]
MCAutoWriters == {auto}
MCLanes       == {"g", "n", "f", "m"}
MCAddrOf      == [l \in MCLanes |-> IF l \in {"g", "n"} THEN 280 ELSE 326]
MCWritable    == {"g", "n", "f"}
MCFactory     == [l \in MCLanes |-> IF l = "m" THEN 1 ELSE 0]

Body(f) == [l \in MCLanes |-> IF l \in DOMAIN f THEN f[l] ELSE unasked]

\* One slot over both registers, one field of a shared register, and the refusals.
MCRequests == {Body([g |-> 1, f |-> 1]), Body([n |-> 1]), Body([n |-> 0]),
               Body([g |-> wide]), Body([m |-> 0]), Body([f |-> bad])}
================================================================================
