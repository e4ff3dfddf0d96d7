------------------------------- MODULE MCHistory --------------------------------
(***************************************************************************)
(* The instance of run history_kept: a day of four ticks, split in        *)
(* hours of two; raw samples live for six ticks.                           *)
(***************************************************************************)
EXTENDS History

MCWidth == [r \in Resolutions |-> IF r = "1d" THEN 4 ELSE 2]
================================================================================
