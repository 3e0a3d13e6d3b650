----------------------------- MODULE PerConfig -----------------------------
(***************************************************************************)
(* The size classes of a Config that is given as a record, for modules in  *)
(* which the Config varies: SC(c)!bin_class(k), and so on.                 *)
(***************************************************************************)
EXTENDS Words

SC(c) == INSTANCE SizeClasses
           WITH MIN_ALIGN <- c.MIN_ALIGN, LNR_FLOOR <- c.LNR_FLOOR,
                EXP_FLOOR <- c.EXP_FLOOR, EXP_CEIL <- c.EXP_CEIL,
                SPLIT_MIN <- c.SPLIT_MIN, CARVE_MAX <- c.CARVE_MAX
=============================================================================
