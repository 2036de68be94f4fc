--------------------------------- MODULE MCBoot --------------------------------
(***************************************************************************)
(* The bootstrap core and an application core, with NMIs on up to three    *)
(* nested contexts.                                                        *)
(***************************************************************************)
EXTENDS Boot
===============================================================================
