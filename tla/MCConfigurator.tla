--------------------------- MODULE MCConfigurator ---------------------------
(***************************************************************************)
(* Small instances of Configurator.                                        *)
(***************************************************************************)
EXTENDS Configurator

CONSTANTS
    s1,        \* a slot of the GPU with MIG
    p1,        \* a GPU without MIG
    c1, c2     \* calls
=============================================================================
