------------------------------ MODULE MCGpuDevices -----------------------------
(***************************************************************************)
(* Small nodes for GpuDevices.  With 4 units of memory a third is not a    *)
(* whole number, and with 2 of compute a third is none.                    *)
(***************************************************************************)
EXTENDS GpuDevices

SmallTotal == [memory |-> 4, compute |-> 2]

Flag(gpus, parts) == [gpus |-> gpus, parts |-> parts]

SmallFlags == {Flag(1, 0), Flag(1, 2), Flag(2, 3)}
================================================================================
