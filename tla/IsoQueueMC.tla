----------------------------- MODULE IsoQueueMC -----------------------------
(* IsoQueue with two requests for one name and workers with two slots each, so
   that RPMs can keep a worker from ever being free. *)
EXTENDS IsoQueue

CONSTANTS i1, i2, dvd

OneName  == [i \in Isos |-> dvd]
TwoSlots == [w \in Workers |-> 2]
=============================================================================
