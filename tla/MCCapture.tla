----------------------------- MODULE MCCapture -----------------------------
(* Three microphones of which the first and the last share their hardware. *)
EXTENDS Microphone

MCGroup == [d \in 0 .. 2 |-> IF d = 1 THEN "bluetooth" ELSE "usb"]
=============================================================================
