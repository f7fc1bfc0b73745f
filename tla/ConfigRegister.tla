--------------------------- MODULE ConfigRegister ---------------------------
(***************************************************************************)
(* What the configuration store promises, without slots, pages or          *)
(* sequence numbers: one image is running, one image is durable (it is     *)
(* what the next start loads), and both always are complete valid images.  *)
(***************************************************************************)
CONSTANT Images

VARIABLES durable, running

regVars == <<durable, running>>

Init == /\ durable \in Images
        /\ running = durable

(* An update that finished and was reported. *)
Commit(img) == /\ durable = running
               /\ durable' = img
               /\ running' = img

(* The last flash write landed but was reported as failed: the client is
   told no, the running image stays, the next start will load the new one. *)
LandUnreported(img) == /\ durable = running
                       /\ durable' = img
                       /\ UNCHANGED running

(* Preparing the next update takes an unreported image back. *)
Retract == /\ durable' = running
           /\ UNCHANGED running

(* A restart runs whatever is durable. *)
Restart == /\ running' = durable
           /\ UNCHANGED durable

Next == \/ \E img \in Images: Commit(img) \/ LandUnreported(img)
        \/ Retract
        \/ Restart

Spec == Init /\ [][Next]_regVars
=============================================================================
