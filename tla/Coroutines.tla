----------------------------- MODULE Coroutines -----------------------------
(***************************************************************************)
(* What the runtime promises of its fibres, without stacks, parents or     *)
(* states: there is one thread of control, a fibre is created, may be      *)
(* entered once from the start, is then resumed where it left off until it *)
(* is done, and control is never given to a fibre that is done or that     *)
(* does not exist.                                                         *)
(***************************************************************************)
CONSTANTS Fibres, Main

VARIABLES phase,    \* per fibre: "absent", "fresh", "live" or "done"
          control,  \* the fibre whose code executes
          ended     \* the process has ended

coVars == <<phase, control, ended>>

CoInit ==
    /\ phase = [f \in Fibres |-> IF f = Main THEN "live" ELSE "absent"]
    /\ control = Main
    /\ ended = FALSE

Create(f) ==
    /\ ~ended
    /\ phase[f] = "absent"
    /\ phase' = [phase EXCEPT ![f] = "fresh"]
    /\ UNCHANGED <<control, ended>>

(* Control moves to a fibre that starts, or continues where it was. *)
Switch(g) ==
    /\ ~ended
    /\ g # control
    /\ phase[g] \in {"fresh", "live"}
    /\ phase' = [phase EXCEPT ![g] = "live"]
    /\ control' = g
    /\ UNCHANGED ended

(* A fibre is over - the one in control, or one that is killed before it    *)
(* got control - and a third one continues where it was.                    *)
Finish(f, g) ==
    /\ ~ended
    /\ f = control \/ phase[f] \in {"fresh", "live"}
    /\ g \notin {f, control}
    /\ phase[g] = "live"
    /\ phase' = [phase EXCEPT ![f] = "done"]
    /\ control' = g
    /\ UNCHANGED ended

(* The process ends, perhaps because the last fibre is over. *)
End ==
    /\ ~ended
    /\ ended' = TRUE
    /\ UNCHANGED control
    /\ \/ UNCHANGED phase
       \/ \E f \in Fibres :
            /\ phase[f] \in {"fresh", "live"}
            /\ phase' = [phase EXCEPT ![f] = "done"]

CoNext ==
    \/ \E f \in Fibres : Create(f)
    \/ \E g \in Fibres : Switch(g)
    \/ \E f, g \in Fibres : Finish(f, g)
    \/ End

CoSpec == CoInit /\ [][CoNext]_coVars
=============================================================================
