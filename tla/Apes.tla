--------------------------------- MODULE Apes ---------------------------------
(***************************************************************************)
(* The kernel module hw2/p5 (apes.c): a timer whose callback starts it     *)
(* again, from the loading of the module to its unloading.  The module     *)
(* hw4/p4 handles its timer in the same way, and is shown to do so.        *)
(*                                                                         *)
(* del_timer() does not wait for the callback, which can start the timer   *)
(* again after it: a timer that is pending, or whose callback is running,  *)
(* when the module is gone is what a kernel does not survive.              *)
(***************************************************************************)
VARIABLES module,   \* how far the module has come
          timer,    \* is apes_timer pending?
          callback  \* is apes_timer_callback() running?

vars == << module, timer, callback >>

Init == module = "init" /\ timer = FALSE /\ callback = FALSE

apes_init == /\ module = "init"
             /\ module' = "loaded"
             /\ timer' = TRUE
             /\ UNCHANGED callback

Expire == /\ module # "gone" /\ timer
          /\ timer' = FALSE
          /\ callback' = TRUE
          /\ UNCHANGED module

\* The callback starts the timer again and returns.
Rearm == /\ module # "gone" /\ callback
         /\ timer' = TRUE
         /\ callback' = FALSE
         /\ UNCHANGED module

\* apes_exit() deletes the timer, and has returned.
DelTimer == /\ module = "loaded"
            /\ module' = "exiting"
            /\ timer' = FALSE
            /\ UNCHANGED callback

Exited == /\ module = "exiting"
          /\ module' = "gone"
          /\ UNCHANGED << timer, callback >>

Next == apes_init \/ Expire \/ Rearm \/ DelTimer \/ Exited

Spec == Init /\ [][Next]_vars
==============================================================================
