----------------------------- MODULE MCSemaphore -----------------------------
(* Instances of the semaphores.                                            *)
EXTENDS Semaphore
\* A semaphore is not followed further once two tasks got it at once, or one
\* freed it in use: nothing is promised of it then.
NothingTorn == torn = {}
=============================================================================
