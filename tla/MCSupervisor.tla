---------------------------- MODULE MCSupervisor ----------------------------
(* Instances of Supervisor for TLC: gintrack serve on one repository.      *)
EXTENDS Supervisor

(* What happens once the directory was removed under a lock or a child is  *)
(* not followed any further.                                               *)
Whole == ~torn

-----------------------------------------------------------------------------
(* What the code does not keep; README, section 6.                         *)

(* A Stop that was answered left no child behind.                          *)
EveryStopStops ==
    \A s \in Sups : s \in hasty /\ sup[s].kid # 0 /\ phase[sup[s].owner] = "up"
                     => child[sup[s].kid] # "up"

(* No slot is foreign while every lock is held by the process itself.      *)
ForeignIsElsewhere ==
    \A p \in Procs : Foreign(slot[p]) /\ Locked(lockfile) =>
        \E s \in Sups : sup[s].held = lockfile /\ sup[s].owner # p

(* A directory is removed only when nothing runs in it.                    *)
NothingIsTorn == ~torn

(* One up child of an instance directory, also when it was removed.        *)
OneUp == \A j, k \in Live : child[j] = "up" /\ child[k] = "up" => j = k
=============================================================================
