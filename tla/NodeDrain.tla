------------------------------ MODULE NodeDrain ------------------------------
(***************************************************************************)
(* What ups-watcher promises of a node's drain, whatever the interleaving: *)
(* the node is drained, or may still become so, only while the drained     *)
(* flag stands on its disk, so that a later boot or the running daemon     *)
(* knows it has a node to release.  UpsWatcher implements this module, and *)
(* each peer of DrainCluster does.                                         *)
(***************************************************************************)

VARIABLES
    avail,      \* the node's availability in the swarm
    inflight,   \* updates whose outcome nobody knows, which may still land
    marker      \* the flag file <flag dir>/drained exists

drainVars == <<avail, inflight, marker>>

Availability == {"active", "drain"}

DrainTypeOK ==
    /\ avail \in Availability
    /\ inflight \subseteq Availability
    /\ marker \in BOOLEAN

DrainInit ==
    /\ avail = "active"
    /\ inflight = {}
    /\ marker = FALSE

Marked(target) == target = "drain" => marker

(* The flag is written before any drain is submitted. *)
SetFlag ==
    /\ marker' = TRUE
    /\ UNCHANGED <<avail, inflight>>

(* An update carries the version of the node it read, so the one that lands *)
(* makes every other update in flight stale.                                *)
Update(target) ==
    /\ Marked(target)
    /\ avail' = target
    /\ inflight' = {}
    /\ UNCHANGED marker

(* An update is submitted and its outcome is lost. *)
Submit(target) ==
    /\ Marked(target)
    /\ inflight' = inflight \cup {target}
    /\ UNCHANGED <<avail, marker>>

Land(target) ==
    /\ target \in inflight
    /\ avail' = target
    /\ inflight' = {}
    /\ UNCHANGED marker

Drop(target) ==
    /\ inflight' = inflight \ {target}
    /\ UNCHANGED <<avail, marker>>

(* The flag goes only when no drain stands and none can land any more. *)
ClearFlag ==
    /\ avail = "active"
    /\ "drain" \notin inflight
    /\ marker' = FALSE
    /\ UNCHANGED <<avail, inflight>>

DrainNext ==
    \/ SetFlag
    \/ ClearFlag
    \/ \E target \in Availability :
          Update(target) \/ Submit(target) \/ Land(target) \/ Drop(target)

DrainSpec == DrainInit /\ [][DrainNext]_drainVars

(***************************************************************************)
(* A node that is drained, or that a lost drain command may still drain,   *)
(* has its flag on disk: drainAttempt and prepareUrgentDrain write it      *)
(* before docker runs, undrainNow removes it after docker answered.        *)
(***************************************************************************)
DrainMarked == (avail = "drain" \/ "drain" \in inflight) => marker
=============================================================================
