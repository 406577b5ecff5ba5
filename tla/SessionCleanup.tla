---------------------------- MODULE SessionCleanup ----------------------------
(***************************************************************************)
(* What the cleanup of agent sessions promises to whoever leaves a session   *)
(* to it: the session is looked for until it is deleted or not found, or it  *)
(* becomes a dead letter, which may be taken up again.                      *)
(***************************************************************************)
CONSTANT Session

VARIABLES
  session,  \* in the Agent Runtime: "none" (not created), "alive" or "gone"
  cleanup,  \* "none", "pending", "done" or "dead"
  missed    \* the sessions a delete call did not find

cleanupVars == <<session, cleanup, missed>>

CleanupTypeOK ==
  /\ session \in [Session -> {"none", "alive", "gone"}]
  /\ cleanup \in [Session -> {"none", "pending", "done", "dead"}]
  /\ missed \subseteq Session

CleanupInit ==
  /\ session \in [Session -> {"none", "alive", "gone"}]
  /\ cleanup = [s \in Session |-> "none"]
  /\ missed = {}

Becomes(s, status) == cleanup' = [cleanup EXCEPT ![s] = status]

\* The Agent Runtime on its own: creates the session, deletes it after the answer.
RuntimeCreates(s) ==
  /\ session[s] = "none" /\ session' = [session EXCEPT ![s] = "alive"]
  /\ UNCHANGED <<cleanup, missed>>

RuntimeDeletes(s) ==
  /\ session[s] = "alive" /\ session' = [session EXCEPT ![s] = "gone"]
  /\ UNCHANGED <<cleanup, missed>>

Enqueue(s) ==
  /\ cleanup[s] = "none" /\ Becomes(s, "pending")
  /\ UNCHANGED <<session, missed>>

Remove(s) ==
  /\ cleanup[s] # "none"
  /\ \/ /\ session[s] = "alive" /\ session' = [session EXCEPT ![s] = "gone"]
        /\ UNCHANGED missed
     \/ /\ session[s] = "none" /\ missed' = missed \cup {s}
        /\ UNCHANGED session
  /\ UNCHANGED cleanup

\* Only for a session that was deleted or not found.
Finish(s) ==
  /\ cleanup[s] = "pending"
  /\ session[s] = "gone" \/ s \in missed
  /\ Becomes(s, "done")
  /\ UNCHANGED <<session, missed>>

GiveUp(s) ==
  /\ cleanup[s] = "pending" /\ Becomes(s, "dead")
  /\ UNCHANGED <<session, missed>>

Requeue(s) ==
  /\ cleanup[s] = "dead" /\ Becomes(s, "pending")
  /\ UNCHANGED <<session, missed>>

Settle(s) == Finish(s) \/ GiveUp(s)

CleanupStep(s) == Remove(s) \/ Settle(s) \/ Requeue(s)

CleanupNext ==
  \E s \in Session :
    CleanupStep(s) \/ Enqueue(s) \/ RuntimeCreates(s) \/ RuntimeDeletes(s)

CleanupSafety == CleanupInit /\ [][CleanupNext]_cleanupVars

CleanupSpec ==
  /\ CleanupSafety
  /\ \A s \in Session : WF_cleanupVars(Settle(s))
=============================================================================
