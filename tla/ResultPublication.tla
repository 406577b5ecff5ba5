-------------------------- MODULE ResultPublication --------------------------
(***************************************************************************)
(* What the workflow store promises, with none of its machinery: analysis  *)
(* jobs are opened against a version of the project, and a job may publish *)
(* its result only while that version is still the project's version.      *)
(* Leases, attempts, stages, retries and messages do not exist here.       *)
(***************************************************************************)
EXTENDS Naturals

CONSTANTS
  Job,      \* the analysis jobs that may ever be opened
  NoJob     \* "there is no published result yet"

VARIABLES
  version,  \* the project's version: <<workflow generation, state version>>
  job,      \* job[j]: "absent", "open", "published" or "closed"
  against,  \* against[j]: the version job j was opened against
  current   \* the job whose result users are shown

vars == <<version, job, against, current>>

Version == Nat \X Nat

NoVersion == <<0, 0>>

JobStatus == {"absent", "open", "published", "closed"}

TypeOK ==
  /\ version \in Version
  /\ job \in [Job -> JobStatus]
  /\ against \in [Job -> Version]
  /\ current \in Job \cup {NoJob}

\* Versions only move forward, and no two steps reach the same one.
Later(v, w) == v # w /\ v[1] <= w[1] /\ v[2] <= w[2]

Init ==
  /\ version = NoVersion
  /\ job = [j \in Job |-> "absent"]
  /\ against = [j \in Job |-> NoVersion]
  /\ current = NoJob

\* A command changes the project without asking for a new analysis.
Advance ==
  /\ version' \in Version
  /\ Later(version, version')
  /\ UNCHANGED <<job, against, current>>

\* A command asks for an analysis: it gets a version of its own.
Open(j) ==
  /\ job[j] = "absent"
  /\ version' \in Version
  /\ Later(version, version')
  /\ against' = [against EXCEPT ![j] = version']
  /\ job' = [job EXCEPT ![j] = "open"]
  /\ UNCHANGED current

\* The result of an up-to-date job becomes the one users are shown.
Publish(j) ==
  /\ job[j] = "open"
  /\ against[j] = version
  /\ job' = [job EXCEPT ![j] = "published"]
  /\ current' = j
  /\ UNCHANGED <<version, against>>

\* A job ends without a result: it failed or was superseded.
Close(j) ==
  /\ job[j] = "open"
  /\ job' = [job EXCEPT ![j] = "closed"]
  /\ UNCHANGED <<version, against, current>>

Next ==
  \/ Advance
  \/ \E j \in Job : Open(j) \/ Publish(j) \/ Close(j)

Spec == Init /\ [][Next]_vars
=============================================================================
