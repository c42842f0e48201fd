-------------------------------- MODULE Orders --------------------------------
(***************************************************************************)
(* The work orders of several deliveries that share one host: what each    *)
(* row holds of the repository and of the deployment.  The tools write     *)
(* these fields in one transaction each, after the git or docker commands  *)
(* that Repository and Deployment describe.                                *)
(***************************************************************************)
EXTENDS WorkOrder

CONSTANTS
  Deliveries,   \* the deliveries on this host, each with its work order
  NoCommit,     \* no commit of the template
  Ports,        \* the host ports a container may be mapped to
  NoPort        \* no port chosen

ASSUME OrdersAssumption == NoCommit \notin Deliveries /\ NoPort \notin Ports

\* A commit of the template is named by the delivery whose process made it.
Commits == Deliveries \cup {NoCommit}

AnyPort == Ports \cup {NoPort}

VARIABLE order   \* the row of each delivery

Order == [created : BOOLEAN, baseline : Commits, candidate : Nat, deployed : BOOLEAN,
          health : HEALTH, port : AnyPort]

NoOrder == [created |-> FALSE, baseline |-> NoCommit, candidate |-> NoTree,
            deployed |-> FALSE, health |-> "none", port |-> NoPort]

OrdersInit == order = [d \in Deliveries |-> NoOrder]

OrdersTypeOK == order \in [Deliveries -> Order]

\* update_work_order, called when the delivery starts, and with each result of git.
OrderCreated(d) == order' = [order EXCEPT ![d].created = TRUE]
BaselineSaved(d, commit) == order' = [order EXCEPT ![d].baseline = commit]
CandidateSaved(d, commit) == order' = [order EXCEPT ![d].candidate = commit]

\* The closing transaction of deploy_candidate: the port is part of the two URLs.
DeploymentSaved(d, commit, port, health) ==
  order' = [order EXCEPT ![d] =
              [DeploymentRecorded(order[d], commit, health) EXCEPT !.port = port]]
=============================================================================
