------------------------------ MODULE Deployment ------------------------------
(***************************************************************************)
(* The Docker daemon of one host as deployment/docker.py uses it: one      *)
(* container name per work order, and host ports that all of them share.   *)
(* An operator is one call of the docker client, or one look at the host;  *)
(* module Host calls them in the order of the code.  What is in the image  *)
(* is left out: Supervision says which tree is served.                     *)
(***************************************************************************)
EXTENDS Orders

VARIABLE container   \* the container eds-<work-order>

CONTAINER_STATES == {"none", "running", "stopped"}

Container == [state : CONTAINER_STATES, port : AnyPort]

NoContainer == [state |-> "none", port |-> NoPort]

DeploymentInit == container = [d \in Deliveries |-> NoContainer]

DeploymentTypeOK == container \in [Deliveries -> Container]

Listens(d, p) == container[d].state = "running" /\ container[d].port = p

InUse(p) == \E d \in Deliveries : Listens(d, p)

\* free_port binds a port and lets it go again: nothing keeps it.
FreePorts == {p \in Ports : ~InUse(p)}

\* _remove_existing: the container under this name, in whatever state.
RemoveExisting(d) == container' = [container EXCEPT ![d] = NoContainer]

\* Mutant: an error of the start goes unnoticed.
RunUnnoticed(p) == FALSE

\* containers.run on a port in use: the container is created and does not start.
RunRefused(p) == InUse(p)

Run(d, p) ==
  container' = [container EXCEPT ![d] = [state |-> "running", port |-> p]]

\* The service ends by itself; the daemon keeps the container and frees the port.
ServiceStops(d) ==
  /\ container[d].state = "running"
  /\ container' = [container EXCEPT ![d].state = "stopped"]

\* health_check asks whatever answers on the port.
Answers(p) == InUse(p)
=============================================================================
