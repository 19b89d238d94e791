-------------------------- MODULE MCEventDelivery --------------------------
(* EventDelivery with a deployment, which the deployment and the status      *)
(* handlers both handle, and a world undeployment, which has one handler.    *)
EXTENDS EventDelivery, TLC

CONSTANTS deployed, undeployed, deployment, statusHandler, undeployment, c1, c2

MCHandlersOf ==
  [e \in Event |-> IF e = deployed THEN {deployment, statusHandler} ELSE {undeployment}]

=============================================================================
