------------------------------ MODULE MCZ1Client ------------------------------
(* The client on small queues and few connections.                        *)
EXTENDS Z1Client
=============================================================================
