-------------------------- MODULE MCProxySupervisor --------------------------
EXTENDS ProxySupervisor
=============================================================================
