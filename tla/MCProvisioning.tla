---------------------------- MODULE MCProvisioning ----------------------------
EXTENDS Provisioning
==============================================================================
