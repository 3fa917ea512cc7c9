---------------------------- MODULE MCRecoveryFabric ----------------------------
EXTENDS RecoveryFabric

Events == DOMAIN Following
===============================================================================
