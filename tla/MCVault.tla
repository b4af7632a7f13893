------------------------------ MODULE MCVault ------------------------------
EXTENDS Vault
=============================================================================
