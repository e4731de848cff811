---------------------------- MODULE MCDoorbell ------------------------------
EXTENDS Doorbell

MCSource == {"doorbell"}
=============================================================================
