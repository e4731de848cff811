---------------------------- MODULE MCMsgQueue ------------------------------
EXTENDS MsgQueue

MCSource == {"send", "rcv"}
=============================================================================
