---------------------------- MODULE MCInterrupts ----------------------------
EXTENDS Interrupts
MCWelcome == <<"welcome", NewLine>>
=============================================================================
