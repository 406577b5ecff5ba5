------------------------------- MODULE MCOutbox -------------------------------
\* A small instance of Outbox for TLC.
EXTENDS Outbox
=============================================================================
