----------------------------- MODULE MCRecover ------------------------------
\* The recover program on every meeting that a few operations can make.
EXTENDS Recover

=============================================================================
