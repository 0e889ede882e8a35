------------------------------- MODULE MCIntr -------------------------------
\* Instances of Intr: lines of both controllers, with 7 and 15, a breakpoint
\* exception (3) and the system call (128).
EXTENDS Intr
=============================================================================
