------------------------------ MODULE MCCortos ------------------------------
\* Two tasks, one notification bit and a tick counter of a few values.
EXTENDS Cortos

\* Every finite delay; the first tick must not end one of 2.
MCDelays == 0 .. W - 2
=============================================================================
