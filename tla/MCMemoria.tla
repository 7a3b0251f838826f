----------------------------- MODULE MCMemoria -----------------------------
EXTENDS Direccionamiento

DosProcesos == {1, 2}

\* What was asked for in a step and what it delivered are history: no action looks at
\* them.
Vista == <<memoriaVars, tlb, enCpu, pedido>>
=============================================================================
