----------------------------- MODULE MCContexto -----------------------------
(***************************************************************************)
(* An instance of Contexto for TLC: the programs.                          *)
(***************************************************************************)
EXTENDS Contexto, TLC

I(op, destino, origen, n) == [op |-> op, destino |-> destino, origen |-> origen, n |-> n]
Set(r, n) == I("SET", r, "-", n)
Sum(r, s) == I("SUM", r, s, 0)
Jnz(r, n) == I("JNZ", r, "-", n)
Otra(op) == I(op, "-", "-", 0)

\* Process 1 has no file; 2 runs for ever and asks memory without waiting for an
\* answer; 3 adds what malloc left, which may wrap, and ends in one of two ways.
Programas == [p \in 1..3 |->
  CASE p = 1 -> <<>>
    [] p = 2 -> <<Set("AX", 255), Otra("MENOS_PAGINA"), Jnz("AX", 0)>>
    [] p = 3 -> <<Sum("BX", "AX"), Sum("EAX", "FX"), Jnz("BX", 5), Otra("IO"), Otra("EXIT"),
                  Otra("DESCONOCIDA")>>]

Restos == [p \in 1..3 |-> IF p = 3 THEN {128, 255} ELSE {0}]
=============================================================================
