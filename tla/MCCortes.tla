------------------------------ MODULE MCCortes ------------------------------
EXTENDS Cortes, TLC

CONSTANTS A, B, C

TresArchivos == {A, B, C}
Simetria == Permutations(Archivos)

\* What was asked last and what it read are history: no action looks at them.
Vista == <<bitmap, FAT, metadata, BLOQUES, caido, cortado>>
=============================================================================
