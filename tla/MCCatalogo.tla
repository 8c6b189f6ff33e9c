---------------------------- MODULE MCCatalogo ------------------------------
\* The catalogues, the reader of their pages and the answers of failed calls, on small
\* instances.  The three modules share no variable: a behaviour is of one of them (parte)
\* with the others where they start, so that the run explores the sum of the three and
\* not their product.
EXTENDS Catalogo, Recorrido, Externos, TLC

CONSTANTS p1, p2, k1, k2

DosPeticiones == {p1, p2}
DosClaves == {k1, k2}

VARIABLE parte

vars == <<varsCatalogo, varsRecorrido, tarea, parte>>

Init ==
  /\ InitCatalogo /\ InitRecorrido /\ InitExternos
  /\ parte \in {"catalogo", "recorrido", "externos"}
  /\ parte = "catalogo" \/ tabla = "rol"
  /\ parte = "recorrido" \/ lista = "rol"

Next ==
  /\ \/ parte = "catalogo" /\ NextCatalogo /\ UNCHANGED <<varsRecorrido, tarea>>
     \/ parte = "recorrido" /\ NextRecorrido /\ UNCHANGED <<varsCatalogo, tarea>>
     \/ parte = "externos" /\ NextExternos /\ UNCHANGED <<varsCatalogo, varsRecorrido>>
  /\ UNCHANGED parte

Spec == Init /\ [][Next]_vars /\ \A g \in Peticiones : SF_varsCatalogo(Atender(g))
=============================================================================
