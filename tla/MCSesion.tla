------------------------------ MODULE MCSesion -------------------------------
\* The session on small instances.
EXTENDS Sesion, FiniteSets, TLC

CONSTANTS u1, b1, p1, p2, t1, t2, t3, t4

UnUsuario == {u1}
UnNavegador == {b1}
DosPeticiones == {p1, p2}
CuatroIds == {t1, t2, t3, t4}

Simetria == Permutations(Peticiones) \cup Permutations(Ids)

\* What a deleted row held does not matter once nobody names it: its id stands
\* for a fresh one.
Vista ==
  <<[id \in Ids |-> IF id \in EnUso THEN refreshTokens[id] ELSE SinFila],
    estado, jid, peticiones, reloj, salidas \cap EnUso>>
=============================================================================
