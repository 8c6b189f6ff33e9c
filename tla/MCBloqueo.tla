----------------------------- MODULE MCBloqueo -------------------------------
\* The lockout on small instances.  The pool of random values covers those alive
\* at one time, so no handler ever waits for one.
EXTENDS Bloqueo, FiniteSets, TLC

CONSTANTS u1, u2, p1, p2, buena, mala, c1, c2, c3, c4

UnUsuario == {u1}
DosUsuarios == {u1, u2}
UnaPeticion == {p1}
DosPeticiones == {p1, p2}
DosClaves == {buena, mala}
TresAleatorios == {c1, c2, c3}
CuatroAleatorios == {c1, c2, c3, c4}

\* one code per row and one per request in progress
ASSUME PozoSuficiente ==
  Cardinality(Aleatorios) >= Cardinality(Usuarios) + Cardinality(Peticiones)

Simetria == Permutations(Peticiones) \cup Permutations(Aleatorios) \cup
            Permutations(Claves)

\* With liveness TLC may not use the symmetry, so the run of SpecJusta starts from
\* one of the two passwords that the symmetry exchanges.
InitFija == Init /\ \A u \in Usuarios : usuarios[u].contrasena \in {buena, Nulo}

SpecJustaFija ==
  InitFija /\ [][Next]_vars /\ \A p \in Peticiones : WF_vars(ContinuarBloqueo(p))
=============================================================================
