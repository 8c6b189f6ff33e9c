------------------------------ MODULE MCAcceso -------------------------------
\* The whole account on small instances.
EXTENDS Acceso, FiniteSets, TLC

CONSTANTS u1, p1, p2, buena, mala, c1, c2, c3, c4, c5, c6, c7, c8, c9

UnUsuario == {u1}
UnaPeticion == {p1}
DosPeticiones == {p1, p2}
UnaClave == {buena}
DosClaves == {buena, mala}
SeisAleatorios == {c1, c2, c3, c4, c5, c6}
NueveAleatorios == {c1, c2, c3, c4, c5, c6, c7, c8, c9}

\* One value per secret column of a row and up to two per request in progress.
ASSUME PozoSuficiente ==
  Cardinality(Aleatorios) >= 5 * Cardinality(Usuarios) + Cardinality(Peticiones)

SimetriaPeticiones == Permutations(Peticiones)

\* Which random value a place holds does not matter, only which places hold the
\* same one and whether it was delivered.  Two states that agree on that differ
\* by a permutation of the pool, so TLC keeps one of them.
Columnas == {"contrasena", "codigoDesbloqueo", "codigoRecuperacion",
             "codigoTransaccion", "codigoActivacion"}
Locales == {"clave", "hash", "codigo"}

Clase(v) ==
  IF v \notin Aleatorios THEN v
  ELSE <<{l \in Usuarios \X Columnas : usuarios[l[1]][l[2]] = v},
         {l \in Peticiones \X Locales : peticiones[l[1]][l[2]] = v},
         v \in entregados>>

Vista ==
  <<[u \in Usuarios |-> [k \in DOMAIN usuarios[u] |->
       IF k \in Columnas THEN Clase(usuarios[u][k]) ELSE usuarios[u][k]]],
    [p \in Peticiones |-> [k \in DOMAIN peticiones[p] |->
       IF k \in Locales THEN Clase(peticiones[p][k]) ELSE peticiones[p][k]]],
    reloj, erroneos>>
=============================================================================
