----------------------------- MODULE MCRegistro ------------------------------
\* Registrations on small instances.
EXTENDS Registro, TLC

CONSTANTS d1, d2, c1, c2, r1, p1, p2

DosDocumentos == {d1, d2}
DosCorreos == {c1, c2}
UnRol == {r1}
DosPeticiones == {p1, p2}
Ninguna == {}
Previa == {d2}

\* What no later step nor property reads is left out of the states.  No handler of this
\* module reads the estado of an account registered with an e-mail: nobody's document is
\* a uuid.  The roles of an account with a document are read by the login that inserted it,
\* right afterwards, and by others that only answer with them.  Whether the role was missing
\* matters to who registers a person nobody knew.
FilaVista(n) ==
  LET f == usuarios[n]
      leida == \E p \in Peticiones : En(p, "releer") /\ peticiones[p].d = n IN
  [f EXCEPT !.estado = IF n \in Correos /\ f.alta THEN "PENDIENTE" ELSE @,
            !.roles = IF n \in Correos \/ leida THEN @ ELSE {}]

PeticionVista(p) ==
  LET r == peticiones[p]
      hallada == r.pc \in {"usuarioDatos", "verCorreo", "buscarCorreo", "escribirCorreo",
                          "entrar"} /\ ~ r.alta IN
  [r EXCEPT !.roles = IF hallada THEN {} ELSE @,
            !.falto = @ /\ r.d \notin Previas]

Vista ==
  <<personas, datos, rolUsuario, [p \in Peticiones |-> PeticionVista(p)],
    [n \in Nombres |-> FilaVista(n)]>>

Simetria == Permutations(Correos) \cup Permutations(Peticiones)
=============================================================================
