--------------------------- MODULE MCUsuarioRoles ----------------------------
\* E-mails and roles on small instances.
EXTENDS UsuarioRoles, TLC

CONSTANTS u1, u2, p1, p2, r1, r2, m1, m2, m3

UnUsuario == {u1}
DosUsuarios == {u1, u2}
UnaPeticion == {p1}
DosPeticiones == {p1, p2}
DosRoles == {r1, r2}
DosCorreos == {m1, m2}
TresCorreos == {m1, m2, m3}

\* every array without repetitions, and with one repeated role
PedidosCualesquiera ==
  [Roles -> 0..1] \cup {[[r \in Roles |-> 1] EXCEPT ![r1] = 2]}

\* one role, asked for twice if it is r1
PedidosDeUno ==
  {[[r \in Roles |-> 0] EXCEPT ![x] = IF x = r1 THEN 2 ELSE 1] : x \in Roles}

\* Requests that share neither the account nor the address.  Only the arrival of one
\* can bring about that they do.
NextAparte ==
  \E p \in Peticiones :
    \/ Pedir(p) /\ UnaPorUsuario' /\ UnaPorCorreo'
    \/ Continuar(p) \/ Abortar(p)

SpecAparte == InitRoles /\ [][NextAparte]_varsRoles

Simetria == Permutations(Peticiones) \cup Permutations(Usuarios) \cup Permutations(Correos)
=============================================================================
