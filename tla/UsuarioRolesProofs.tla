-------------------------- MODULE UsuarioRolesProofs --------------------------
(***************************************************************************)
(* Theorems about UsuarioRoles: any accounts, roles, addresses and arrays   *)
(* of roles, any number of requests at once, with failures between any two *)
(* statements.  Types hold whatever overlaps.  What is said of the roles    *)
(* needs updates of one account not to overlap, and what is said of the     *)
(* e-mails needs requests for one address not to: a chain of statements     *)
(* without a transaction promises no more.                                  *)
(***************************************************************************)
EXTENDS UsuarioRoles, TLAPS

-----------------------------------------------------------------------------
\* What a request may look like at each await

Plan == [inactivos : SUBSET Roles, activos : SUBSET Roles, nuevos : [Roles -> Nat]]
Peticion ==
  [pc : Pcs, u : Usuarios \cup {Nulo}, admin : BOOLEAN, correo : Correos \cup {Nulo},
   pedido : [Roles -> Nat] \cup {Nulo}, plan : Plan, antes : SUBSET Roles]

Escribiendo == {"activar", "inactivar", "crear"}

\* The fields that each await reads have been filled in.
Completa(r) ==
  /\ r.pc # "libre" => r.u \in Usuarios
  /\ r.pc \in {"buscarCorreo", "escribirCorreo"} => r.correo \in Correos
  /\ r.pc \in Escribiendo => r.pedido \in [Roles -> Nat]

\* The rows of one account and role never are more than the bound.
Acotadas == {f \in Filas : f.activas + f.inactivas <= MaxFilas}

Tipos ==
  /\ correos \in [Usuarios -> Correos]
  /\ usuarioRol \in [Usuarios -> [Roles -> Acotadas]]
  /\ peticiones \in [Peticiones -> Peticion]
  /\ \A p \in Peticiones : Completa(peticiones[p])
  /\ reactivados \subseteq Roles

\* A and I are the ACTIVE and the INACTIVE roles of the account now: what is left of the
\* plan is what they still lack.
Forma(r, A, I) ==
  /\ r.pc \in Escribiendo =>
       LET pedidos == Elementos(r.pedido) IN
       /\ Elementos(r.plan.nuevos) = pedidos \ (A \cup I)
       /\ r.antes \cap pedidos \subseteq A /\ A \subseteq r.antes \cup pedidos
       /\ IF r.pc = "activar" THEN r.plan.inactivos = pedidos \cap I
                              ELSE pedidos \cap I = {}
       /\ IF r.pc = "crear" THEN A \subseteq pedidos
                            ELSE r.plan.activos = A \ pedidos
  /\ (r.pc = "hecho" /\ r.pedido # Vacio) => A = Elementos(r.pedido)

FormaAhora(r) == Forma(r, RolesActivos(usuarioRol[r.u]), RolesInactivos(usuarioRol[r.u]))

\* Inductive when no two requests at once are on the same account
InvRoles == FilasDeAcuerdo /\ \A p \in Peticiones : FormaAhora(peticiones[p])

\* Inductive when no two requests at once ask for the same address: what a request looked
\* for is still so when it writes.
InvCorreos ==
  /\ CorreoUnico
  /\ \A p \in Peticiones :
       En(p, "escribirCorreo") => CorreoLibre(peticiones[p].u, peticiones[p].correo)

LEMMA LibreTipada ==
  ASSUME NEW A, NEW I
  PROVE  Libre \in Peticion /\ Completa(Libre) /\ Forma(Libre, A, I) /\ Libre.pc = "libre"
<1>1. Libre \in Peticion
  BY DEF Libre, SinPlan, Vacio, Plan, Peticion, Pcs
<1>2. Libre.pc = "libre"
  BY DEF Libre
<1>3. QED
  BY <1>1, <1>2 DEF Forma, Completa, Escribiendo

-----------------------------------------------------------------------------
\* What each statement does to the rows of an account

Acuerdo(filas) == RolesActivos(filas) \cap RolesInactivos(filas) = {}

LEMMA ActivarFilas ==
  ASSUME NEW filas \in [Roles -> Acotadas], NEW roles \in SUBSET Roles,
         NEW nuevas,
         nuevas = [r \in Roles |->
                     IF r \in roles
                     THEN [activas |-> filas[r].activas + filas[r].inactivas, inactivas |-> 0]
                     ELSE filas[r]]
  PROVE  /\ nuevas \in [Roles -> Acotadas]
         /\ Acuerdo(filas) => Acuerdo(nuevas)
         /\ RolesActivos(nuevas) = RolesActivos(filas) \cup (roles \cap RolesInactivos(filas))
         /\ RolesInactivos(nuevas) = RolesInactivos(filas) \ roles
<1>1. ASSUME NEW r \in Roles
      PROVE  /\ nuevas[r] \in Acotadas
             /\ nuevas[r].activas > 0 <=>
                  filas[r].activas > 0 \/ (r \in roles /\ filas[r].inactivas > 0)
             /\ nuevas[r].inactivas > 0 <=> filas[r].inactivas > 0 /\ r \notin roles
  <2>1. filas[r] \in Acotadas
    OBVIOUS
  <2>2. /\ filas[r].activas \in 0..MaxFilas /\ filas[r].inactivas \in 0..MaxFilas
        /\ filas[r].activas + filas[r].inactivas <= MaxFilas
    BY <2>1 DEF Acotadas, Filas
  <2>3. CASE r \in roles
    <3>1. nuevas[r] = [activas |-> filas[r].activas + filas[r].inactivas, inactivas |-> 0]
      BY <2>3
    <3>2. filas[r].activas + filas[r].inactivas \in 0..MaxFilas /\ 0 \in 0..MaxFilas
      BY <2>2, FilasSupuesto
    <3>3. QED
      BY <2>2, <2>3, <3>1, <3>2 DEF Acotadas, Filas
  <2>4. CASE r \notin roles
    BY <2>1, <2>2, <2>4
  <2>5. QED
    BY <2>3, <2>4
<1>2. nuevas \in [Roles -> Acotadas]
  BY <1>1
<1>3. RolesActivos(nuevas) = RolesActivos(filas) \cup (roles \cap RolesInactivos(filas))
  BY <1>1 DEF RolesActivos, RolesInactivos
<1>4. RolesInactivos(nuevas) = RolesInactivos(filas) \ roles
  BY <1>1 DEF RolesInactivos
<1>5. QED
  BY <1>2, <1>3, <1>4 DEF Acuerdo

LEMMA InactivarFilas ==
  ASSUME NEW filas \in [Roles -> Acotadas], NEW roles \in SUBSET Roles,
         NEW nuevas,
         nuevas = [r \in Roles |->
                     IF r \in roles
                     THEN [activas |-> 0, inactivas |-> filas[r].activas + filas[r].inactivas]
                     ELSE filas[r]]
  PROVE  /\ nuevas \in [Roles -> Acotadas]
         /\ Acuerdo(filas) => Acuerdo(nuevas)
         /\ RolesActivos(nuevas) = RolesActivos(filas) \ roles
         /\ RolesInactivos(nuevas) = RolesInactivos(filas) \cup (roles \cap RolesActivos(filas))
<1>1. ASSUME NEW r \in Roles
      PROVE  /\ nuevas[r] \in Acotadas
             /\ nuevas[r].activas > 0 <=> filas[r].activas > 0 /\ r \notin roles
             /\ nuevas[r].inactivas > 0 <=>
                  filas[r].inactivas > 0 \/ (r \in roles /\ filas[r].activas > 0)
  <2>1. filas[r] \in Acotadas
    OBVIOUS
  <2>2. /\ filas[r].activas \in 0..MaxFilas /\ filas[r].inactivas \in 0..MaxFilas
        /\ filas[r].activas + filas[r].inactivas <= MaxFilas
    BY <2>1 DEF Acotadas, Filas
  <2>3. CASE r \in roles
    <3>1. nuevas[r] = [activas |-> 0, inactivas |-> filas[r].activas + filas[r].inactivas]
      BY <2>3
    <3>2. filas[r].activas + filas[r].inactivas \in 0..MaxFilas /\ 0 \in 0..MaxFilas
      BY <2>2, FilasSupuesto
    <3>3. QED
      BY <2>2, <2>3, <3>1, <3>2 DEF Acotadas, Filas
  <2>4. CASE r \notin roles
    BY <2>1, <2>2, <2>4
  <2>5. QED
    BY <2>3, <2>4
<1>2. nuevas \in [Roles -> Acotadas]
  BY <1>1
<1>3. RolesActivos(nuevas) = RolesActivos(filas) \ roles
  BY <1>1 DEF RolesActivos
<1>4. RolesInactivos(nuevas) = RolesInactivos(filas) \cup (roles \cap RolesActivos(filas))
  BY <1>1 DEF RolesActivos, RolesInactivos
<1>5. QED
  BY <1>2, <1>3, <1>4 DEF Acuerdo

Caben(filas, pedido) ==
  \A r \in Roles : filas[r].activas + filas[r].inactivas + pedido[r] <= MaxFilas

LEMMA CrearFilas ==
  ASSUME NEW filas \in [Roles -> Acotadas], NEW pedido \in [Roles -> Nat],
         Caben(filas, pedido), NEW nuevas,
         nuevas = [r \in Roles |-> [activas |-> filas[r].activas + pedido[r],
                                    inactivas |-> filas[r].inactivas]]
  PROVE  /\ nuevas \in [Roles -> Acotadas]
         /\ RolesActivos(nuevas) = RolesActivos(filas) \cup Elementos(pedido)
         /\ RolesInactivos(nuevas) = RolesInactivos(filas)
<1>1. ASSUME NEW r \in Roles
      PROVE  /\ nuevas[r] \in Acotadas
             /\ nuevas[r].activas > 0 <=> filas[r].activas > 0 \/ pedido[r] > 0
             /\ nuevas[r].inactivas = filas[r].inactivas
  <2>1. filas[r] \in Acotadas /\ pedido[r] \in Nat
    OBVIOUS
  <2>2. /\ filas[r].activas \in 0..MaxFilas /\ filas[r].inactivas \in 0..MaxFilas
        /\ filas[r].activas + filas[r].inactivas <= MaxFilas
    BY <2>1 DEF Acotadas, Filas
  <2>3. filas[r].activas + filas[r].inactivas + pedido[r] <= MaxFilas
    BY DEF Caben
  <2>4. filas[r].activas + pedido[r] \in 0..MaxFilas
    BY <2>1, <2>2, <2>3, FilasSupuesto
  <2>5. nuevas[r] = [activas |-> filas[r].activas + pedido[r],
                       inactivas |-> filas[r].inactivas]
    OBVIOUS
  <2>6. /\ nuevas[r] \in Acotadas /\ nuevas[r].activas = filas[r].activas + pedido[r]
        /\ nuevas[r].inactivas = filas[r].inactivas
    BY <2>1, <2>2, <2>3, <2>4, <2>5, FilasSupuesto DEF Acotadas, Filas
  <2>7. QED
    BY <2>1, <2>2, <2>6
<1>2. nuevas \in [Roles -> Acotadas]
  BY <1>1
<1>3. RolesActivos(nuevas) = RolesActivos(filas) \cup Elementos(pedido)
  BY <1>1 DEF RolesActivos, Elementos
<1>4. RolesInactivos(nuevas) = RolesInactivos(filas)
  BY <1>1 DEF RolesInactivos
<1>5. QED
  BY <1>2, <1>3, <1>4

-----------------------------------------------------------------------------
\* Types, whatever overlaps

LEMMA TiposPaso ==
  ASSUME Tipos, NEW p \in Peticiones, NEW r \in Peticion, Completa(r), Sigue(p, r),
         correos' \in [Usuarios -> Correos], usuarioRol' \in [Usuarios -> [Roles -> Acotadas]],
         reactivados' \subseteq Roles
  PROVE  Tipos'
<1>1. /\ peticiones' \in [Peticiones -> Peticion] /\ peticiones'[p] = r
      /\ \A q \in Peticiones \ {p} : peticiones'[q] = peticiones[q]
  BY DEF Tipos, Sigue
<1>2. \A q \in Peticiones : Completa(peticiones'[q])
  BY <1>1 DEF Tipos
<1>3. QED
  BY <1>1, <1>2 DEF Tipos, Completa

\* Only the await of a request changes.
LEMMA PasaTipos ==
  ASSUME Tipos, NEW p \in Peticiones, NEW pc \in Pcs, Pasa(p, pc), ~ En(p, "libre"),
         pc \in {"buscarCorreo", "escribirCorreo"} => peticiones[p].correo \in Correos,
         pc \in Escribiendo => peticiones[p].pedido \in [Roles -> Nat],
         correos' \in [Usuarios -> Correos], usuarioRol' \in [Usuarios -> [Roles -> Acotadas]],
         reactivados' \subseteq Roles
  PROVE  Tipos'
<1> DEFINE r == [peticiones[p] EXCEPT !.pc = pc]
<1>1. peticiones[p] \in Peticion /\ Completa(peticiones[p]) /\ peticiones[p].pc # "libre"
  BY DEF Tipos, En
<1>2. /\ r \in Peticion /\ r.pc = pc /\ r.u = peticiones[p].u
      /\ r.correo = peticiones[p].correo /\ r.pedido = peticiones[p].pedido
  BY <1>1 DEF Peticion
<1>3. Completa(r)
  BY <1>1, <1>2 DEF Completa
<1>4. Sigue(p, r)
  BY DEF Pasa
<1> HIDE DEF r
<1>5. QED
  BY <1>2, <1>3, <1>4, TiposPaso

LEMMA LibreTipos ==
  ASSUME Tipos, NEW p \in Peticiones, Sigue(p, Libre),
         UNCHANGED <<correos, usuarioRol, reactivados>>
  PROVE  Tipos'
BY LibreTipada, TiposPaso DEF Tipos

\* The request that PATCH /usuarios/:id or the login begins: the array of the first is what
\* administrators send, the one of the second counts rows.
Nueva(u, admin, correo, pedido) ==
  [Libre EXCEPT !.pc = "buscarPorId", !.u = u, !.admin = admin,
                !.correo = correo, !.pedido = pedido]

LEMMA PedirNueva ==
  ASSUME Tipos, NEW p \in Peticiones, Pedir(p)
  PROVE  \E u \in Usuarios, admin \in BOOLEAN, correo \in Correos \cup {Nulo},
            pedido \in [Roles -> Nat] \cup {Nulo} :
           /\ Sigue(p, Nueva(u, admin, correo, pedido))
           /\ UNCHANGED <<correos, usuarioRol, reactivados>>
<1>1. ASSUME NEW u \in Usuarios, NEW correo \in Correos \cup {Nulo},
             NEW pedido \in Pedidos \cup {Nulo}, PedirActualizarDatos(p, u, correo, pedido)
      PROVE  /\ pedido \in [Roles -> Nat] \cup {Nulo}
             /\ Sigue(p, Nueva(u, TRUE, correo, pedido))
             /\ UNCHANGED <<correos, usuarioRol, reactivados>>
  BY <1>1, PedidosSupuesto DEF PedirActualizarDatos, Empezar, Nueva
<1>2. ASSUME NEW u \in Usuarios, NEW correo \in Correos, PedirOidc(p, u, correo)
      PROVE  \E pedido \in [Roles -> Nat] \cup {Nulo} :
               /\ Sigue(p, Nueva(u, FALSE, correo, pedido))
               /\ UNCHANGED <<correos, usuarioRol, reactivados>>
  <2> DEFINE pedido == [r \in Roles |-> usuarioRol[u][r].activas + usuarioRol[u][r].inactivas]
  <2>1. ASSUME NEW r \in Roles
        PROVE  usuarioRol[u][r].activas + usuarioRol[u][r].inactivas \in Nat
    <3>1. usuarioRol[u][r] \in Acotadas
      BY DEF Tipos
    <3>2. QED
      BY <3>1, FilasSupuesto DEF Acotadas, Filas
  <2>2. pedido \in [Roles -> Nat]
    BY <2>1
  <2>3. Empezar(p, u, FALSE, correo, pedido)
    BY <1>2 DEF PedirOidc
  <2> HIDE DEF pedido
  <2>4. QED
    BY <2>2, <2>3 DEF Empezar, Nueva
<1>3. QED
  BY <1>1, <1>2 DEF Pedir

LEMMA NuevaTipada ==
  ASSUME NEW u \in Usuarios, NEW admin \in BOOLEAN, NEW correo \in Correos \cup {Nulo},
         NEW pedido \in [Roles -> Nat] \cup {Nulo}, NEW A, NEW I
  PROVE  LET r == Nueva(u, admin, correo, pedido) IN
         r \in Peticion /\ Completa(r) /\ Forma(r, A, I) /\ r.pc = "buscarPorId"
<1> DEFINE r == Nueva(u, admin, correo, pedido)
<1>1. r \in Peticion /\ r.pc = "buscarPorId" /\ r.u = u
  BY LibreTipada DEF Nueva, Libre, Peticion, Pcs
<1> HIDE DEF r
<1>2. Completa(r) /\ Forma(r, A, I)
  BY <1>1 DEF Completa, Forma, Escribiendo
<1>3. QED
  BY <1>1, <1>2 DEF r

\* The three statements on usuarios_roles, for the account u of the request q, whose rows
\* were filas and now are nuevas
Activada(q, filas, nuevas) ==
  nuevas = [x \in Roles |->
              IF x \in q.plan.inactivos
              THEN [activas |-> filas[x].activas + filas[x].inactivas, inactivas |-> 0]
              ELSE filas[x]]
Inactivada(q, filas, nuevas) ==
  nuevas = [x \in Roles |->
              IF x \in q.plan.activos
              THEN [activas |-> 0, inactivas |-> filas[x].activas + filas[x].inactivas]
              ELSE filas[x]]
Creada(q, filas, nuevas) ==
  nuevas = [x \in Roles |-> [activas |-> filas[x].activas + q.plan.nuevos[x],
                             inactivas |-> filas[x].inactivas]]

LEMMA Escribe ==
  ASSUME Tipos, NEW p \in Peticiones, Activar(p) \/ Inactivar(p) \/ Crear(p)
  PROVE  LET q == peticiones[p]
             filas == usuarioRol[q.u]
             nuevas == usuarioRol'[q.u] IN
         /\ q \in Peticion /\ q.u \in Usuarios /\ q.plan \in Plan
         /\ q.pc \in Escribiendo /\ q.pedido \in [Roles -> Nat]
         /\ filas \in [Roles -> Acotadas] /\ nuevas \in [Roles -> Acotadas]
         /\ \A v \in Usuarios \ {q.u} : usuarioRol'[v] = usuarioRol[v]
         /\ usuarioRol' \in [Usuarios -> [Roles -> Acotadas]]
         /\ Activar(p) => Activada(q, filas, nuevas)
         /\ Inactivar(p) => Inactivada(q, filas, nuevas)
         /\ Crear(p) => Creada(q, filas, nuevas) /\ Caben(filas, q.plan.nuevos)
<1> DEFINE q == peticiones[p]
           filas == usuarioRol[q.u]
           nuevas == usuarioRol'[q.u]
<1>1. q.pc \in Escribiendo
  BY DEF Activar, Inactivar, Crear, En, Escribiendo
<1>2. /\ q \in Peticion /\ q.u \in Usuarios /\ q.pedido \in [Roles -> Nat]
      /\ q.plan \in Plan /\ filas \in [Roles -> Acotadas]
  BY <1>1 DEF Tipos, Completa, Escribiendo, Peticion
<1>3. CASE Activar(p)
  <2> DEFINE f == [x \in Roles |->
                     IF x \in q.plan.inactivos
                     THEN [activas |-> filas[x].activas + filas[x].inactivas, inactivas |-> 0]
                     ELSE filas[x]]
  <2>1. usuarioRol' = [usuarioRol EXCEPT ![q.u] = f]
    BY <1>3 DEF Activar, ActivarRoles
  <2>2. q.plan.inactivos \in SUBSET Roles
    BY <1>2 DEF Plan
  <2>3. f \in [Roles -> Acotadas]
    BY <1>2, <2>2, ActivarFilas
  <2> HIDE DEF f
  <2>4. nuevas = f /\ \A v \in Usuarios \ {q.u} : usuarioRol'[v] = usuarioRol[v]
    BY <1>2, <2>1 DEF Tipos
  <2>5. Activada(q, filas, nuevas)
    BY <2>4 DEF Activada, f
  <2>6. usuarioRol' \in [Usuarios -> [Roles -> Acotadas]]
    BY <1>2, <2>1, <2>3 DEF Tipos
  <2>7. ~ Inactivar(p) /\ ~ Crear(p)
    BY <1>3 DEF Activar, Inactivar, Crear, En
  <2>8. QED
    BY <1>1, <1>2, <2>3, <2>4, <2>5, <2>6, <2>7
<1>4. CASE Inactivar(p)
  <2> DEFINE f == [x \in Roles |->
                     IF x \in q.plan.activos
                     THEN [activas |-> 0, inactivas |-> filas[x].activas + filas[x].inactivas]
                     ELSE filas[x]]
  <2>1. usuarioRol' = [usuarioRol EXCEPT ![q.u] = f]
    BY <1>4 DEF Inactivar, InactivarRoles
  <2>2. q.plan.activos \in SUBSET Roles
    BY <1>2 DEF Plan
  <2>3. f \in [Roles -> Acotadas]
    BY <1>2, <2>2, InactivarFilas
  <2> HIDE DEF f
  <2>4. nuevas = f /\ \A v \in Usuarios \ {q.u} : usuarioRol'[v] = usuarioRol[v]
    BY <1>2, <2>1 DEF Tipos
  <2>5. Inactivada(q, filas, nuevas)
    BY <2>4 DEF Inactivada, f
  <2>6. usuarioRol' \in [Usuarios -> [Roles -> Acotadas]]
    BY <1>2, <2>1, <2>3 DEF Tipos
  <2>7. ~ Activar(p) /\ ~ Crear(p)
    BY <1>4 DEF Activar, Inactivar, Crear, En
  <2>8. QED
    BY <1>1, <1>2, <2>3, <2>4, <2>5, <2>6, <2>7
<1>5. CASE Crear(p)
  <2> DEFINE f == [x \in Roles |-> [activas |-> filas[x].activas + q.plan.nuevos[x],
                                    inactivas |-> filas[x].inactivas]]
  <2>1. usuarioRol' = [usuarioRol EXCEPT ![q.u] = f] /\ Caben(filas, q.plan.nuevos)
    BY <1>5 DEF Crear, CrearRoles, Cabe, Caben
  <2>2. q.plan.nuevos \in [Roles -> Nat]
    BY <1>2 DEF Plan
  <2>def. f = [x \in Roles |-> [activas |-> filas[x].activas + q.plan.nuevos[x],
                                inactivas |-> filas[x].inactivas]]
    OBVIOUS
  <2>3. f \in [Roles -> Acotadas]
    <3> HIDE DEF f, filas, q
    <3>1. QED
      BY <1>2, <2>1, <2>2, <2>def, CrearFilas
  <2> HIDE DEF f
  <2>4. nuevas = f /\ \A v \in Usuarios \ {q.u} : usuarioRol'[v] = usuarioRol[v]
    BY <1>2, <2>1 DEF Tipos
  <2>5. Creada(q, filas, nuevas)
    BY <2>4, <2>def DEF Creada
  <2>6. usuarioRol' \in [Usuarios -> [Roles -> Acotadas]]
    BY <1>2, <2>1, <2>3 DEF Tipos
  <2>7. ~ Activar(p) /\ ~ Inactivar(p)
    BY <1>5 DEF Activar, Inactivar, Crear, En
  <2>8. QED
    BY <1>1, <1>2, <2>1, <2>3, <2>4, <2>5, <2>6, <2>7
<1>6. QED
  BY <1>3, <1>4, <1>5

\* verificarUsuarioRoles: the plan is what the rows read lack.
Planeada(q, filas) ==
  [q EXCEPT !.pc = "activar", !.antes = RolesActivos(filas),
            !.plan = [inactivos |-> Inactivos(filas, q.pedido),
                      activos   |-> Activos(filas, q.pedido),
                      nuevos    |-> Nuevos(filas, q.pedido)]]

LEMMA PlaneadaTipada ==
  ASSUME NEW q \in Peticion, q.u \in Usuarios, q.pedido \in [Roles -> Nat], NEW filas
  PROVE  LET r == Planeada(q, filas) IN
         /\ r \in Peticion /\ Completa(r)
         /\ r.pc = "activar" /\ r.u = q.u /\ r.pedido = q.pedido
         /\ Forma(r, RolesActivos(filas), RolesInactivos(filas))
<1> DEFINE pedido == q.pedido
           plan == [inactivos |-> Inactivos(filas, pedido), activos |-> Activos(filas, pedido),
                    nuevos |-> Nuevos(filas, pedido)]
           r == [q EXCEPT !.pc = "activar", !.antes = RolesActivos(filas), !.plan = plan]
<1>1. r = Planeada(q, filas)
  BY DEF Planeada
<1>2. Nuevos(filas, pedido) \in [Roles -> Nat]
  BY DEF Nuevos
<1>3. plan \in Plan
  BY <1>2 DEF Plan, Inactivos, Activos, Elementos, RolesActivos
<1>4. /\ r \in Peticion /\ r.pc = "activar" /\ r.u = q.u /\ r.pedido = pedido
      /\ r.antes = RolesActivos(filas) /\ r.plan = plan
  BY <1>3 DEF Peticion, Pcs, RolesActivos
<1>5. Elementos(Nuevos(filas, pedido))
        = Elementos(pedido) \ (RolesActivos(filas) \cup RolesInactivos(filas))
  BY DEF Elementos, Nuevos, RolesConFila
<1>6. /\ plan.inactivos = Elementos(pedido) \cap RolesInactivos(filas)
      /\ plan.activos = RolesActivos(filas) \ Elementos(pedido)
      /\ Elementos(plan.nuevos)
           = Elementos(pedido) \ (RolesActivos(filas) \cup RolesInactivos(filas))
  BY <1>5 DEF Inactivos, Activos
<1> HIDE DEF r, plan
<1>7. Completa(r) /\ Forma(r, RolesActivos(filas), RolesInactivos(filas))
  BY <1>4, <1>6 DEF Completa, Forma, Escribiendo
<1>8. QED
  BY <1>1, <1>4, <1>7

LEMMA TiposContinuar ==
  ASSUME Tipos, NEW p \in Peticiones, Continuar(p)
  PROVE  Tipos'
<1> USE DEF Tipos
<1>1. CASE BuscarPorId(p)
  <2>1. /\ ~ En(p, "libre") /\ "buscarCorreo" \in Pcs \ Escribiendo
        /\ "roles" \in Pcs \ Escribiendo /\ peticiones[p].correo \in Correos \cup {Nulo}
    BY <1>1 DEF BuscarPorId, En, Pcs, Escribiendo, Peticion
  <2>2. CASE peticiones[p].correo \notin {Nulo, correos[peticiones[p].u]}
    BY <1>1, <2>1, <2>2, PasaTipos DEF BuscarPorId
  <2>3. CASE peticiones[p].correo \in {Nulo, correos[peticiones[p].u]}
    BY <1>1, <2>1, <2>3, PasaTipos DEF BuscarPorId
  <2>4. QED
    BY <2>2, <2>3
<1>2. CASE BuscarUsuarioPorCorreo(p)
  <2>1. /\ ~ En(p, "libre") /\ peticiones[p].correo \in Correos
        /\ {"escribirCorreo", "error"} \subseteq Pcs \ Escribiendo
    BY <1>2 DEF BuscarUsuarioPorCorreo, En, Pcs, Escribiendo, Completa
  <2>2. CASE CorreoLibre(peticiones[p].u, peticiones[p].correo)
    BY <1>2, <2>1, <2>2, PasaTipos DEF BuscarUsuarioPorCorreo
  <2>3. CASE ~ CorreoLibre(peticiones[p].u, peticiones[p].correo)
    BY <1>2, <2>1, <2>3, PasaTipos DEF BuscarUsuarioPorCorreo
  <2>4. QED
    BY <2>2, <2>3
<1>3. CASE ActualizarCorreo(p)
  <2>1. /\ ~ En(p, "libre") /\ peticiones[p].correo \in Correos /\ peticiones[p].u \in Usuarios
        /\ "roles" \in Pcs \ Escribiendo
    BY <1>3 DEF ActualizarCorreo, En, Pcs, Escribiendo, Completa
  <2>2. correos' \in [Usuarios -> Correos]
    BY <1>3, <2>1 DEF ActualizarCorreo
  <2>3. QED
    BY <1>3, <2>1, <2>2, PasaTipos DEF ActualizarCorreo
<1>4. CASE RolesAusentes(p) \/ RolesVacios(p)
  <2>1. ~ En(p, "libre") /\ {"error", "hecho"} \subseteq Pcs \ Escribiendo
    BY <1>4 DEF RolesAusentes, RolesVacios, En, Pcs, Escribiendo
  <2>2. QED
    BY <1>4, <2>1, PasaTipos DEF RolesAusentes, RolesVacios
<1>5. CASE ObtenerRolesPorUsuario(p)
  <2>1. /\ peticiones[p] \in Peticion /\ peticiones[p].u \in Usuarios
        /\ peticiones[p].pedido \in [Roles -> Nat]
    BY <1>5 DEF ObtenerRolesPorUsuario, En, Completa, Peticion
  <2>2. Sigue(p, Planeada(peticiones[p], usuarioRol[peticiones[p].u]))
    BY <1>5 DEF ObtenerRolesPorUsuario, Planeada
  <2>3. UNCHANGED <<correos, usuarioRol, reactivados>>
    BY <1>5 DEF ObtenerRolesPorUsuario
  <2>4. QED
    BY <2>1, <2>2, <2>3, PlaneadaTipada, TiposPaso
<1>6. CASE Activar(p) \/ Inactivar(p) \/ Crear(p)
  <2>1. /\ peticiones[p].pc \in Escribiendo /\ peticiones[p].pedido \in [Roles -> Nat]
        /\ usuarioRol' \in [Usuarios -> [Roles -> Acotadas]] /\ peticiones[p].plan \in Plan
    BY <1>6, Escribe
  <2>2. ~ En(p, "libre") /\ {"inactivar", "crear", "hecho"} \subseteq Pcs
    BY <2>1 DEF En, Pcs, Escribiendo
  <2>3. correos' \in [Usuarios -> Correos] /\ reactivados' \subseteq Roles
    BY <1>6, <2>1 DEF Activar, Inactivar, Crear, Plan
  <2>4. \E pc \in {"inactivar", "crear", "hecho"} : Pasa(p, pc)
    BY <1>6 DEF Activar, Inactivar, Crear
  <2>5. QED
    BY <2>1, <2>2, <2>3, <2>4, PasaTipos
<1>7. CASE Responder(p)
  BY <1>7, LibreTipos DEF Responder
<1>8. QED
  BY <1>1, <1>2, <1>3, <1>4, <1>5, <1>6, <1>7 DEF Continuar

LEMMA TiposSiguiente == Tipos /\ [NextRoles]_varsRoles => Tipos'
<1> SUFFICES ASSUME Tipos, [NextRoles]_varsRoles PROVE Tipos'
  OBVIOUS
<1>1. CASE UNCHANGED varsRoles
  BY <1>1 DEF varsRoles, Tipos, Completa
<1>2. ASSUME NEW p \in Peticiones, Pedir(p) PROVE Tipos'
  BY <1>2, PedirNueva, NuevaTipada, TiposPaso DEF Tipos
<1>3. ASSUME NEW p \in Peticiones, Continuar(p) PROVE Tipos'
  BY <1>3, TiposContinuar
<1>4. ASSUME NEW p \in Peticiones, Abortar(p) PROVE Tipos'
  BY <1>4, LibreTipos DEF Abortar
<1>5. QED
  BY <1>1, <1>2, <1>3, <1>4 DEF NextRoles

-----------------------------------------------------------------------------
\* Roles, when no two requests at once are on the same account

LEMMA PasoQuieto ==
  ASSUME Tipos, InvRoles, NEW p \in Peticiones, NEW r, Sigue(p, r), UNCHANGED usuarioRol,
         FormaAhora(r)
  PROVE  InvRoles'
<1>1. peticiones'[p] = r /\ \A q \in Peticiones \ {p} : peticiones'[q] = peticiones[q]
  BY DEF Tipos, Sigue
<1>2. \A q \in Peticiones : FormaAhora(peticiones'[q])
  BY <1>1 DEF InvRoles
<1>3. QED
  BY <1>2 DEF InvRoles, FilasDeAcuerdo, FormaAhora

\* Only the await of a request changes.
LEMMA PasaInv ==
  ASSUME Tipos, InvRoles, NEW p \in Peticiones, NEW pc \in Pcs \ Escribiendo, Pasa(p, pc),
         UNCHANGED usuarioRol, pc = "hecho" => peticiones[p].pedido = Vacio
  PROVE  InvRoles'
<1> DEFINE r == [peticiones[p] EXCEPT !.pc = pc]
<1>1. r.pc = pc /\ r.u = peticiones[p].u /\ r.pedido = peticiones[p].pedido
  BY DEF Tipos, Peticion
<1>2. Sigue(p, r)
  BY DEF Pasa
<1> HIDE DEF r
<1>3. FormaAhora(r)
  BY <1>1 DEF FormaAhora, Forma
<1>4. QED
  BY <1>2, <1>3, PasoQuieto

\* A request writes the rows of its account; the others are on other accounts.
LEMMA PasoDeFilas ==
  ASSUME Tipos, InvRoles, UnaPorUsuario', NEW p \in Peticiones,
         Activar(p) \/ Inactivar(p) \/ Crear(p), NEW pc \in {"inactivar", "crear", "hecho"},
         Pasa(p, pc), Acuerdo(usuarioRol'[peticiones[p].u]),
         Forma([peticiones[p] EXCEPT !.pc = pc], RolesActivos(usuarioRol'[peticiones[p].u]),
               RolesInactivos(usuarioRol'[peticiones[p].u]))
  PROVE  InvRoles'
<1> DEFINE u == peticiones[p].u
           r == [peticiones[p] EXCEPT !.pc = pc]
<1>1. u \in Usuarios /\ \A v \in Usuarios \ {u} : usuarioRol'[v] = usuarioRol[v]
  BY Escribe
<1>2. /\ peticiones' = [peticiones EXCEPT ![p] = r] /\ r.pc = pc /\ r.u = u
      /\ Forma(r, RolesActivos(usuarioRol'[u]), RolesInactivos(usuarioRol'[u]))
  BY DEF Pasa, Sigue, Tipos, Peticion
<1> HIDE DEF r
<1>3. peticiones'[p] = r /\ \A q \in Peticiones \ {p} : peticiones'[q] = peticiones[q]
  BY <1>2 DEF Tipos
<1>4. FilasDeAcuerdo'
  <2>1. \A v \in Usuarios : Acuerdo(usuarioRol'[v])
    BY <1>1 DEF InvRoles, FilasDeAcuerdo, Acuerdo
  <2>2. QED
    BY <2>1 DEF FilasDeAcuerdo, Acuerdo
<1>5. ASSUME NEW q \in Peticiones
      PROVE  Forma(peticiones'[q], RolesActivos(usuarioRol'[peticiones'[q].u]),
                   RolesInactivos(usuarioRol'[peticiones'[q].u]))
  <2>1. CASE q = p
    BY <1>2, <1>3, <2>1
  <2>2. CASE q # p /\ peticiones[q].pc = "libre"
    BY <1>3, <2>2 DEF Forma, Escribiendo
  <2>3. CASE q # p /\ peticiones[q].pc # "libre"
    <3>1. peticiones[q].u # u
      BY <1>2, <1>3, <2>3 DEF UnaPorUsuario, EnCurso, En
    <3>2. usuarioRol'[peticiones[q].u] = usuarioRol[peticiones[q].u]
      BY <1>1, <2>3, <3>1 DEF Tipos, Completa
    <3>3. QED
      BY <1>3, <2>3, <3>2 DEF InvRoles, FormaAhora
  <2>4. QED
    BY <2>1, <2>2, <2>3
<1>6. QED
  BY <1>4, <1>5 DEF InvRoles, FormaAhora

\* What a request that writes has to go by
LEMMA FormaEscribiendo ==
  ASSUME NEW q, q.pc \in Escribiendo, NEW A, NEW I, Forma(q, A, I)
  PROVE  /\ Elementos(q.plan.nuevos) = Elementos(q.pedido) \ (A \cup I)
         /\ q.antes \cap Elementos(q.pedido) \subseteq A
         /\ A \subseteq q.antes \cup Elementos(q.pedido)
         /\ q.pc = "activar" => q.plan.inactivos = Elementos(q.pedido) \cap I
         /\ q.pc # "activar" => Elementos(q.pedido) \cap I = {}
         /\ q.pc = "crear" => A \subseteq Elementos(q.pedido)
         /\ q.pc # "crear" => q.plan.activos = A \ Elementos(q.pedido)
BY DEF Forma

LEMMA ActivarInv ==
  ASSUME Tipos, InvRoles, UnaPorUsuario', NEW p \in Peticiones, Activar(p)
  PROVE  InvRoles'
<1> DEFINE q == peticiones[p]
           filas == usuarioRol[q.u]
           nuevas == usuarioRol'[q.u]
           r == [q EXCEPT !.pc = "inactivar"]
<1>1. /\ q \in Peticion /\ q.u \in Usuarios /\ q.plan \in Plan
      /\ filas \in [Roles -> Acotadas] /\ Activada(q, filas, nuevas)
  BY Escribe
<1>2. q.pc = "activar" /\ q.pc \in Escribiendo /\ Pasa(p, "inactivar")
  BY DEF Activar, En, Escribiendo
<1>3. Acuerdo(filas) /\ Forma(q, RolesActivos(filas), RolesInactivos(filas))
  BY <1>1 DEF InvRoles, FilasDeAcuerdo, Acuerdo, FormaAhora
<1>4. /\ r.pc = "inactivar" /\ r.pedido = q.pedido /\ r.plan = q.plan /\ r.antes = q.antes
  BY <1>1 DEF Peticion
<1>r. r = [peticiones[p] EXCEPT !.pc = "inactivar"]
  OBVIOUS
<1> HIDE DEF q, filas, nuevas, r
<1>5. q.plan.inactivos \in SUBSET Roles
  BY <1>1 DEF Plan
<1>6. /\ Acuerdo(nuevas)
      /\ RolesActivos(nuevas)
           = RolesActivos(filas) \cup (q.plan.inactivos \cap RolesInactivos(filas))
      /\ RolesInactivos(nuevas) = RolesInactivos(filas) \ q.plan.inactivos
  BY <1>1, <1>3, <1>5, ActivarFilas DEF Activada
<1>7. Forma(r, RolesActivos(nuevas), RolesInactivos(nuevas))
  <2>1. /\ Elementos(q.plan.nuevos)
             = Elementos(q.pedido) \ (RolesActivos(filas) \cup RolesInactivos(filas))
        /\ q.antes \cap Elementos(q.pedido) \subseteq RolesActivos(filas)
        /\ RolesActivos(filas) \subseteq q.antes \cup Elementos(q.pedido)
        /\ q.plan.inactivos = Elementos(q.pedido) \cap RolesInactivos(filas)
        /\ q.plan.activos = RolesActivos(filas) \ Elementos(q.pedido)
    BY <1>2, <1>3, FormaEscribiendo
  <2>2. QED
    BY <1>4, <1>6, <2>1 DEF Forma, Escribiendo
<1>8. QED
  BY <1>2, <1>6, <1>7, <1>r, PasoDeFilas DEF q, nuevas

LEMMA InactivarInv ==
  ASSUME Tipos, InvRoles, UnaPorUsuario', NEW p \in Peticiones, Inactivar(p)
  PROVE  InvRoles'
<1> DEFINE q == peticiones[p]
           filas == usuarioRol[q.u]
           nuevas == usuarioRol'[q.u]
           r == [q EXCEPT !.pc = "crear"]
<1>1. /\ q \in Peticion /\ q.u \in Usuarios /\ q.plan \in Plan
      /\ filas \in [Roles -> Acotadas] /\ Inactivada(q, filas, nuevas)
  BY Escribe
<1>2. q.pc = "inactivar" /\ q.pc \in Escribiendo /\ Pasa(p, "crear")
  BY DEF Inactivar, En, Escribiendo
<1>3. Acuerdo(filas) /\ Forma(q, RolesActivos(filas), RolesInactivos(filas))
  BY <1>1 DEF InvRoles, FilasDeAcuerdo, Acuerdo, FormaAhora
<1>4. /\ r.pc = "crear" /\ r.pedido = q.pedido /\ r.plan = q.plan /\ r.antes = q.antes
  BY <1>1 DEF Peticion
<1>r. r = [peticiones[p] EXCEPT !.pc = "crear"]
  OBVIOUS
<1> HIDE DEF q, filas, nuevas, r
<1>5. q.plan.activos \in SUBSET Roles
  BY <1>1 DEF Plan
<1>6. /\ Acuerdo(nuevas)
      /\ RolesActivos(nuevas) = RolesActivos(filas) \ q.plan.activos
      /\ RolesInactivos(nuevas)
           = RolesInactivos(filas) \cup (q.plan.activos \cap RolesActivos(filas))
  BY <1>1, <1>3, <1>5, InactivarFilas DEF Inactivada
<1>7. Forma(r, RolesActivos(nuevas), RolesInactivos(nuevas))
  <2>1. /\ Elementos(q.plan.nuevos)
             = Elementos(q.pedido) \ (RolesActivos(filas) \cup RolesInactivos(filas))
        /\ q.antes \cap Elementos(q.pedido) \subseteq RolesActivos(filas)
        /\ RolesActivos(filas) \subseteq q.antes \cup Elementos(q.pedido)
        /\ Elementos(q.pedido) \cap RolesInactivos(filas) = {}
        /\ q.plan.activos = RolesActivos(filas) \ Elementos(q.pedido)
    BY <1>2, <1>3, FormaEscribiendo
  <2>2. QED
    BY <1>4, <1>6, <2>1 DEF Forma, Escribiendo
<1>8. QED
  BY <1>2, <1>6, <1>7, <1>r, PasoDeFilas DEF q, nuevas

LEMMA CrearInv ==
  ASSUME Tipos, InvRoles, UnaPorUsuario', NEW p \in Peticiones, Crear(p)
  PROVE  InvRoles'
<1> DEFINE q == peticiones[p]
           filas == usuarioRol[q.u]
           nuevas == usuarioRol'[q.u]
           r == [q EXCEPT !.pc = "hecho"]
<1>1. /\ q \in Peticion /\ q.u \in Usuarios /\ q.plan \in Plan
      /\ filas \in [Roles -> Acotadas] /\ Creada(q, filas, nuevas)
      /\ Caben(filas, q.plan.nuevos)
  BY Escribe
<1>2. q.pc = "crear" /\ q.pc \in Escribiendo /\ Pasa(p, "hecho")
  BY DEF Crear, En, Escribiendo
<1>3. Acuerdo(filas) /\ Forma(q, RolesActivos(filas), RolesInactivos(filas))
  BY <1>1 DEF InvRoles, FilasDeAcuerdo, Acuerdo, FormaAhora
<1>4. r.pc = "hecho" /\ r.pedido = q.pedido
  BY <1>1 DEF Peticion
<1>r. r = [peticiones[p] EXCEPT !.pc = "hecho"]
  OBVIOUS
<1> HIDE DEF q, filas, nuevas, r
<1>5. q.plan.nuevos \in [Roles -> Nat]
  BY <1>1 DEF Plan
<1>6. /\ RolesActivos(nuevas) = RolesActivos(filas) \cup Elementos(q.plan.nuevos)
      /\ RolesInactivos(nuevas) = RolesInactivos(filas)
  BY <1>1, <1>5, CrearFilas DEF Creada
<1>7. RolesActivos(nuevas) = Elementos(q.pedido) /\ Acuerdo(nuevas)
  <2>1. RolesActivos(filas) \subseteq Elementos(q.pedido)
        /\ Elementos(q.pedido) \cap RolesInactivos(filas) = {}
        /\ Elementos(q.plan.nuevos)
             = Elementos(q.pedido) \ (RolesActivos(filas) \cup RolesInactivos(filas))
    BY <1>2, <1>3, FormaEscribiendo
  <2>2. QED
    BY <1>6, <2>1 DEF Acuerdo
<1>8. Forma(r, RolesActivos(nuevas), RolesInactivos(nuevas))
  BY <1>4, <1>7 DEF Forma, Escribiendo
<1>9. QED
  BY <1>2, <1>7, <1>8, <1>r, PasoDeFilas DEF q, nuevas

LEMMA RolesInicial == InitRoles => Tipos /\ InvRoles /\ InvCorreos
<1> SUFFICES ASSUME InitRoles PROVE Tipos /\ InvRoles /\ InvCorreos
  OBVIOUS
<1>1. \A p \in Peticiones : peticiones[p] = Libre
  BY DEF InitRoles
<1>2. Tipos
  <2>1. {f \in Filas : f.activas + f.inactivas <= 1} \subseteq Acotadas
    BY FilasSupuesto DEF Filas, Acotadas
  <2>2. usuarioRol \in [Usuarios -> [Roles -> Acotadas]]
    BY <2>1 DEF InitRoles
  <2>3. peticiones \in [Peticiones -> Peticion] /\ Completa(Libre)
    BY LibreTipada DEF InitRoles
  <2>4. QED
    BY <1>1, <2>2, <2>3 DEF InitRoles, Tipos
<1>3. FilasDeAcuerdo
  <2> SUFFICES ASSUME NEW u \in Usuarios, NEW r \in Roles,
                      usuarioRol[u][r].activas > 0, usuarioRol[u][r].inactivas > 0
               PROVE  FALSE
    BY DEF FilasDeAcuerdo, RolesActivos, RolesInactivos
  <2>1. usuarioRol[u][r] \in {f \in Filas : f.activas + f.inactivas <= 1}
    BY DEF InitRoles
  <2>2. QED
    BY <2>1, FilasSupuesto DEF Filas
<1>4. InvRoles
  <2>1. FormaAhora(Libre)
    BY LibreTipada DEF FormaAhora
  <2>2. QED
    BY <1>1, <1>3, <2>1 DEF InvRoles
<1>5. InvCorreos
  <2>1. \A p \in Peticiones : ~ En(p, "escribirCorreo")
    BY <1>1, LibreTipada DEF En
  <2>2. QED
    BY <2>1 DEF InitRoles, InvCorreos, CorreoUnico
<1>6. QED
  BY <1>2, <1>4, <1>5

LEMMA RolesSiguiente ==
  Tipos /\ InvRoles /\ [NextRoles /\ UnaPorUsuario']_varsRoles => InvRoles'
<1> SUFFICES ASSUME Tipos, InvRoles, [NextRoles /\ UnaPorUsuario']_varsRoles PROVE InvRoles'
  OBVIOUS
<1>1. CASE UNCHANGED varsRoles
  BY <1>1 DEF varsRoles, InvRoles, FilasDeAcuerdo, FormaAhora
<1>2. ASSUME NEW p \in Peticiones, Pedir(p) PROVE InvRoles'
  BY <1>2, PedirNueva, NuevaTipada, PasoQuieto DEF FormaAhora
<1>3. ASSUME NEW p \in Peticiones, Sigue(p, Libre), UNCHANGED usuarioRol PROVE InvRoles'
  BY <1>3, LibreTipada, PasoQuieto DEF FormaAhora
<1>4. ASSUME NEW p \in Peticiones, Continuar(p), UnaPorUsuario' PROVE InvRoles'
  <2>1. {"buscarCorreo", "escribirCorreo", "roles", "error", "hecho"} \subseteq Pcs \ Escribiendo
    BY DEF Pcs, Escribiendo
  <2>2. CASE \/ BuscarPorId(p) \/ BuscarUsuarioPorCorreo(p) \/ ActualizarCorreo(p)
             \/ RolesAusentes(p) \/ RolesVacios(p)
    <3>1. /\ UNCHANGED usuarioRol
          /\ \E pc \in {"buscarCorreo", "escribirCorreo", "roles", "error", "hecho"} :
               Pasa(p, pc) /\ (pc = "hecho" => peticiones[p].pedido = Vacio)
      BY <2>2 DEF BuscarPorId, BuscarUsuarioPorCorreo, ActualizarCorreo, RolesAusentes,
                  RolesVacios
    <3>2. QED
      BY <2>1, <3>1, PasaInv
  <2>3. CASE ObtenerRolesPorUsuario(p)
    <3>1. /\ peticiones[p] \in Peticion /\ peticiones[p].u \in Usuarios
          /\ peticiones[p].pedido \in [Roles -> Nat]
      BY <2>3 DEF ObtenerRolesPorUsuario, En, Tipos, Completa, Peticion
    <3>2. /\ Sigue(p, Planeada(peticiones[p], usuarioRol[peticiones[p].u]))
          /\ UNCHANGED usuarioRol
      BY <2>3 DEF ObtenerRolesPorUsuario, Planeada
    <3>3. FormaAhora(Planeada(peticiones[p], usuarioRol[peticiones[p].u]))
      BY <3>1, PlaneadaTipada DEF FormaAhora
    <3>4. QED
      BY <3>2, <3>3, PasoQuieto
  <2>4. CASE Responder(p)
    BY <1>3, <2>4 DEF Responder
  <2>5. QED
    BY <1>4, <2>2, <2>3, <2>4, ActivarInv, InactivarInv, CrearInv DEF Continuar
<1>5. ASSUME NEW p \in Peticiones, Abortar(p) PROVE InvRoles'
  BY <1>3, <1>5 DEF Abortar
<1>6. QED
  BY <1>1, <1>2, <1>4, <1>5 DEF NextRoles

-----------------------------------------------------------------------------
\* E-mails, when no two requests at once ask for the same address

LEMMA CorreosSiguiente ==
  Tipos /\ Tipos' /\ InvCorreos /\ [NextRoles /\ UnaPorCorreo']_varsRoles => InvCorreos'
<1> SUFFICES ASSUME Tipos, Tipos', InvCorreos, [NextRoles /\ UnaPorCorreo']_varsRoles
             PROVE  InvCorreos'
  OBVIOUS
<1>1. CASE UNCHANGED varsRoles
  BY <1>1 DEF varsRoles, InvCorreos, CorreoUnico, En, CorreoLibre
<1>2. ASSUME NEW p \in Peticiones, NEW r, Sigue(p, r), UNCHANGED correos,
             r.pc = "escribirCorreo" => CorreoLibre(r.u, r.correo)
      PROVE  InvCorreos'
  <2>1. peticiones'[p] = r /\ \A q \in Peticiones \ {p} : peticiones'[q] = peticiones[q]
    BY <1>2 DEF Tipos, Sigue
  <2>2. QED
    BY <1>2, <2>1 DEF InvCorreos, CorreoUnico, En, CorreoLibre
<1>3. ASSUME NEW p \in Peticiones, NEW pc \in Pcs, Pasa(p, pc), UNCHANGED correos,
             pc = "escribirCorreo" => CorreoLibre(peticiones[p].u, peticiones[p].correo)
      PROVE  InvCorreos'
  <2> DEFINE r == [peticiones[p] EXCEPT !.pc = pc]
  <2>1. r.pc = pc /\ r.u = peticiones[p].u /\ r.correo = peticiones[p].correo
    BY DEF Tipos, Peticion
  <2>2. Sigue(p, r)
    BY <1>3 DEF Pasa
  <2> HIDE DEF r
  <2>3. QED
    BY <1>2, <1>3, <2>1, <2>2
<1>4. ASSUME NEW p \in Peticiones, Pedir(p) PROVE InvCorreos'
  BY <1>2, <1>4, PedirNueva, NuevaTipada
<1>5. ASSUME NEW p \in Peticiones, Sigue(p, Libre), UNCHANGED correos PROVE InvCorreos'
  BY <1>2, <1>5, LibreTipada
<1>6. ASSUME NEW p \in Peticiones, ActualizarCorreo(p), UnaPorCorreo' PROVE InvCorreos'
  <2> DEFINE u == peticiones[p].u
             correo == peticiones[p].correo
             r == [peticiones[p] EXCEPT !.pc = "roles"]
  <2>1. u \in Usuarios /\ correo \in Correos /\ \A v \in Usuarios : correos[v] # correo
    BY <1>6 DEF ActualizarCorreo, En, Tipos, Completa, InvCorreos, CorreoLibre
  <2>2. /\ correos' = [correos EXCEPT ![u] = correo] /\ r.pc = "roles" /\ r.correo = correo
        /\ peticiones' = [peticiones EXCEPT ![p] = r]
    BY <1>6 DEF ActualizarCorreo, Pasa, Sigue, Tipos, Peticion
  <2> HIDE DEF u, correo, r
  <2>3. correos'[u] = correo /\ \A v \in Usuarios \ {u} : correos'[v] = correos[v]
    BY <2>1, <2>2 DEF Tipos
  <2>4. peticiones'[p] = r /\ \A q \in Peticiones \ {p} : peticiones'[q] = peticiones[q]
    BY <2>2 DEF Tipos
  <2>5. \A v, w \in Usuarios : correos'[v] = correos'[w] => v = w
    BY <2>1, <2>3 DEF InvCorreos, CorreoUnico
  <2>6. ASSUME NEW q \in Peticiones, peticiones'[q].pc = "escribirCorreo"
        PROVE  \A v \in Usuarios : correos'[v] # peticiones'[q].correo
    <3>1. q # p /\ peticiones'[q] = peticiones[q]
      BY <2>2, <2>4, <2>6
    <3>2. peticiones[q].correo # correo
      <4>1. correo # Nulo
        BY <2>1, NuloRolesSupuesto
      <4>2. QED
        BY <1>6, <2>2, <2>4, <2>6, <3>1, <4>1 DEF UnaPorCorreo, EnCurso, En
    <3>3. \A v \in Usuarios : correos[v] # peticiones[q].correo
      BY <2>6, <3>1 DEF InvCorreos, En, CorreoLibre
    <3>4. QED
      BY <2>3, <3>1, <3>2, <3>3
  <2>7. QED
    BY <2>5, <2>6 DEF InvCorreos, CorreoUnico, En, CorreoLibre
<1>7. ASSUME NEW p \in Peticiones, Continuar(p), UnaPorCorreo' PROVE InvCorreos'
  <2>1. CASE BuscarUsuarioPorCorreo(p)
    <3>1. {"escribirCorreo", "error"} \subseteq Pcs
      BY DEF Pcs
    <3>2. QED
      BY <1>3, <2>1, <3>1 DEF BuscarUsuarioPorCorreo
  <2>2. CASE \/ BuscarPorId(p) \/ RolesAusentes(p) \/ RolesVacios(p)
             \/ Activar(p) \/ Inactivar(p) \/ Crear(p)
    <3>1. /\ UNCHANGED correos
          /\ \E pc \in {"buscarCorreo", "roles", "error", "inactivar", "crear", "hecho"} :
               Pasa(p, pc)
      BY <2>2 DEF BuscarPorId, RolesAusentes, RolesVacios, Activar, Inactivar, Crear
    <3>2. {"buscarCorreo", "roles", "error", "inactivar", "crear", "hecho"}
            \subseteq Pcs \ {"escribirCorreo"}
      BY DEF Pcs
    <3>3. QED
      BY <1>3, <3>1, <3>2
  <2>3. CASE ObtenerRolesPorUsuario(p)
    <3>1. /\ peticiones[p] \in Peticion /\ peticiones[p].u \in Usuarios
          /\ peticiones[p].pedido \in [Roles -> Nat]
      BY <2>3 DEF ObtenerRolesPorUsuario, En, Tipos, Completa, Peticion
    <3>2. /\ Sigue(p, Planeada(peticiones[p], usuarioRol[peticiones[p].u]))
          /\ UNCHANGED correos
      BY <2>3 DEF ObtenerRolesPorUsuario, Planeada
    <3>3. Planeada(peticiones[p], usuarioRol[peticiones[p].u]).pc # "escribirCorreo"
      BY <3>1, PlaneadaTipada
    <3>4. QED
      BY <1>2, <3>2, <3>3
  <2>4. CASE Responder(p)
    BY <1>5, <2>4 DEF Responder
  <2>5. QED
    BY <1>6, <1>7, <2>1, <2>2, <2>3, <2>4 DEF Continuar
<1>8. ASSUME NEW p \in Peticiones, Abortar(p) PROVE InvCorreos'
  BY <1>5, <1>8 DEF Abortar
<1>9. QED
  BY <1>1, <1>4, <1>7, <1>8 DEF NextRoles

-----------------------------------------------------------------------------
LEMMA RolesSiempre == SpecRolesSerie => [](Tipos /\ InvRoles)
<1>1. Tipos /\ InvRoles /\ [NextRoles /\ UnaPorUsuario']_varsRoles => (Tipos /\ InvRoles)'
  <2>1. [NextRoles /\ UnaPorUsuario']_varsRoles => [NextRoles]_varsRoles
    OBVIOUS
  <2>2. QED
    BY <2>1, TiposSiguiente, RolesSiguiente
<1>2. QED
  BY RolesInicial, <1>1, PTL DEF SpecRolesSerie

LEMMA CorreosSiempre == SpecCorreosSerie => [](Tipos /\ InvCorreos)
<1>1. Tipos /\ InvCorreos /\ [NextRoles /\ UnaPorCorreo']_varsRoles => (Tipos /\ InvCorreos)'
  <2>1. [NextRoles /\ UnaPorCorreo']_varsRoles => [NextRoles]_varsRoles
    OBVIOUS
  <2>2. QED
    BY <2>1, TiposSiguiente, CorreosSiguiente
<1>2. QED
  BY RolesInicial, <1>1, PTL DEF SpecCorreosSerie

\* Rows, e-mails and requests have their types, however the requests overlap and whatever
\* fails half-way: activating and inactivating only move the rows of a role from one estado to
\* the other, so that the bound of the model that Crear keeps is kept by all three.
THEOREM TipoCorrectoRoles == SpecRoles => []TypeOKRoles
<1>1. Tipos => TypeOKRoles
  BY DEF Tipos, TypeOKRoles, Peticion, Plan, Acotadas
<1>2. SpecRoles => []Tipos
  BY RolesInicial, TiposSiguiente, PTL DEF SpecRoles
<1>3. QED
  BY <1>1, <1>2, PTL

\* An update that ends well leaves exactly the roles asked for, from whatever rows earlier
\* updates that died between two statements left (actualizarRoles, verificarUsuarioRoles),
\* while any number of requests update other accounts.
THEOREM RolesSiemprePedidos == SpecRolesSerie => []RolesPedidos
<1>1. InvRoles => RolesPedidos
  BY DEF InvRoles, FormaAhora, Forma, RolesPedidos, En
<1>2. QED
  BY <1>1, RolesSiempre, PTL

\* Between the statements of an update no role that stays is missing and none appears that
\* neither the rows nor the array name: activating comes before inactivating.
THEOREM NuncaCortes == SpecRolesSerie => []SinCortes
<1>1. InvRoles => SinCortes
  BY DEF InvRoles, FormaAhora, Forma, SinCortes, Escribiendo
<1>2. QED
  BY <1>1, RolesSiempre, PTL

\* The rows of one account and role agree on the estado, although nothing in the table
\* keeps them from being several: a failed update leaves no role ACTIVE and INACTIVE at once.
THEOREM FilasSiempreDeAcuerdo == SpecRolesSerie => []FilasDeAcuerdo
<1>1. InvRoles => FilasDeAcuerdo
  BY DEF InvRoles
<1>2. QED
  BY <1>1, RolesSiempre, PTL

\* No two accounts get the same e-mail from actualizarDatos, even when requests overlap on
\* one account, as long as no two at once ask for the same address: between the look-up and
\* the write nobody else takes it.
THEOREM CorreoSiempreUnico == SpecCorreosSerie => []CorreoUnico
<1>1. InvCorreos => CorreoUnico
  BY DEF InvCorreos
<1>2. QED
  BY <1>1, CorreosSiempre, PTL
=============================================================================
