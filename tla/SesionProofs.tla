----------------------------- MODULE SesionProofs ----------------------------
(***************************************************************************)
(* Theorems about Sesion: any accounts, browsers, ids and number of         *)
(* requests, any life of a token and rotation window, with failures and     *)
(* the cron job at any time.                                                *)
(***************************************************************************)
EXTENDS Sesion, TLAPS

-----------------------------------------------------------------------------
\* What a request may look like at each await

Peticion ==
  [pc : Pcs, b : Navegadores \cup {Nulo}, u : Usuarios \cup {Nulo},
   id : Ids \cup {Nulo}, leido : Nat, nuevo : Ids \cup {Nulo}, firmado : Nat]

ConId == {"findById", "buscarUsuarioId", "buscarSalida", "eliminar"}
Saliendo == {"buscarSalida", "eliminar", "salida"}

\* ahora is the clock.
Forma(r, ahora) ==
  /\ r.pc \notin {"libre"} \cup Saliendo => r.b \in Navegadores
  /\ r.pc # "responder" => r.nuevo = Nulo
  /\ r.pc \in ConId => r.id \in Ids
  /\ r.pc = "crear" => r.firmado <= ahora

Formas == \A p \in Peticiones : Forma(peticiones[p], reloj)

Ventana == Minimo(REFRESH_TOKEN_ROTATE_IN, REFRESH_TOKEN_EXPIRES_IN)

\* SesionConservada of one request, or of none
Conserva(r, tabla, ahora) ==
  r.pc = "responder" =>
    IF r.nuevo = Nulo THEN r.leido >= r.firmado + Ventana
    ELSE /\ tabla[r.nuevo].expiresAt >= r.firmado + Ventana
         /\ tabla[r.nuevo].viva \/ tabla[r.nuevo].expiresAt < ahora

\* A token on its way to the browser is known to nobody else: no cookie has it, no other
\* request carries it, so that no logout and no answer can take it.
Propios ==
  \A p \in Peticiones :
    En(p, "responder") /\ peticiones[p].nuevo # Nulo =>
      /\ \A b \in Navegadores : jid[b] # peticiones[p].nuevo
      /\ \A q \in Peticiones :
           /\ peticiones[q].id # peticiones[p].nuevo
           /\ q # p => peticiones[q].nuevo # peticiones[p].nuevo

InvSesion == TypeOKSesion /\ Formas /\ Propios /\ SesionConservada /\ CookieViva

LEMMA VentanaAcotada ==
  /\ Ventana \in Nat
  /\ Ventana <= REFRESH_TOKEN_ROTATE_IN /\ Ventana <= REFRESH_TOKEN_EXPIRES_IN
BY DuracionSupuesta DEF Ventana, Minimo

LEMMA ConservadaPorPeticion ==
  SesionConservada <=> \A p \in Peticiones : Conserva(peticiones[p], refreshTokens, reloj)
BY DEF SesionConservada, Conserva, Ventana, En

LEMMA ConservadaPorPeticionDespues ==
  SesionConservada' <=> \A p \in Peticiones : Conserva(peticiones'[p], refreshTokens', reloj')
BY DEF SesionConservada, Conserva, Ventana, En

LEMMA LibreTipada == Libre \in Peticion /\ Forma(Libre, reloj)
BY DEF Libre, Peticion, Pcs, Forma, ConId, Saliendo

-----------------------------------------------------------------------------
\* A step of a request that writes neither the table nor the cookie, and carries no token
\* that nobody knew
LEMMA PasoDePeticion ==
  ASSUME InvSesion, NEW p \in Peticiones, NEW r \in Peticion, Sigue(p, r),
         UNCHANGED <<refreshTokens, estado, jid, reloj, salidas>>,
         Forma(r, reloj), r.nuevo = Nulo, Conserva(r, refreshTokens, reloj),
         r.id \in {Nulo, peticiones[p].id} \cup {jid[b] : b \in Navegadores}
  PROVE  InvSesion'
<1>1. /\ peticiones' \in [Peticiones -> Peticion] /\ peticiones'[p] = r
      /\ \A q \in Peticiones \ {p} : peticiones'[q] = peticiones[q]
  BY DEF InvSesion, TypeOKSesion, Sigue, Peticion
<1>2. TypeOKSesion'
  BY <1>1 DEF InvSesion, TypeOKSesion, Peticion
<1>3. Formas'
  BY <1>1 DEF InvSesion, Formas
<1>4. Propios'
  <2> SUFFICES ASSUME NEW o \in Peticiones, peticiones'[o].pc = "responder",
                      peticiones'[o].nuevo # Nulo
               PROVE  /\ \A b \in Navegadores : jid[b] # peticiones'[o].nuevo
                      /\ \A q \in Peticiones :
                           /\ peticiones'[q].id # peticiones'[o].nuevo
                           /\ q # o => peticiones'[q].nuevo # peticiones'[o].nuevo
    BY DEF Propios, En
  <2>1. o # p /\ peticiones'[o] = peticiones[o]
    BY <1>1
  <2>2. /\ \A b \in Navegadores : jid[b] # peticiones[o].nuevo
        /\ \A q \in Peticiones :
             /\ peticiones[q].id # peticiones[o].nuevo
             /\ q # o => peticiones[q].nuevo # peticiones[o].nuevo
    BY <2>1 DEF InvSesion, Propios, En
  <2>3. QED
    BY <1>1, <2>1, <2>2
<1>5. SesionConservada'
  BY <1>1, ConservadaPorPeticion, ConservadaPorPeticionDespues DEF InvSesion
<1>6. CookieViva'
  BY DEF InvSesion, CookieViva
<1>7. QED
  BY <1>2, <1>3, <1>4, <1>5, <1>6 DEF InvSesion

LEMMA AutenticarInv ==
  ASSUME InvSesion, NEW p \in Peticiones, NEW b \in Navegadores, NEW u \in Usuarios,
         Autenticar(p, b, u)
  PROVE  InvSesion'
<1> DEFINE r == [Libre EXCEPT !.pc = "crear", !.b = b, !.u = u, !.firmado = reloj]
<1>1. reloj \in Nat
  BY RelojSesionSupuesto DEF InvSesion, TypeOKSesion
<1>2. r \in Peticion /\ r.nuevo = Nulo /\ r.id = Nulo /\ r.pc = "crear"
      /\ r.b = b /\ r.firmado = reloj
  BY <1>1 DEF Libre, Peticion, Pcs
<1>3. Conserva(r, refreshTokens, reloj) /\ Forma(r, reloj)
  BY <1>1, <1>2 DEF Conserva, Forma, ConId, Saliendo
<1>4. Sigue(p, r) /\ UNCHANGED <<refreshTokens, estado, jid, reloj, salidas>>
  BY DEF Autenticar
<1> HIDE DEF r
<1>5. QED
  BY <1>2, <1>3, <1>4, PasoDePeticion

\* POST /token, GET /logout and DELETE /:id begin with the cookie.
LEMMA PedirInv ==
  ASSUME InvSesion, NEW p \in Peticiones, NEW b \in Navegadores,
         PedirToken(p, b) \/ PedirSalida(p, b) \/ PedirEliminar(p, b)
  PROVE  InvSesion'
<1> DEFINE Pedida(r) == /\ r \in Peticion /\ Forma(r, reloj) /\ r.nuevo = Nulo
                        /\ r.id = jid[b] /\ r.pc # "responder"
<1>1. /\ jid[b] \in Ids
      /\ UNCHANGED <<refreshTokens, estado, jid, reloj, salidas>>
  BY DEF InvSesion, TypeOKSesion, PedirToken, PedirSalida, PedirEliminar
<1>2. ASSUME NEW pc \in {"findById", "buscarSalida"}
      PROVE  Pedida([Libre EXCEPT !.pc = pc, !.b = b, !.id = jid[b]])
  BY <1>1 DEF Libre, Peticion, Pcs, Forma, ConId, Saliendo
<1>3. Pedida([Libre EXCEPT !.pc = "buscarSalida", !.id = jid[b]])
  BY <1>1 DEF Libre, Peticion, Pcs, Forma, ConId, Saliendo
<1>4. PICK r : Sigue(p, r) /\ Pedida(r)
  <2>1. CASE PedirToken(p, b)
    BY <1>2, <2>1 DEF PedirToken
  <2>2. CASE PedirSalida(p, b)
    BY <1>2, <2>2 DEF PedirSalida
  <2>3. CASE PedirEliminar(p, b)
    BY <1>3, <2>3 DEF PedirEliminar
  <2>4. QED
    BY <2>1, <2>2, <2>3
<1>5. Conserva(r, refreshTokens, reloj)
  BY <1>4 DEF Conserva
<1>6. QED
  BY <1>1, <1>4, <1>5, PasoDePeticion

\* A request that ends without an answer
LEMMA TerminaInv ==
  ASSUME InvSesion, NEW p \in Peticiones, Termina(p),
         UNCHANGED <<refreshTokens, estado, jid, reloj, salidas>>
  PROVE  InvSesion'
<1>1. Sigue(p, Libre)
  BY DEF Termina
<1>2. Libre.nuevo = Nulo /\ Libre.id = Nulo /\ Conserva(Libre, refreshTokens, reloj)
  BY DEF Libre, Conserva
<1>3. QED
  BY <1>1, <1>2, LibreTipada, PasoDePeticion

LEMMA FindByIdInv ==
  ASSUME InvSesion, NEW p \in Peticiones, FindById(p)
  PROVE  InvSesion'
<1> DEFINE fila == refreshTokens[peticiones[p].id]
           r == [peticiones[p] EXCEPT !.pc = "buscarUsuarioId", !.u = fila.grantId,
                                      !.leido = fila.expiresAt]
<1>1. CASE ~ Vigente(fila)
  BY <1>1, TerminaInv DEF FindById
<1>2. CASE Vigente(fila)
  <2>1. Sigue(p, r) /\ UNCHANGED <<refreshTokens, estado, jid, reloj, salidas>>
    BY <1>2 DEF FindById
  <2>2. peticiones[p] \in Peticion /\ Forma(peticiones[p], reloj) /\ peticiones[p].pc = "findById"
    BY DEF InvSesion, TypeOKSesion, Formas, Peticion, FindById, En
  <2>3. fila \in Fila
    BY <2>2 DEF InvSesion, TypeOKSesion, Forma, ConId, Saliendo
  <2>4. r \in Peticion /\ Forma(r, reloj) /\ r.nuevo = Nulo /\ r.id = peticiones[p].id
        /\ r.pc = "buscarUsuarioId"
    BY <2>2, <2>3 DEF Peticion, Fila, Pcs, Forma, ConId, Saliendo
  <2>5. Conserva(r, refreshTokens, reloj)
    BY <2>4 DEF Conserva
  <2> HIDE DEF r
  <2>6. QED
    BY <2>1, <2>4, <2>5, PasoDePeticion
<1>3. QED
  BY <1>1, <1>2

\* Without rotation the token read has the window left; the answer carries no new one.
LEMMA BuscarUsuarioIdInv ==
  ASSUME InvSesion, NEW p \in Peticiones, BuscarUsuarioId(p)
  PROVE  InvSesion'
<1> DEFINE r == [peticiones[p] EXCEPT
                   !.pc = IF Rotar(peticiones[p].leido) THEN "crear" ELSE "responder",
                   !.firmado = reloj]
<1>1. Sigue(p, r) /\ UNCHANGED <<refreshTokens, estado, jid, reloj, salidas>>
  BY DEF BuscarUsuarioId
<1>2. /\ peticiones[p] \in Peticion /\ Forma(peticiones[p], reloj)
      /\ peticiones[p].pc = "buscarUsuarioId" /\ reloj \in Nat
  BY RelojSesionSupuesto
     DEF InvSesion, TypeOKSesion, Formas, Peticion, BuscarUsuarioId, En
<1>3. /\ r \in Peticion /\ r.nuevo = Nulo /\ r.id = peticiones[p].id
      /\ r.firmado = reloj /\ r.leido = peticiones[p].leido /\ r.leido \in Nat
      /\ r.pc = IF Rotar(peticiones[p].leido) THEN "crear" ELSE "responder"
      /\ r.b = peticiones[p].b
  BY <1>2 DEF Peticion, Pcs, Forma
<1>4. Forma(r, reloj)
  BY <1>2, <1>3 DEF Forma, ConId, Saliendo
<1>5. Conserva(r, refreshTokens, reloj)
  BY <1>2, <1>3, VentanaAcotada, DuracionSupuesta DEF Conserva, Rotar
<1> HIDE DEF r
<1>6. QED
  BY <1>1, <1>3, <1>4, <1>5, PasoDePeticion

LEMMA BuscarSalidaInv ==
  ASSUME InvSesion, NEW p \in Peticiones, BuscarSalida(p)
  PROVE  InvSesion'
<1> DEFINE r == [peticiones[p] EXCEPT
                   !.pc = IF refreshTokens[peticiones[p].id].viva THEN "eliminar" ELSE "salida"]
<1>1. Sigue(p, r) /\ UNCHANGED <<refreshTokens, estado, jid, reloj, salidas>>
  BY DEF BuscarSalida
<1>2. /\ peticiones[p] \in Peticion /\ Forma(peticiones[p], reloj)
      /\ peticiones[p].pc = "buscarSalida"
  BY DEF InvSesion, TypeOKSesion, Formas, Peticion, BuscarSalida, En
<1>3. /\ r \in Peticion /\ Forma(r, reloj) /\ r.nuevo = Nulo /\ r.id = peticiones[p].id
      /\ r.pc \in {"eliminar", "salida"}
  BY <1>2 DEF Peticion, Pcs, Forma, ConId, Saliendo
<1>4. Conserva(r, refreshTokens, reloj)
  BY <1>3 DEF Conserva
<1> HIDE DEF r
<1>5. QED
  BY <1>1, <1>3, <1>4, PasoDePeticion

-----------------------------------------------------------------------------
\* The steps that write the table or the cookie

\* The id taken is in nobody's hands, so that no other row is touched that matters.
LEMMA CreateInv ==
  ASSUME InvSesion, NEW p \in Peticiones, NEW id \in Ids, Create(p, id)
  PROVE  InvSesion'
<1> DEFINE r == [peticiones[p] EXCEPT !.pc = "responder", !.nuevo = id]
           fila == FilaNueva(peticiones[p].u)
<1>1. /\ peticiones[p] \in Peticion /\ Forma(peticiones[p], reloj)
      /\ peticiones[p].pc = "crear" /\ reloj \in Nat
  BY RelojSesionSupuesto DEF InvSesion, TypeOKSesion, Formas, Peticion, Create, En
<1>2. /\ id # Nulo
      /\ \A b \in Navegadores : jid[b] # id
      /\ \A q \in Peticiones : peticiones[q].id # id /\ peticiones[q].nuevo # id
  BY NuloSesionSupuesto DEF Create, EnUso
<1>3. /\ r \in Peticion /\ r.pc = "responder" /\ r.nuevo = id /\ r.b = peticiones[p].b
      /\ r.firmado = peticiones[p].firmado /\ r.id = peticiones[p].id
  BY <1>1 DEF Peticion, Pcs
<1>4. fila \in Fila /\ fila.viva /\ fila.expiresAt = reloj + REFRESH_TOKEN_EXPIRES_IN
  BY <1>1, DuracionSupuesta DEF FilaNueva, Fila, Peticion
<1>5. Forma(r, reloj)
  BY <1>1, <1>3 DEF Forma, ConId, Saliendo
<1> HIDE DEF r, fila
<1>6. /\ refreshTokens' = [refreshTokens EXCEPT ![id] = fila] /\ Sigue(p, r)
      /\ salidas' = salidas \ {id} /\ UNCHANGED <<estado, jid, reloj>>
  BY DEF Create, r, fila
<1>7. /\ peticiones' \in [Peticiones -> Peticion] /\ peticiones'[p] = r
      /\ \A q \in Peticiones \ {p} : peticiones'[q] = peticiones[q]
  BY <1>3, <1>6 DEF InvSesion, TypeOKSesion, Sigue, Peticion
<1>8. /\ refreshTokens' \in [Ids -> Fila] /\ refreshTokens'[id] = fila
      /\ \A x \in Ids \ {id} : refreshTokens'[x] = refreshTokens[x]
  BY <1>4, <1>6 DEF InvSesion, TypeOKSesion
<1>9. TypeOKSesion'
  BY <1>6, <1>7, <1>8 DEF InvSesion, TypeOKSesion, Peticion
<1>10. Formas'
  BY <1>5, <1>6, <1>7 DEF InvSesion, Formas
<1>11. Propios'
  <2> SUFFICES ASSUME NEW o \in Peticiones, peticiones'[o].pc = "responder",
                      peticiones'[o].nuevo # Nulo
               PROVE  /\ \A b \in Navegadores : jid[b] # peticiones'[o].nuevo
                      /\ \A q \in Peticiones :
                           /\ peticiones'[q].id # peticiones'[o].nuevo
                           /\ q # o => peticiones'[q].nuevo # peticiones'[o].nuevo
    BY <1>6 DEF Propios, En
  <2>1. CASE o = p
    BY <1>2, <1>3, <1>7, <2>1
  <2>2. CASE o # p
    <3>1. /\ \A b \in Navegadores : jid[b] # peticiones[o].nuevo
          /\ \A q \in Peticiones :
               /\ peticiones[q].id # peticiones[o].nuevo
               /\ q # o => peticiones[q].nuevo # peticiones[o].nuevo
      BY <1>7, <2>2 DEF InvSesion, Propios, En
    <3>2. QED
      BY <1>2, <1>3, <1>7, <2>2, <3>1
  <2>3. QED
    BY <2>1, <2>2
<1>12. SesionConservada'
  <2>1. ASSUME NEW q \in Peticiones PROVE Conserva(peticiones'[q], refreshTokens', reloj)
    <3>1. CASE q = p
      <4>1. peticiones[p].firmado \in Nat /\ peticiones[p].firmado <= reloj
        BY <1>1 DEF Peticion, Forma
      <4>2. Conserva(r, refreshTokens', reloj)
        BY <1>1, <1>2, <1>3, <1>4, <1>8, <4>1, VentanaAcotada, DuracionSupuesta DEF Conserva
      <4>3. QED
        BY <1>7, <3>1, <4>2
    <3>2. CASE q # p
      <4>1. Conserva(peticiones[q], refreshTokens, reloj) /\ peticiones'[q] = peticiones[q]
        BY <1>7, <3>2, ConservadaPorPeticion DEF InvSesion
      <4>2. peticiones[q].nuevo \in Ids \cup {Nulo} /\ peticiones[q].nuevo # id
        BY <1>2 DEF InvSesion, TypeOKSesion
      <4>3. QED
        BY <1>8, <4>1, <4>2 DEF Conserva
    <3>3. QED
      BY <3>1, <3>2
  <2>2. QED
    BY <1>6, <2>1, ConservadaPorPeticionDespues
<1>13. CookieViva'
  <2>1. \A b \in Navegadores : jid[b] # Nulo => jid[b] \in Ids \ {id}
    BY <1>2 DEF InvSesion, TypeOKSesion
  <2>2. QED
    BY <1>6, <1>8, <2>1 DEF InvSesion, CookieViva
<1>14. QED
  BY <1>9, <1>10, <1>11, <1>12, <1>13 DEF InvSesion

\* An answer that writes the cookie of the browser b
LEMMA RespuestaInv ==
  ASSUME InvSesion, NEW p \in Peticiones, NEW b \in Navegadores, NEW v \in Ids \cup {Nulo},
         jid' = [jid EXCEPT ![b] = v], Termina(p),
         UNCHANGED <<refreshTokens, estado, reloj, salidas>>,
         v # Nulo => refreshTokens[v].viva \/ refreshTokens[v].expiresAt < reloj
                     \/ v \in salidas,
         \A q \in Peticiones \ {p} :
           En(q, "responder") /\ peticiones[q].nuevo # Nulo => peticiones[q].nuevo # v
  PROVE  InvSesion'
<1>1. /\ peticiones' \in [Peticiones -> Peticion] /\ peticiones'[p] = Libre
      /\ \A q \in Peticiones \ {p} : peticiones'[q] = peticiones[q]
  BY LibreTipada DEF InvSesion, TypeOKSesion, Termina, Sigue, Peticion
<1>2. /\ jid' \in [Navegadores -> Ids \cup {Nulo}] /\ jid'[b] = v
      /\ \A c \in Navegadores \ {b} : jid'[c] = jid[c]
  BY DEF InvSesion, TypeOKSesion
<1>3. Libre.pc = "libre" /\ Libre.id = Nulo /\ Libre.nuevo = Nulo
  BY DEF Libre
<1>4. TypeOKSesion'
  BY <1>1, <1>2 DEF InvSesion, TypeOKSesion, Peticion
<1>5. Formas'
  BY <1>1, LibreTipada DEF InvSesion, Formas
<1>6. Propios'
  <2> SUFFICES ASSUME NEW o \in Peticiones, peticiones'[o].pc = "responder",
                      peticiones'[o].nuevo # Nulo
               PROVE  /\ \A c \in Navegadores : jid'[c] # peticiones'[o].nuevo
                      /\ \A q \in Peticiones :
                           /\ peticiones'[q].id # peticiones'[o].nuevo
                           /\ q # o => peticiones'[q].nuevo # peticiones'[o].nuevo
    BY DEF Propios, En
  <2>1. o # p /\ peticiones'[o] = peticiones[o]
    BY <1>1, <1>3
  <2>2. /\ \A c \in Navegadores : jid[c] # peticiones[o].nuevo
        /\ \A q \in Peticiones :
             /\ peticiones[q].id # peticiones[o].nuevo
             /\ q # o => peticiones[q].nuevo # peticiones[o].nuevo
    BY <2>1 DEF InvSesion, Propios, En
  <2>3. peticiones[o].nuevo # v
    BY <2>1 DEF En
  <2>4. QED
    BY <1>1, <1>2, <1>3, <2>1, <2>2, <2>3
<1>7. SesionConservada'
  <2>1. ASSUME NEW q \in Peticiones PROVE Conserva(peticiones'[q], refreshTokens, reloj)
    BY <1>1, <1>3, ConservadaPorPeticion DEF InvSesion, Conserva
  <2>2. QED
    BY <2>1, ConservadaPorPeticionDespues
<1>8. CookieViva'
  BY <1>2 DEF InvSesion, CookieViva
<1>9. QED
  BY <1>4, <1>5, <1>6, <1>7, <1>8 DEF InvSesion

LEMMA ResponderInv ==
  ASSUME InvSesion, NEW p \in Peticiones, Responder(p)
  PROVE  InvSesion'
<1> DEFINE r == peticiones[p]
<1>1. r \in Peticion /\ Forma(r, reloj) /\ r.pc = "responder"
  BY DEF InvSesion, TypeOKSesion, Formas, Peticion, Responder, En
<1>2. r.b \in Navegadores /\ r.nuevo \in Ids \cup {Nulo}
  BY <1>1 DEF Forma, Peticion, Saliendo
<1>3. CASE r.nuevo = Nulo
  BY <1>3, TerminaInv DEF Responder
<1>4. CASE r.nuevo # Nulo
  <2>1. jid' = [jid EXCEPT ![r.b] = r.nuevo] /\ Termina(p)
        /\ UNCHANGED <<refreshTokens, estado, reloj, salidas>>
    BY <1>4 DEF Responder
  <2>2. refreshTokens[r.nuevo].viva \/ refreshTokens[r.nuevo].expiresAt < reloj
    BY <1>1, <1>4, ConservadaPorPeticion DEF InvSesion, Conserva
  <2>3. \A q \in Peticiones \ {p} : peticiones[q].nuevo # r.nuevo
    BY <1>1, <1>4 DEF InvSesion, Propios, En
  <2> HIDE DEF r
  <2>4. QED
    BY <1>2, <2>1, <2>2, <2>3, RespuestaInv
<1>5. QED
  BY <1>3, <1>4

LEMMA ResponderSalidaInv ==
  ASSUME InvSesion, NEW p \in Peticiones, ResponderSalida(p)
  PROVE  InvSesion'
<1> DEFINE b == peticiones[p].b
<1>1. /\ jid' = [c \in Navegadores |-> IF c = b THEN Nulo ELSE jid[c]] /\ Termina(p)
      /\ UNCHANGED <<refreshTokens, estado, reloj, salidas>>
  BY DEF ResponderSalida
<1>2. jid \in [Navegadores -> Ids \cup {Nulo}] /\ b \in Navegadores \cup {Nulo}
  BY DEF InvSesion, TypeOKSesion
<1> HIDE DEF b
<1>3. CASE b = Nulo
  <2>1. jid' = jid
    BY <1>1, <1>2, <1>3, NuloSesionSupuesto
  <2>2. QED
    BY <1>1, <2>1, TerminaInv
<1>4. CASE b \in Navegadores
  <2>1. jid' = [jid EXCEPT ![b] = Nulo]
    BY <1>1, <1>2, <1>4
  <2>2. QED
    BY <1>1, <1>4, <2>1, RespuestaInv
<1>5. QED
  BY <1>2, <1>3, <1>4

\* A logout deletes a token that a cookie had, never one on its way.
LEMMA EliminarInv ==
  ASSUME InvSesion, NEW p \in Peticiones, Eliminar(p)
  PROVE  InvSesion'
<1> DEFINE r == [peticiones[p] EXCEPT !.pc = "salida"]
           id == peticiones[p].id
<1>1. peticiones[p] \in Peticion /\ Forma(peticiones[p], reloj) /\ peticiones[p].pc = "eliminar"
  BY DEF InvSesion, TypeOKSesion, Formas, Peticion, Eliminar, En
<1>2. /\ r \in Peticion /\ Forma(r, reloj) /\ r.nuevo = Nulo /\ r.id = id /\ r.pc = "salida"
      /\ id \in Ids
  BY <1>1 DEF Peticion, Pcs, Forma, ConId, Saliendo
<1> HIDE DEF r, id
<1>3. /\ refreshTokens' = [refreshTokens EXCEPT ![id].viva = FALSE] /\ Sigue(p, r)
      /\ salidas' = salidas \cup {id} /\ UNCHANGED <<estado, jid, reloj>>
  BY DEF Eliminar, r, id
<1>4. /\ peticiones' \in [Peticiones -> Peticion] /\ peticiones'[p] = r
      /\ \A q \in Peticiones \ {p} : peticiones'[q] = peticiones[q]
  BY <1>2, <1>3 DEF InvSesion, TypeOKSesion, Sigue, Peticion
<1>5. /\ refreshTokens' \in [Ids -> Fila]
      /\ \A x \in Ids \ {id} : refreshTokens'[x] = refreshTokens[x]
  <2>1. refreshTokens \in [Ids -> Fila]
    BY DEF InvSesion, TypeOKSesion
  <2>2. [refreshTokens[id] EXCEPT !.viva = FALSE] \in Fila
    BY <1>2, <2>1 DEF Fila
  <2>3. QED
    BY <1>2, <1>3, <2>1, <2>2
<1>6. TypeOKSesion'
  BY <1>2, <1>3, <1>4, <1>5 DEF InvSesion, TypeOKSesion, Peticion
<1>7. Formas'
  BY <1>2, <1>3, <1>4 DEF InvSesion, Formas
<1>8. ASSUME NEW o \in Peticiones, peticiones'[o].pc = "responder",
             peticiones'[o].nuevo # Nulo
      PROVE  /\ o # p /\ peticiones'[o] = peticiones[o]
             /\ \A b \in Navegadores : jid[b] # peticiones[o].nuevo
             /\ \A q \in Peticiones :
                  /\ peticiones[q].id # peticiones[o].nuevo
                  /\ q # o => peticiones[q].nuevo # peticiones[o].nuevo
  BY <1>2, <1>4, <1>8 DEF InvSesion, Propios, En
<1>9. Propios'
  <2> SUFFICES ASSUME NEW o \in Peticiones, peticiones'[o].pc = "responder",
                      peticiones'[o].nuevo # Nulo
               PROVE  /\ \A b \in Navegadores : jid[b] # peticiones'[o].nuevo
                      /\ \A q \in Peticiones :
                           /\ peticiones'[q].id # peticiones'[o].nuevo
                           /\ q # o => peticiones'[q].nuevo # peticiones'[o].nuevo
    BY <1>3 DEF Propios, En
  <2>1. QED
    BY <1>2, <1>4, <1>8 DEF id
<1>10. SesionConservada'
  <2>1. ASSUME NEW q \in Peticiones PROVE Conserva(peticiones'[q], refreshTokens', reloj)
    <3>1. CASE peticiones'[q].pc # "responder"
      BY <3>1 DEF Conserva
    <3>2. CASE peticiones'[q].pc = "responder"
      <4>1. peticiones'[q] = peticiones[q] /\ Conserva(peticiones[q], refreshTokens, reloj)
        BY <1>2, <1>4, <3>2, ConservadaPorPeticion DEF InvSesion
      <4>2. CASE peticiones[q].nuevo = Nulo
        BY <4>1, <4>2 DEF Conserva
      <4>3. CASE peticiones[q].nuevo # Nulo
        <5>1. peticiones[q].nuevo \in Ids \ {id}
          BY <1>8, <3>2, <4>1, <4>3 DEF InvSesion, TypeOKSesion, id
        <5>2. QED
          BY <1>5, <4>1, <5>1 DEF Conserva
      <4>4. QED
        BY <4>2, <4>3
    <3>3. QED
      BY <3>1, <3>2
  <2>2. QED
    BY <1>3, <2>1, ConservadaPorPeticionDespues
<1>11. CookieViva'
  <2>1. ASSUME NEW b \in Navegadores, jid[b] # Nulo
        PROVE  \/ refreshTokens'[jid[b]].viva
               \/ refreshTokens'[jid[b]].expiresAt < reloj
               \/ jid[b] \in salidas'
    <3>1. CASE jid[b] = id
      BY <1>3, <3>1
    <3>2. CASE jid[b] # id
      BY <1>3, <1>5, <2>1, <3>2 DEF InvSesion, TypeOKSesion, CookieViva
    <3>3. QED
      BY <3>1, <3>2
  <2>2. QED
    BY <1>3, <2>1 DEF CookieViva
<1>12. QED
  BY <1>6, <1>7, <1>9, <1>10, <1>11 DEF InvSesion

\* The cron job only takes what has expired.
LEMMA EliminarCaducosInv ==
  ASSUME InvSesion, EliminarCaducos
  PROVE  InvSesion'
<1>1. /\ refreshTokens' \in [Ids -> Fila]
      /\ \A x \in Ids : /\ refreshTokens'[x].expiresAt = refreshTokens[x].expiresAt
                        /\ refreshTokens'[x].viva = refreshTokens[x].viva
                           \/ refreshTokens[x].expiresAt < reloj
  <2>1. refreshTokens \in [Ids -> Fila]
    BY DEF InvSesion, TypeOKSesion
  <2>2. refreshTokens' = [id \in Ids |->
          IF Caduco(refreshTokens[id])
          THEN [refreshTokens[id] EXCEPT !.viva = FALSE] ELSE refreshTokens[id]]
    BY DEF EliminarCaducos
  <2>3. ASSUME NEW x \in Ids
        PROVE  /\ refreshTokens'[x] \in Fila
               /\ refreshTokens'[x].expiresAt = refreshTokens[x].expiresAt
               /\ refreshTokens'[x].viva = refreshTokens[x].viva
                  \/ refreshTokens[x].expiresAt < reloj
    <3>1. refreshTokens[x] \in Fila
      BY <2>1
    <3>2. CASE Caduco(refreshTokens[x])
      BY <2>2, <3>1, <3>2 DEF Fila, Caduco
    <3>3. CASE ~ Caduco(refreshTokens[x])
      BY <2>2, <3>1, <3>3
    <3>4. QED
      BY <3>2, <3>3
  <2>4. QED
    BY <2>2, <2>3
<1>2. UNCHANGED <<estado, jid, peticiones, reloj, salidas>>
  BY DEF EliminarCaducos
<1>3. TypeOKSesion' /\ Formas' /\ Propios'
  BY <1>1, <1>2 DEF InvSesion, TypeOKSesion, Formas, Propios, En
<1>4. SesionConservada'
  <2>1. ASSUME NEW q \in Peticiones PROVE Conserva(peticiones[q], refreshTokens', reloj)
    <3>1. Conserva(peticiones[q], refreshTokens, reloj)
          /\ peticiones[q].nuevo \in Ids \cup {Nulo}
      BY ConservadaPorPeticion DEF InvSesion, TypeOKSesion
    <3>2. QED
      BY <1>1, <3>1 DEF Conserva
  <2>2. QED
    BY <1>2, <2>1, ConservadaPorPeticionDespues
<1>5. CookieViva'
  <2>1. \A b \in Navegadores : jid[b] # Nulo => jid[b] \in Ids
    BY DEF InvSesion, TypeOKSesion
  <2>2. QED
    BY <1>1, <1>2, <2>1 DEF InvSesion, CookieViva
<1>6. QED
  BY <1>3, <1>4, <1>5 DEF InvSesion

LEMMA CambiarEstadoInv ==
  ASSUME InvSesion, NEW u \in Usuarios, CambiarEstado(u)
  PROVE  InvSesion'
<1>1. UNCHANGED <<refreshTokens, jid, peticiones, reloj, salidas>>
  BY DEF CambiarEstado
<1>2. TypeOKSesion'
  BY <1>1 DEF InvSesion, TypeOKSesion, CambiarEstado
<1>3. QED
  BY <1>1, <1>2 DEF InvSesion, Formas, Propios, SesionConservada, CookieViva, En

\* What has expired stays so.
LEMMA TickInv ==
  ASSUME InvSesion, Tick
  PROVE  InvSesion'
<1>1. /\ reloj \in Nat /\ reloj' = reloj + 1 /\ reloj' \in 0..MaxReloj
      /\ UNCHANGED <<refreshTokens, estado, jid, peticiones, salidas>>
  BY RelojSesionSupuesto DEF InvSesion, TypeOKSesion, Tick
<1>2. TypeOKSesion' /\ Propios'
  BY <1>1 DEF InvSesion, TypeOKSesion, Propios, En
<1>3. Formas'
  <2>1. \A p \in Peticiones : peticiones[p].firmado \in Nat /\ Forma(peticiones[p], reloj)
    BY DEF InvSesion, TypeOKSesion, Formas
  <2>2. QED
    BY <1>1, <2>1 DEF Formas, Forma
<1>4. \A x \in Ids : refreshTokens[x].expiresAt \in Nat
  BY DEF InvSesion, TypeOKSesion, Fila
<1>5. SesionConservada'
  <2>1. ASSUME NEW q \in Peticiones PROVE Conserva(peticiones[q], refreshTokens, reloj')
    <3>1. Conserva(peticiones[q], refreshTokens, reloj)
          /\ peticiones[q].nuevo \in Ids \cup {Nulo}
      BY ConservadaPorPeticion DEF InvSesion, TypeOKSesion
    <3>2. QED
      BY <1>1, <1>4, <3>1 DEF Conserva
  <2>2. QED
    BY <1>1, <2>1, ConservadaPorPeticionDespues
<1>6. CookieViva'
  <2>1. \A b \in Navegadores : jid[b] # Nulo => jid[b] \in Ids
    BY DEF InvSesion, TypeOKSesion
  <2>2. QED
    BY <1>1, <1>4, <2>1 DEF InvSesion, CookieViva
<1>7. QED
  BY <1>2, <1>3, <1>5, <1>6 DEF InvSesion

-----------------------------------------------------------------------------
LEMMA SesionInicial == InitSesion => InvSesion
<1> SUFFICES ASSUME InitSesion PROVE InvSesion
  OBVIOUS
<1>1. \A p \in Peticiones : peticiones[p] = Libre
  BY DEF InitSesion
<1>2. TypeOKSesion
  BY RelojSesionSupuesto, LibreTipada DEF InitSesion, TypeOKSesion, Peticion, SinFila, Fila
<1>3. Formas
  BY <1>1, LibreTipada DEF Formas
<1>4. Propios /\ SesionConservada
  BY <1>1 DEF Propios, SesionConservada, En, Libre
<1>5. CookieViva
  BY DEF InitSesion, CookieViva
<1>6. QED
  BY <1>2, <1>3, <1>4, <1>5 DEF InvSesion

LEMMA SesionSiguiente == InvSesion /\ [NextSesion]_varsSesion => InvSesion'
<1> SUFFICES ASSUME InvSesion, [NextSesion]_varsSesion PROVE InvSesion'
  OBVIOUS
<1>1. CASE UNCHANGED varsSesion
  BY <1>1 DEF varsSesion, InvSesion, TypeOKSesion, Formas, Propios, SesionConservada,
              CookieViva, En
<1>2. CASE Tick
  BY <1>2, TickInv
<1>3. CASE EliminarCaducos
  BY <1>3, EliminarCaducosInv
<1>4. ASSUME NEW u \in Usuarios, CambiarEstado(u) PROVE InvSesion'
  BY <1>4, CambiarEstadoInv
<1>5. ASSUME NEW p \in Peticiones, Pedir(p) PROVE InvSesion'
  BY <1>5, AutenticarInv, PedirInv DEF Pedir
<1>6. ASSUME NEW p \in Peticiones, Continuar(p) PROVE InvSesion'
  BY <1>6, CreateInv, ResponderInv, FindByIdInv, BuscarUsuarioIdInv, BuscarSalidaInv,
     EliminarInv, ResponderSalidaInv DEF Continuar
<1>7. ASSUME NEW p \in Peticiones, Abortar(p) PROVE InvSesion'
  BY <1>7, TerminaInv DEF Abortar
<1>8. QED
  BY <1>1, <1>2, <1>3, <1>4, <1>5, <1>6, <1>7 DEF NextSesion

LEMMA SesionSiempre == SpecSesion => []InvSesion
BY SesionInicial, SesionSiguiente, PTL DEF SpecSesion

\* Every row, cookie and request has its type, however the requests of the tabs, the cron
\* job, the clock and the failures interleave.
THEOREM TipoCorrectoSesion == SpecSesion => []TypeOKSesion
<1>1. InvSesion => TypeOKSesion
  BY DEF InvSesion
<1>2. QED
  BY <1>1, SesionSiempre, PTL

\* Whoever is answered by POST /token holds a token that lasts the rotation window, or a
\* whole life, from the moment the answer was computed: createAccessToken rotates in time,
\* for any window, life and number of tabs.
THEOREM SesionSiempreConservada == SpecSesion => []SesionConservada
<1>1. InvSesion => SesionConservada
  BY DEF InvSesion
<1>2. QED
  BY <1>1, SesionSiempre, PTL

\* A cookie names a token that exists, unless it expired or somebody asked to delete
\* that very token: neither eliminarCaducos nor a rotation leaves a browser with a dead cookie.
THEOREM CookieSiempreViva == SpecSesion => []CookieViva
<1>1. InvSesion => CookieViva
  BY DEF InvSesion
<1>2. QED
  BY <1>1, SesionSiempre, PTL
=============================================================================
