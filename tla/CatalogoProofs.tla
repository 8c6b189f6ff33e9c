---------------------------- MODULE CatalogoProofs ---------------------------
(***************************************************************************)
(* Theorems about the catalogues.  Catalogo: any number of administrators   *)
(* at work on one of the four tables at the same time, with any keys and    *)
(* number of rows, with statements that fail and answers that are lost.     *)
(* Recorrido: pages of any size of a table that grows in any order, for any *)
(* number of rows.                                                          *)
(***************************************************************************)
EXTENDS Catalogo, Recorrido, FiniteSetTheorems, TLAPS

-----------------------------------------------------------------------------
\* What a request may look like at each await

Codigos == {0, 200, 201, 404, 409, 412, 500}
Escritura == [clave : Claves \cup {Nulo}, estado : Estados \cup {Nulo}, valido : BOOLEAN]
Peticion ==
  [pc : Pcs, codigo : Codigos, ruta : Rutas \cup {Nulo}, id : 1..MaxFilas \cup {Nulo},
   nuevo : 1..MaxFilas \cup {Nulo}, cuerpo : Escritura]

DeInsertar == {"buscarCodigo", "insertar", "confirmar"}
DeCambiar == {"buscarPorId", "actualizar"}

\* t is the table, s the sequence and D the ids of the rows.
Forma(r, t, s, D) ==
  /\ r.pc = "libre" => r = Libre
  /\ r.pc = "fin" => r.codigo # 0 /\ r.ruta = Nulo /\ r.id = Nulo /\ r.cuerpo = Libre.cuerpo
  /\ r.pc \notin {"libre", "fin"} => r.codigo = 0 /\ r.ruta # Nulo
  /\ r.pc \in DeInsertar => r.ruta = "crear" /\ r.id = Nulo /\ r.cuerpo.clave \in Claves
  /\ r.pc = "buscarCodigo" => t = "parametro"
  /\ r.pc = "confirmar" => r.cuerpo.valido /\ r.nuevo \in 1..s
  /\ r.pc \in DeCambiar => r.ruta # "crear" /\ r.id \in 1..MaxFilas
  /\ r.pc = "actualizar" => r.id \in D \/ (t = "modulo" /\ r.ruta = "actualizar")
  /\ r.pc = "eliminar" => t = "modulo" /\ r.ruta = "eliminar"

TiposTablas ==
  /\ tabla \in Tablas /\ secuencia \in 0..MaxFilas
  /\ DOMAIN filas \subseteq 1..secuencia /\ filas \in [DOMAIN filas -> Filas]

InvTipos ==
  /\ TiposTablas
  /\ peticiones \in [Peticiones -> Peticion]
  /\ \A g \in Peticiones : Forma(peticiones[g], tabla, secuencia, DOMAIN filas)

\* What each thing thrown is answered with (getStatus of each exception, 500 for the rest)
LEMMA CodigosDeAtrapar ==
  /\ Atrapar(Lanza("Conflict"), TRUE).codigo = 409
  /\ Atrapar(Lanza("NotFound"), TRUE).codigo = 404
  /\ Atrapar(Lanza("PreconditionFailed"), TRUE).codigo = 412
  /\ Atrapar(Otra("Error"), TRUE).codigo = 500
<1>1. /\ Lanza("Conflict").clase = "Conflict"
      /\ Lanza("NotFound").clase = "NotFound"
      /\ Lanza("PreconditionFailed").clase = "PreconditionFailed"
      /\ Otra("Error").clase = "Error"
  BY DEF Lanza, Http, Otra
<1>2. /\ {"Conflict", "NotFound", "PreconditionFailed"} \subseteq DOMAIN Status
      /\ "Error" \notin DOMAIN Status
  BY DEF Status
<1>3. ExceptionError(Lanza("Conflict")).codigo = 409
  BY <1>1, <1>2 DEF ExceptionError, ErrorDe, Status
<1>4. ExceptionError(Lanza("NotFound")).codigo = 404
  BY <1>1, <1>2 DEF ExceptionError, ErrorDe, Status
<1>5. ExceptionError(Lanza("PreconditionFailed")).codigo = 412
  BY <1>1, <1>2 DEF ExceptionError, ErrorDe, Status
<1>6. ExceptionError(Otra("Error")).codigo = 500
  BY <1>1, <1>2 DEF ExceptionError, ErrorDe
<1>7. QED
  BY <1>3, <1>4, <1>5, <1>6 DEF Atrapar

\* A request at the end is typed whatever the tables.
Fin(c) == [Libre EXCEPT !.pc = "fin", !.codigo = c]

LEMMA FinTipado ==
  ASSUME NEW c \in Codigos, c # 0, NEW t, NEW s, NEW D
  PROVE  Fin(c) \in Peticion /\ Forma(Fin(c), t, s, D)
BY NuloSupuesto DEF Fin, Libre, Nueva, Cuerpo, Peticion, Escritura, Pcs, Forma, DeInsertar, DeCambiar

LEMMA LibreTipado ==
  ASSUME NEW t, NEW s, NEW D
  PROVE  Libre \in Peticion /\ Forma(Libre, t, s, D)
BY NuloSupuesto DEF Libre, Nueva, Cuerpo, Peticion, Escritura, Pcs, Codigos, Forma, DeInsertar,
                    DeCambiar

\* The sequence and the rows only grow, so that the other requests keep their form.
LEMMA PasoTipado ==
  ASSUME InvTipos, NEW g \in Peticiones, NEW r \in Peticion, Sigue(g, r), TiposTablas',
         tabla' = tabla, secuencia <= secuencia', DOMAIN filas \subseteq DOMAIN filas',
         Forma(r, tabla, secuencia', DOMAIN filas')
  PROVE  InvTipos'
<1>1. peticiones' \in [Peticiones -> Peticion] /\ peticiones'[g] = r
  BY DEF InvTipos, Sigue
<1>2. ASSUME NEW h \in Peticiones
      PROVE  Forma(peticiones'[h], tabla, secuencia', DOMAIN filas')
  <2>1. CASE h = g
    BY <1>1, <2>1
  <2>2. CASE h # g
    <3>1. peticiones'[h] = peticiones[h]
      BY <2>2 DEF InvTipos, Sigue
    <3> DEFINE q == peticiones[h]
    <3>2. Forma(q, tabla, secuencia, DOMAIN filas)
      BY DEF InvTipos
    <3>3. secuencia \in Nat /\ secuencia' \in Nat
      BY DEF InvTipos, TiposTablas
    <3> HIDE DEF q
    <3>4. Forma(q, tabla, secuencia', DOMAIN filas')
      BY <3>2, <3>3 DEF Forma
    <3>5. QED
      BY <3>1, <3>4 DEF q
  <2>3. QED
    BY <2>1, <2>2
<1>3. QED
  BY <1>1, <1>2 DEF InvTipos

\* A step that leaves the tables alone.
LEMMA PasoQuieto ==
  ASSUME InvTipos, NEW g \in Peticiones, NEW r \in Peticion, Sigue(g, r),
         UNCHANGED <<tabla, filas>>, secuencia' \in {secuencia, secuencia + 1},
         secuencia' <= MaxFilas, Forma(r, tabla, secuencia', DOMAIN filas)
  PROVE  InvTipos'
<1>1. secuencia \in 0..MaxFilas /\ secuencia <= secuencia' /\ secuencia' \in 0..MaxFilas
  BY MaxFilasSupuesto DEF InvTipos, TiposTablas
<1>2. TiposTablas'
  BY <1>1 DEF InvTipos, TiposTablas
<1>3. QED
  BY <1>1, <1>2, PasoTipado

\* The answer to a request that changed nothing.
LEMMA ContestaTipada ==
  ASSUME InvTipos, NEW g \in Peticiones, NEW c \in Codigos, c # 0, Contesta(g, c),
         UNCHANGED <<tabla, filas>>, secuencia' \in {secuencia, secuencia + 1},
         secuencia' <= MaxFilas
  PROVE  InvTipos'
<1>1. Fin(c) \in Peticion /\ Forma(Fin(c), tabla, secuencia', DOMAIN filas)
  BY FinTipado
<1>2. Sigue(g, Fin(c))
  BY DEF Contesta, Fin
<1>3. QED
  BY <1>1, <1>2, PasoQuieto

LEMMA LanzarContesta ==
  ASSUME NEW g \in Peticiones
  PROVE  /\ Lanzar(g, Lanza("Conflict")) <=> Contesta(g, 409)
         /\ Lanzar(g, Lanza("NotFound")) <=> Contesta(g, 404)
         /\ Lanzar(g, Lanza("PreconditionFailed")) <=> Contesta(g, 412)
         /\ Lanzar(g, Otra("Error")) <=> Contesta(g, 500)
BY CodigosDeAtrapar DEF Lanzar

-----------------------------------------------------------------------------
\* Types

\* The routes of the four services: who inserts, who looks for the row first.
LEMMA ServicioTipado ==
  ASSUME NEW t \in Tablas, NEW ruta \in Controlador(t)
  PROVE  /\ ruta \in Rutas
         /\ Servicio(t)[ruta].await \in Pcs \ {"libre", "fin", "confirmar"}
         /\ Servicio(t)[ruta].cuerpos \subseteq Escritura
         /\ Servicio(t)[ruta].await \in DeInsertar =>
              ruta = "crear" /\ \A c \in Servicio(t)[ruta].cuerpos : c.clave \in Claves
         /\ Servicio(t)[ruta].await = "buscarCodigo" => t = "parametro"
         /\ Servicio(t)[ruta].await \in DeCambiar => ruta # "crear"
         /\ Servicio(t)[ruta].await = "actualizar" => t = "modulo" /\ ruta = "actualizar"
         /\ Servicio(t)[ruta].await = "eliminar" => t = "modulo" /\ ruta = "eliminar"
<1>1. /\ DeCrear \subseteq Escritura /\ \A c \in DeCrear : c.clave \in Claves
      /\ DeActualizar \subseteq Escritura
      /\ \A e \in Estados \cup {Nulo} : SoloEstado(e) \subseteq Escritura
  <2>1. DeCrear \subseteq Escritura /\ \A c \in DeCrear : c.clave \in Claves
    BY DEF DeCrear, Escritura
  <2>2. DeActualizar \subseteq Escritura
    BY DEF DeActualizar, Escritura, Estados
  <2>3. \A e \in Estados \cup {Nulo} : SoloEstado(e) \subseteq Escritura
    BY DEF SoloEstado, Cuerpo, Escritura
  <2>4. QED
    BY <2>1, <2>2, <2>3
<1>2. CASE t = "parametro"
  BY <1>1, <1>2 DEF Controlador, Servicio, ParametroController, ParametroService, Metodo, Rutas,
                    Pcs, DeInsertar, DeCambiar, Estados
<1>3. CASE t = "rol"
  BY <1>1, <1>3 DEF Controlador, Servicio, RolController, RolService, Metodo, Rutas,
                    Pcs, DeInsertar, DeCambiar, Estados
<1>4. CASE t = "modulo"
  BY <1>1, <1>4 DEF Controlador, Servicio, ModuloController, ModuloService, Metodo, Rutas,
                    Pcs, DeInsertar, DeCambiar, Estados
<1>5. CASE t = "pelicula"
  BY <1>1, <1>5 DEF Controlador, Servicio, PeliculaController, PeliculaService, Metodo, Rutas,
                    Pcs, DeInsertar, DeCambiar, Estados
<1>6. QED
  BY <1>2, <1>3, <1>4, <1>5 DEF Tablas

\* A request with its first await.
LEMMA NuevaTipada ==
  ASSUME NEW await \in Pcs, NEW ruta \in Rutas, NEW id \in 1..MaxFilas \cup {Nulo},
         NEW cuerpo \in Escritura, NEW r, r = Nueva(await, ruta, id, cuerpo)
  PROVE  /\ r \in Peticion /\ r.pc = await /\ r.ruta = ruta /\ r.id = id
         /\ r.cuerpo = cuerpo /\ r.codigo = 0
BY DEF Nueva, Peticion, Codigos

\* What the arrival of a request is.
LEMMA LlegarDetalle ==
  ASSUME InvTipos, NEW g \in Peticiones, Llegar(g)
  PROVE  \E r \in Peticion :
           /\ Sigue(g, r) /\ r.ruta \in Rutas /\ r.codigo = 0
           /\ r.pc \notin {"libre", "fin", "confirmar"}
           /\ Forma(r, tabla, secuencia, DOMAIN filas)
<1>1. PICK ruta \in Controlador(tabla) :
        \E cuerpo \in Servicio(tabla)[ruta].cuerpos,
           id \in IF Servicio(tabla)[ruta].await \in {"buscarPorId", "actualizar"}
                  THEN 1..MaxFilas ELSE {Nulo} :
          Sigue(g, Nueva(Servicio(tabla)[ruta].await, ruta, id, cuerpo))
  BY DEF Llegar
<1>2. PICK cuerpo \in Servicio(tabla)[ruta].cuerpos,
           id \in IF Servicio(tabla)[ruta].await \in {"buscarPorId", "actualizar"}
                  THEN 1..MaxFilas ELSE {Nulo} :
          Sigue(g, Nueva(Servicio(tabla)[ruta].await, ruta, id, cuerpo))
  BY <1>1
<1> DEFINE await == Servicio(tabla)[ruta].await
           r == Nueva(await, ruta, id, cuerpo)
<1>3. tabla \in Tablas
  BY DEF InvTipos, TiposTablas
<1>4. /\ ruta \in Rutas /\ await \in Pcs \ {"libre", "fin", "confirmar"}
      /\ cuerpo \in Escritura
      /\ await \in DeInsertar => ruta = "crear" /\ cuerpo.clave \in Claves
      /\ await = "buscarCodigo" => tabla = "parametro"
      /\ await \in DeCambiar => ruta # "crear"
      /\ await = "actualizar" => tabla = "modulo" /\ ruta = "actualizar"
      /\ await = "eliminar" => tabla = "modulo" /\ ruta = "eliminar"
  BY <1>3, ServicioTipado
<1>5. id \in 1..MaxFilas \cup {Nulo} /\ (await \in DeCambiar => id \in 1..MaxFilas)
      /\ (await \in DeInsertar => id = Nulo)
  BY <1>2 DEF DeCambiar, DeInsertar
<1>6. Sigue(g, r)
  BY <1>2
<1> HIDE DEF await
<1>7. /\ r.pc = await /\ r.ruta = ruta /\ r.id = id /\ r.cuerpo = cuerpo /\ r.codigo = 0
      /\ r \in Peticion
  BY <1>4, <1>5, NuevaTipada
<1>8. ruta # Nulo
  BY <1>4, NuloSupuesto
<1> HIDE DEF r
<1>9. Forma(r, tabla, secuencia, DOMAIN filas)
  BY <1>4, <1>5, <1>7, <1>8 DEF Forma
<1>10. QED
  BY <1>4, <1>6, <1>7, <1>9

\* The same request at its next await.
LEMMA PasaTipada ==
  ASSUME InvTipos, NEW g \in Peticiones, NEW pc \in Pcs, Pasa(g, pc),
         UNCHANGED <<tabla, filas, secuencia>>,
         \/ En(g, "buscarCodigo") /\ pc = "insertar"
         \/ En(g, "buscarPorId") /\ pc = "actualizar" /\ peticiones[g].id \in DOMAIN filas
  PROVE  InvTipos'
<1> DEFINE r == [peticiones[g] EXCEPT !.pc = pc]
<1>1. peticiones[g] \in Peticion /\ Forma(peticiones[g], tabla, secuencia, DOMAIN filas)
  BY DEF InvTipos
<1>2. /\ r.pc = pc /\ r.codigo = peticiones[g].codigo /\ r.ruta = peticiones[g].ruta
      /\ r.id = peticiones[g].id /\ r.cuerpo = peticiones[g].cuerpo /\ r \in Peticion
  BY <1>1 DEF Peticion
<1>3. Sigue(g, r)
  BY DEF Pasa
<1>4. secuencia' = secuencia /\ secuencia <= MaxFilas
  BY MaxFilasSupuesto DEF InvTipos, TiposTablas
<1> HIDE DEF r
<1>5. Forma(r, tabla, secuencia', DOMAIN filas)
  BY <1>1, <1>2, <1>4 DEF Forma, En, DeInsertar, DeCambiar
<1>6. QED
  BY <1>2, <1>3, <1>4, <1>5, PasoQuieto

\* An INSERT that its transaction has yet to commit.
Insertada(g) == [peticiones[g] EXCEPT !.pc = "confirmar", !.nuevo = secuencia + 1]

LEMMA InsertadaTipada ==
  ASSUME InvTipos, NEW g \in Peticiones, En(g, "insertar"), secuencia < MaxFilas,
         NEW r, r = Insertada(g)
  PROVE  /\ r \in Peticion /\ r.pc = "confirmar" /\ r.nuevo = secuencia + 1
         /\ r.codigo = peticiones[g].codigo /\ r.ruta = peticiones[g].ruta
         /\ r.id = peticiones[g].id /\ r.cuerpo = peticiones[g].cuerpo
<1> DEFINE n == secuencia + 1
           q == peticiones[g]
<1>1. n \in 1..MaxFilas
  BY MaxFilasSupuesto DEF InvTipos, TiposTablas
<1>2. q \in Peticion
  BY DEF InvTipos
<1>3. r = [q EXCEPT !.pc = "confirmar", !.nuevo = n]
  BY DEF Insertada
<1> HIDE DEF n, q
<1>4. /\ r \in Peticion /\ r.pc = "confirmar" /\ r.nuevo = n /\ r.codigo = q.codigo
      /\ r.ruta = q.ruta /\ r.id = q.id /\ r.cuerpo = q.cuerpo
  BY <1>1, <1>2, <1>3 DEF Peticion, Pcs
<1>5. QED
  BY <1>4 DEF n, q

LEMMA InsertarTipado ==
  ASSUME InvTipos, NEW g \in Peticiones, Insertar(g)
  PROVE  InvTipos'
<1>1. /\ En(g, "insertar") /\ secuencia < MaxFilas /\ secuencia' = secuencia + 1
      /\ UNCHANGED <<tabla, filas>>
  BY DEF Insertar
<1>2. secuencia \in Nat /\ secuencia' <= MaxFilas
  BY <1>1, MaxFilasSupuesto DEF InvTipos, TiposTablas
<1>3. CASE Lanzar(g, Otra("Error"))
  BY <1>1, <1>2, <1>3, LanzarContesta, ContestaTipada DEF Codigos
<1>4. CASE /\ peticiones[g].cuerpo.valido
           /\ Sigue(g, [peticiones[g] EXCEPT !.pc = "confirmar", !.nuevo = secuencia + 1])
  <2> DEFINE r == Insertada(g)
  <2>1. Sigue(g, r)
    BY <1>4 DEF Insertada
  <2>2. /\ r \in Peticion /\ r.pc = "confirmar" /\ r.nuevo = secuencia + 1
        /\ r.codigo = peticiones[g].codigo /\ r.ruta = peticiones[g].ruta
        /\ r.id = peticiones[g].id /\ r.cuerpo = peticiones[g].cuerpo
    BY <1>1, InsertadaTipada
  <2>3. Forma(peticiones[g], tabla, secuencia, DOMAIN filas)
    BY DEF InvTipos
  <2> HIDE DEF r
  <2>4. Forma(r, tabla, secuencia', DOMAIN filas)
    BY <1>1, <1>2, <1>4, <2>2, <2>3 DEF Forma, En, DeInsertar, DeCambiar
  <2>5. QED
    BY <1>1, <1>2, <2>1, <2>2, <2>4, PasoQuieto
<1>5. QED
  BY <1>3, <1>4 DEF Insertar

\* The answer to a request that was done, when it comes back and when it is lost.
LEMMA ContestadaFin ==
  ASSUME NEW g \in Peticiones, NEW c \in Codigos \ {0}, Contestada(g, c)
  PROVE  \E d \in Codigos \ {0} : Sigue(g, Fin(d)) /\ d \in {c, 500} /\ (d = c \/ Fallos)
<1>1. Contesta(g, c) \/ (Fallos /\ Contesta(g, 500))
  BY LanzarContesta DEF Contestada
<1>2. Sigue(g, Fin(c)) \/ (Fallos /\ Sigue(g, Fin(500)))
  BY <1>1 DEF Contesta, Fin
<1>3. QED
  BY <1>2, FallosCatalogoSupuesto DEF Codigos

\* What COMMIT leaves in the table.
LEMMA ConfirmarFilas ==
  ASSUME InvTipos, NEW g \in Peticiones, Confirmar(g)
  PROVE  /\ peticiones[g].nuevo \in 1..secuencia
         /\ DOMAIN filas' = DOMAIN filas \cup {peticiones[g].nuevo}
         /\ filas'[peticiones[g].nuevo] = NuevaFila(peticiones[g].cuerpo.clave)
         /\ \A i \in DOMAIN filas \ {peticiones[g].nuevo} : filas'[i] = filas[i]
         /\ TiposTablas'
<1> DEFINE n == peticiones[g].nuevo
           k == peticiones[g].cuerpo.clave
<1>1. n \in 1..secuencia /\ k \in Claves
  BY DEF InvTipos, Forma, Confirmar, En, DeInsertar
<1>2. filas' = [i \in DOMAIN filas \cup {n} |-> IF i = n THEN NuevaFila(k) ELSE filas[i]]
  BY DEF Confirmar
<1>3. NuevaFila(k) \in Filas
  BY <1>1 DEF NuevaFila, Filas, Estados
<1>4. UNCHANGED <<tabla, secuencia>> /\ TiposTablas
  BY DEF Confirmar, InvTipos
<1> HIDE DEF n, k
<1>5. DOMAIN filas' = DOMAIN filas \cup {n} /\ filas' \in [DOMAIN filas' -> Filas]
  BY <1>2, <1>3, <1>4 DEF TiposTablas
<1>6. filas'[n] = NuevaFila(k) /\ \A i \in DOMAIN filas \ {n} : filas'[i] = filas[i]
  BY <1>2
<1>7. TiposTablas'
  BY <1>1, <1>4, <1>5 DEF TiposTablas
<1>8. QED
  BY <1>1, <1>5, <1>6, <1>7 DEF n, k

\* What an UPDATE that finds its row leaves in the table.
LEMMA ActualizarFilas ==
  ASSUME InvTipos, NEW g \in Peticiones, En(g, "actualizar"), UNCHANGED <<tabla, secuencia>>,
         peticiones[g].id \in DOMAIN filas,
         filas' = [filas EXCEPT ![peticiones[g].id] = ConColumnas(@, peticiones[g].cuerpo)]
  PROVE  /\ DOMAIN filas' = DOMAIN filas
         /\ filas'[peticiones[g].id] = ConColumnas(filas[peticiones[g].id], peticiones[g].cuerpo)
         /\ \A i \in DOMAIN filas \ {peticiones[g].id} : filas'[i] = filas[i]
         /\ TiposTablas'
<1> DEFINE i == peticiones[g].id
           c == peticiones[g].cuerpo
<1>1. c \in Escritura /\ TiposTablas
  BY DEF InvTipos, Peticion
<1>2. i \in DOMAIN filas /\ filas' = [filas EXCEPT ![i] = ConColumnas(filas[i], c)]
  OBVIOUS
<1> HIDE DEF i, c
<1>3. filas[i] \in Filas
  BY <1>1, <1>2 DEF TiposTablas
<1>4. ConColumnas(filas[i], c) \in Filas
  BY <1>1, <1>3 DEF ConColumnas, Filas, Escritura
<1>5. /\ DOMAIN filas' = DOMAIN filas /\ filas'[i] = ConColumnas(filas[i], c)
      /\ \A j \in DOMAIN filas \ {i} : filas'[j] = filas[j]
      /\ filas' \in [DOMAIN filas' -> Filas]
  BY <1>1, <1>2, <1>4 DEF TiposTablas
<1>6. TiposTablas'
  BY <1>1, <1>5 DEF TiposTablas
<1>7. QED
  BY <1>5, <1>6 DEF i, c

LEMMA ConfirmarTipado ==
  ASSUME InvTipos, NEW g \in Peticiones, Confirmar(g)
  PROVE  InvTipos'
<1>1. PICK d \in Codigos \ {0} : Sigue(g, Fin(d))
  BY ContestadaFin DEF Confirmar, Codigos
<1>2. Fin(d) \in Peticion /\ Forma(Fin(d), tabla, secuencia', DOMAIN filas')
  BY FinTipado
<1>3. tabla' = tabla /\ secuencia' = secuencia /\ secuencia \in Nat
  BY DEF Confirmar, InvTipos, TiposTablas
<1>4. DOMAIN filas \subseteq DOMAIN filas' /\ TiposTablas'
  BY ConfirmarFilas
<1>5. QED
  BY <1>1, <1>2, <1>3, <1>4, PasoTipado

\* The three ways an UPDATE may end.
LEMMA ActualizarDetalle ==
  ASSUME NEW g \in Peticiones, Actualizar(g)
  PROVE  /\ En(g, "actualizar") /\ UNCHANGED <<tabla, secuencia>>
         /\ \/ peticiones[g].id \notin DOMAIN filas /\ Contesta(g, 200) /\ UNCHANGED filas
            \/ /\ peticiones[g].id \in DOMAIN filas /\ Contesta(g, 500) /\ UNCHANGED filas
               /\ \/ ~ peticiones[g].cuerpo.valido
                  \/ Repetida(peticiones[g].cuerpo.clave, peticiones[g].id)
            \/ /\ peticiones[g].id \in DOMAIN filas /\ peticiones[g].cuerpo.valido
               /\ ~ EnEspera(g, peticiones[g].cuerpo.clave)
               /\ ~ Repetida(peticiones[g].cuerpo.clave, peticiones[g].id)
               /\ filas' = [filas EXCEPT ![peticiones[g].id] =
                              ConColumnas(@, peticiones[g].cuerpo)]
               /\ Contestada(g, 200)
BY LanzarContesta, Zenon DEF Actualizar

LEMMA ActualizarTipado ==
  ASSUME InvTipos, NEW g \in Peticiones, Actualizar(g)
  PROVE  InvTipos'
<1>1. En(g, "actualizar") /\ UNCHANGED <<tabla, secuencia>>
  BY ActualizarDetalle
<1>2. secuencia' = secuencia /\ secuencia \in Nat /\ secuencia <= MaxFilas
  BY <1>1, MaxFilasSupuesto DEF InvTipos, TiposTablas
<1>3. ASSUME NEW c \in Codigos, c # 0, Contesta(g, c), UNCHANGED filas
      PROVE  InvTipos'
  BY <1>1, <1>2, <1>3, ContestaTipada
<1>4. CASE Contesta(g, 200) /\ UNCHANGED filas
  BY <1>3, <1>4 DEF Codigos
<1>5. CASE Contesta(g, 500) /\ UNCHANGED filas
  BY <1>3, <1>5 DEF Codigos
<1>6. CASE /\ peticiones[g].id \in DOMAIN filas /\ Contestada(g, 200)
           /\ filas' = [filas EXCEPT ![peticiones[g].id] = ConColumnas(@, peticiones[g].cuerpo)]
  <2>1. PICK d \in Codigos \ {0} : Sigue(g, Fin(d))
    BY <1>6, ContestadaFin DEF Codigos
  <2>2. Fin(d) \in Peticion /\ Forma(Fin(d), tabla, secuencia', DOMAIN filas')
    BY FinTipado
  <2>3. DOMAIN filas \subseteq DOMAIN filas' /\ TiposTablas'
    BY <1>1, <1>6, ActualizarFilas
  <2>4. QED
    BY <1>1, <1>2, <2>1, <2>2, <2>3, PasoTipado
<1>7. QED
  BY <1>4, <1>5, <1>6, ActualizarDetalle, Zenon

LEMMA TiposInicial == InitCatalogo => InvTipos
<1> SUFFICES ASSUME InitCatalogo PROVE InvTipos
  OBVIOUS
<1>1. TiposTablas
  BY MaxFilasSupuesto DEF InitCatalogo, TiposTablas
<1>2. QED
  BY <1>1, LibreTipado DEF InitCatalogo, InvTipos

LEMMA TiposSiguiente == InvTipos /\ [NextCatalogo]_varsCatalogo => InvTipos'
<1> SUFFICES ASSUME InvTipos, [NextCatalogo]_varsCatalogo PROVE InvTipos'
  OBVIOUS
<1>s. secuencia \in Nat /\ secuencia <= MaxFilas
  BY MaxFilasSupuesto DEF InvTipos, TiposTablas
<1>1. CASE UNCHANGED varsCatalogo
  BY <1>1 DEF varsCatalogo, InvTipos, TiposTablas
<1>2. ASSUME NEW g \in Peticiones, Llegar(g) PROVE InvTipos'
  <2>1. UNCHANGED <<tabla, filas, secuencia>>
    BY <1>2 DEF Llegar
  <2>2. PICK r \in Peticion : Sigue(g, r) /\ Forma(r, tabla, secuencia, DOMAIN filas)
    BY <1>2, LlegarDetalle
  <2>3. QED
    BY <1>s, <2>1, <2>2, PasoQuieto
<1>3. ASSUME NEW g \in Peticiones, BuscarCodigo(g) PROVE InvTipos'
  <2>1. UNCHANGED <<tabla, filas, secuencia>> /\ En(g, "buscarCodigo")
        /\ (Contesta(g, 409) \/ Pasa(g, "insertar"))
    BY <1>3, LanzarContesta DEF BuscarCodigo
  <2>2. QED
    BY <1>s, <2>1, ContestaTipada, PasaTipada DEF Codigos, Pcs
<1>4. ASSUME NEW g \in Peticiones, Insertar(g) PROVE InvTipos'
  BY <1>4, InsertarTipado
<1>5. ASSUME NEW g \in Peticiones, Confirmar(g) PROVE InvTipos'
  BY <1>5, ConfirmarTipado
<1>6. ASSUME NEW g \in Peticiones, BuscarPorId(g) PROVE InvTipos'
  <2>1. UNCHANGED <<tabla, filas, secuencia>> /\ En(g, "buscarPorId")
        /\ \/ Contesta(g, 404) \/ Contesta(g, 412)
           \/ peticiones[g].id \in DOMAIN filas /\ Pasa(g, "actualizar")
    BY <1>6, LanzarContesta DEF BuscarPorId, NoEncontrada
  <2>2. QED
    BY <1>s, <2>1, ContestaTipada, PasaTipada DEF Codigos, Pcs
<1>7. ASSUME NEW g \in Peticiones, Actualizar(g) PROVE InvTipos'
  BY <1>7, ActualizarTipado
<1>8. ASSUME NEW g \in Peticiones, Eliminar(g) \/ Abortar(g) PROVE InvTipos'
  <2>1. UNCHANGED <<tabla, filas, secuencia>> /\ Contesta(g, 500)
    BY <1>8, LanzarContesta DEF Eliminar, Abortar
  <2>2. QED
    BY <1>s, <2>1, ContestaTipada DEF Codigos
<1>9. ASSUME NEW g \in Peticiones, Responder(g) PROVE InvTipos'
  <2>1. UNCHANGED <<tabla, filas, secuencia>> /\ Sigue(g, Libre)
    BY <1>9 DEF Responder
  <2>2. QED
    BY <1>s, <2>1, LibreTipado, PasoQuieto
<1>10. QED
  BY <1>1, <1>2, <1>3, <1>4, <1>5, <1>6, <1>7, <1>8, <1>9, Zenon DEF NextCatalogo, Atender

LEMMA TiposSiempre == SpecCatalogo => []InvTipos
BY TiposInicial, TiposSiguiente, PTL DEF SpecCatalogo

\* Rows, the sequence and the requests keep their types: no row is ever without its key or
\* with an estado of nobody, and what is answered is one of seven codes.
THEOREM TipoCorrectoCatalogo == SpecCatalogo => []TypeOKCatalogo
<1>1. InvTipos => TypeOKCatalogo
  <2> SUFFICES ASSUME InvTipos PROVE TypeOKCatalogo
    OBVIOUS
  <2>1. TiposTablas /\ peticiones \in [Peticiones -> Peticion]
    BY DEF InvTipos
  <2>2. QED
    BY <2>1 DEF TypeOKCatalogo, TiposTablas, Peticion, Escritura, Codigos
<1>2. QED
  BY <1>1, TiposSiempre, PTL

-----------------------------------------------------------------------------
\* Keys: the committed rows, the INSERTs to be committed, and the ones against the others.

SinRepetir ==
  /\ \A i, j \in DOMAIN filas : filas[i].clave = filas[j].clave => i = j
  /\ \A i \in DOMAIN filas, g \in Peticiones :
       En(g, "confirmar") => filas[i].clave # peticiones[g].cuerpo.clave
  /\ \A g, h \in Peticiones :
       En(g, "confirmar") /\ En(h, "confirmar")
         /\ peticiones[g].cuerpo.clave = peticiones[h].cuerpo.clave => g = h

\* The id of an INSERT is of no row and of no other INSERT.
Nuevas ==
  /\ \A g \in Peticiones : En(g, "confirmar") => peticiones[g].nuevo \notin DOMAIN filas
  /\ \A g, h \in Peticiones :
       En(g, "confirmar") /\ En(h, "confirmar") /\ peticiones[g].nuevo = peticiones[h].nuevo
         => g = h

InvClaves == Nuevas /\ (Unica(tabla) => SinRepetir)
InvCatalogo == InvTipos /\ InvClaves

\* Who else is about to commit after a step of g.
LEMMA OtrosConfirman ==
  ASSUME InvTipos, NEW g \in Peticiones, NEW r, Sigue(g, r)
  PROVE  /\ peticiones'[g] = r
         /\ \A h \in Peticiones \ {g} : peticiones'[h] = peticiones[h]
         /\ r.pc # "confirmar" =>
              \A h \in Peticiones : En(h, "confirmar")' =>
                h # g /\ En(h, "confirmar") /\ peticiones'[h] = peticiones[h]
BY DEF InvTipos, Sigue, En

\* A step of a request that has nothing to commit afterwards and leaves the rows alone.
LEMMA ClavesQuietas ==
  ASSUME InvCatalogo, NEW g \in Peticiones, NEW r, Sigue(g, r), r.pc # "confirmar",
         UNCHANGED <<tabla, filas>>
  PROVE  InvClaves'
<1>1. \A h \in Peticiones : En(h, "confirmar")' =>
        En(h, "confirmar") /\ peticiones'[h] = peticiones[h]
  BY OtrosConfirman DEF InvCatalogo
<1>2. Nuevas'
  BY <1>1 DEF InvCatalogo, InvClaves, Nuevas
<1>3. Unica(tabla)' => SinRepetir'
  BY <1>1 DEF InvCatalogo, InvClaves, SinRepetir, Unica
<1>4. QED
  BY <1>2, <1>3 DEF InvClaves

LEMMA ContestaClaves ==
  ASSUME InvCatalogo, NEW g \in Peticiones, NEW c, Contesta(g, c), UNCHANGED <<tabla, filas>>
  PROVE  InvClaves'
<1>1. Sigue(g, Fin(c)) /\ Fin(c).pc = "fin"
  BY DEF Contesta, Fin, Libre, Nueva
<1>2. QED
  BY <1>1, ClavesQuietas

LEMMA PasaClaves ==
  ASSUME InvCatalogo, NEW g \in Peticiones, NEW pc, pc # "confirmar", Pasa(g, pc),
         UNCHANGED <<tabla, filas>>
  PROVE  InvClaves'
<1> DEFINE r == [peticiones[g] EXCEPT !.pc = pc]
<1>1. peticiones[g] \in Peticion
  BY DEF InvCatalogo, InvTipos
<1>2. Sigue(g, r) /\ r.pc = pc
  BY <1>1 DEF Pasa, Peticion
<1> HIDE DEF r
<1>3. QED
  BY <1>2, ClavesQuietas

\* An INSERT waits for those of its key, and fails if a row has it.
LEMMA InsertarClaves ==
  ASSUME InvCatalogo, NEW g \in Peticiones, Insertar(g)
  PROVE  InvClaves'
<1>t. InvTipos /\ Nuevas /\ (Unica(tabla) => SinRepetir)
  BY DEF InvCatalogo, InvClaves
<1>1. /\ En(g, "insertar") /\ secuencia < MaxFilas /\ UNCHANGED <<tabla, filas>>
      /\ ~ EnEspera(g, peticiones[g].cuerpo.clave)
  BY DEF Insertar
<1>2. CASE Lanzar(g, Otra("Error"))
  BY <1>1, <1>2, LanzarContesta, ContestaClaves
<1>3. CASE /\ ~ Repetida(peticiones[g].cuerpo.clave, Nulo)
           /\ Sigue(g, [peticiones[g] EXCEPT !.pc = "confirmar", !.nuevo = secuencia + 1])
  <2> DEFINE r == Insertada(g)
  <2>1. Sigue(g, r)
    BY <1>3 DEF Insertada
  <2>2. r.pc = "confirmar" /\ r.nuevo = secuencia + 1 /\ r.cuerpo = peticiones[g].cuerpo
    BY <1>t, <1>1, InsertadaTipada
  <2> HIDE DEF r
  <2>3. /\ peticiones'[g] = r
        /\ \A h \in Peticiones \ {g} : peticiones'[h] = peticiones[h]
    BY <1>t, <2>1, OtrosConfirman
  <2>4. /\ secuencia \in Nat /\ DOMAIN filas \subseteq 1..secuencia
        /\ \A h \in Peticiones : En(h, "confirmar") => peticiones[h].nuevo \in 1..secuencia
    BY <1>t DEF InvTipos, TiposTablas, Forma, En
  <2>5. secuencia + 1 \notin 1..secuencia
    BY <2>4
  <2>6. ~ En(g, "confirmar")
    BY <1>1 DEF En
  <2>7. Nuevas'
    BY <1>t, <1>1, <2>2, <2>3, <2>4, <2>5, <2>6 DEF Nuevas, En
  <2>8. ASSUME Unica(tabla) PROVE SinRepetir'
    <3> DEFINE k == peticiones[g].cuerpo.clave
    <3>1. \A i \in DOMAIN filas : filas[i].clave # k
      <4>1. Nulo \notin DOMAIN filas
        BY <2>4, NuloSupuesto
      <4>2. QED
        BY <1>3, <2>8, <4>1 DEF Repetida
    <3>2. \A h \in Peticiones \ {g} : En(h, "confirmar") => peticiones[h].cuerpo.clave # k
      BY <1>1, <2>8 DEF EnEspera
    <3>3. SinRepetir
      BY <1>t, <2>8
    <3>4. r.cuerpo.clave = k
      BY <2>2
    <3> HIDE DEF k
    <3>5. QED
      BY <1>1, <2>2, <2>3, <2>6, <3>1, <3>2, <3>3, <3>4 DEF SinRepetir, En
  <2>9. QED
    BY <1>1, <2>7, <2>8 DEF InvClaves, Unica
<1>4. QED
  BY <1>2, <1>3 DEF Insertar

\* A COMMIT turns the pair of the INSERT into the pair of a row.
LEMMA ConfirmarClaves ==
  ASSUME InvCatalogo, NEW g \in Peticiones, Confirmar(g)
  PROVE  InvClaves'
<1>t. InvTipos /\ Nuevas /\ (Unica(tabla) => SinRepetir)
  BY DEF InvCatalogo, InvClaves
<1> DEFINE n == peticiones[g].nuevo
           k == peticiones[g].cuerpo.clave
<1>1. En(g, "confirmar") /\ tabla' = tabla
  BY DEF Confirmar
<1>2. /\ DOMAIN filas' = DOMAIN filas \cup {n} /\ filas'[n].clave = k
      /\ \A i \in DOMAIN filas \ {n} : filas'[i] = filas[i]
  <2>1. NuevaFila(k).clave = k
    BY DEF NuevaFila
  <2>2. /\ DOMAIN filas' = DOMAIN filas \cup {n} /\ filas'[n] = NuevaFila(k)
        /\ \A i \in DOMAIN filas \ {n} : filas'[i] = filas[i]
    BY <1>t, ConfirmarFilas
  <2>3. QED
    BY <2>1, <2>2
<1>3. PICK d \in Codigos \ {0} : Sigue(g, Fin(d))
  BY ContestadaFin DEF Confirmar, Codigos
<1>4. Fin(d).pc # "confirmar"
  BY DEF Fin, Libre, Nueva
<1>5. \A h \in Peticiones : En(h, "confirmar")' =>
        h # g /\ En(h, "confirmar") /\ peticiones'[h] = peticiones[h]
  BY <1>t, <1>3, <1>4, OtrosConfirman
<1>6. n \notin DOMAIN filas
      /\ \A h \in Peticiones \ {g} : En(h, "confirmar") => peticiones[h].nuevo # n
  BY <1>t, <1>1 DEF Nuevas
<1>7. Nuevas'
  BY <1>t, <1>2, <1>5, <1>6 DEF Nuevas
<1>8. ASSUME Unica(tabla) PROVE SinRepetir'
  <2>1. SinRepetir
    BY <1>t, <1>8
  <2>2. /\ \A i \in DOMAIN filas : filas[i].clave # k
        /\ \A h \in Peticiones \ {g} : En(h, "confirmar") => peticiones[h].cuerpo.clave # k
    BY <1>1, <2>1 DEF SinRepetir
  <2>3. \A i, j \in DOMAIN filas' : filas'[i].clave = filas'[j].clave => i = j
    BY <1>2, <1>6, <2>1, <2>2 DEF SinRepetir
  <2>4. \A i \in DOMAIN filas', h \in Peticiones :
          En(h, "confirmar")' => filas'[i].clave # peticiones'[h].cuerpo.clave
    BY <1>2, <1>5, <1>6, <2>1, <2>2 DEF SinRepetir
  <2>5. \A h, f \in Peticiones :
          En(h, "confirmar")' /\ En(f, "confirmar")'
            /\ peticiones'[h].cuerpo.clave = peticiones'[f].cuerpo.clave => h = f
    BY <1>5, <2>1 DEF SinRepetir
  <2>6. QED
    BY <2>3, <2>4, <2>5 DEF SinRepetir
<1>9. QED
  BY <1>1, <1>7, <1>8 DEF InvClaves, Unica

\* An UPDATE waits for the INSERTs of its key, and fails if another row has it.
LEMMA ActualizarClaves ==
  ASSUME InvCatalogo, NEW g \in Peticiones, Actualizar(g)
  PROVE  InvClaves'
<1>t. InvTipos /\ Nuevas /\ (Unica(tabla) => SinRepetir)
  BY DEF InvCatalogo, InvClaves
<1>1. En(g, "actualizar") /\ UNCHANGED <<tabla, secuencia>>
  BY ActualizarDetalle
<1>2. CASE (Contesta(g, 200) \/ Contesta(g, 500)) /\ UNCHANGED filas
  BY <1>1, <1>2, ContestaClaves
<1>3. CASE /\ peticiones[g].id \in DOMAIN filas /\ Contestada(g, 200)
           /\ ~ EnEspera(g, peticiones[g].cuerpo.clave)
           /\ ~ Repetida(peticiones[g].cuerpo.clave, peticiones[g].id)
           /\ filas' = [filas EXCEPT ![peticiones[g].id] = ConColumnas(@, peticiones[g].cuerpo)]
  <2> DEFINE n == peticiones[g].id
             k == peticiones[g].cuerpo.clave
  <2>1. /\ DOMAIN filas' = DOMAIN filas
        /\ filas'[n] = ConColumnas(filas[n], peticiones[g].cuerpo)
        /\ \A i \in DOMAIN filas \ {n} : filas'[i] = filas[i]
    BY <1>t, <1>1, <1>3, ActualizarFilas
  <2>2. filas'[n].clave = (IF k = Nulo THEN filas[n].clave ELSE k)
    BY <2>1 DEF ConColumnas
  <2>3. PICK d \in Codigos \ {0} : Sigue(g, Fin(d))
    BY <1>3, ContestadaFin DEF Codigos
  <2>4. Fin(d).pc # "confirmar"
    BY DEF Fin, Libre, Nueva
  <2>5. \A h \in Peticiones : En(h, "confirmar")' =>
          h # g /\ En(h, "confirmar") /\ peticiones'[h] = peticiones[h]
    BY <1>t, <2>3, <2>4, OtrosConfirman
  <2>6. Nuevas'
    BY <1>t, <2>1, <2>5 DEF Nuevas
  <2>7. ASSUME Unica(tabla) PROVE SinRepetir'
    <3>1. SinRepetir
      BY <1>t, <2>7
    <3>2. \A i \in DOMAIN filas \ {n} : filas[i].clave # k
      BY <1>3, <2>7 DEF Repetida
    <3>3. \A h \in Peticiones \ {g} : En(h, "confirmar") => peticiones[h].cuerpo.clave # k
      BY <1>3, <2>7 DEF EnEspera
    <3>4. n \in DOMAIN filas
      BY <1>3
    <3> HIDE DEF n, k
    <3>5. \A i, j \in DOMAIN filas' : filas'[i].clave = filas'[j].clave => i = j
      BY <2>1, <2>2, <3>1, <3>2, <3>4 DEF SinRepetir
    <3>6. \A i \in DOMAIN filas', h \in Peticiones :
            En(h, "confirmar")' => filas'[i].clave # peticiones'[h].cuerpo.clave
      BY <2>1, <2>2, <2>5, <3>1, <3>3, <3>4 DEF SinRepetir
    <3>7. \A h, f \in Peticiones :
            En(h, "confirmar")' /\ En(f, "confirmar")'
              /\ peticiones'[h].cuerpo.clave = peticiones'[f].cuerpo.clave => h = f
      BY <2>5, <3>1 DEF SinRepetir
    <3>8. QED
      BY <3>5, <3>6, <3>7 DEF SinRepetir
  <2>8. QED
    BY <1>1, <2>6, <2>7 DEF InvClaves, Unica
<1>4. QED
  BY <1>2, <1>3, ActualizarDetalle, Zenon

LEMMA ClavesInicial == InitCatalogo => InvClaves
<1> SUFFICES ASSUME InitCatalogo PROVE InvClaves
  OBVIOUS
<1>1. DOMAIN filas = {}
  BY DEF InitCatalogo
<1>2. \A g \in Peticiones : ~ En(g, "confirmar")
  BY DEF InitCatalogo, En, Libre, Nueva
<1>3. QED
  BY <1>1, <1>2 DEF InvClaves, Nuevas, SinRepetir

LEMMA ClavesSiguiente == InvCatalogo /\ [NextCatalogo]_varsCatalogo => InvClaves'
<1> SUFFICES ASSUME InvCatalogo, [NextCatalogo]_varsCatalogo PROVE InvClaves'
  OBVIOUS
<1>1. CASE UNCHANGED varsCatalogo
  BY <1>1 DEF varsCatalogo, InvCatalogo, InvClaves, Nuevas, SinRepetir, En, Unica
<1>2. ASSUME NEW g \in Peticiones, Llegar(g) PROVE InvClaves'
  <2>1. UNCHANGED <<tabla, filas>>
    BY <1>2 DEF Llegar
  <2>2. PICK r \in Peticion : Sigue(g, r) /\ r.pc \notin {"libre", "fin", "confirmar"}
    BY <1>2, LlegarDetalle DEF InvCatalogo
  <2>3. QED
    BY <2>1, <2>2, ClavesQuietas
<1>3. ASSUME NEW g \in Peticiones, BuscarCodigo(g) PROVE InvClaves'
  <2>1. UNCHANGED <<tabla, filas>> /\ (Contesta(g, 409) \/ Pasa(g, "insertar"))
    BY <1>3, LanzarContesta DEF BuscarCodigo
  <2>2. QED
    BY <2>1, ContestaClaves, PasaClaves
<1>4. ASSUME NEW g \in Peticiones, Insertar(g) PROVE InvClaves'
  BY <1>4, InsertarClaves
<1>5. ASSUME NEW g \in Peticiones, Confirmar(g) PROVE InvClaves'
  BY <1>5, ConfirmarClaves
<1>6. ASSUME NEW g \in Peticiones, BuscarPorId(g) PROVE InvClaves'
  <2>1. UNCHANGED <<tabla, filas>>
        /\ (Contesta(g, 404) \/ Contesta(g, 412) \/ Pasa(g, "actualizar"))
    BY <1>6, LanzarContesta DEF BuscarPorId, NoEncontrada
  <2>2. QED
    BY <2>1, ContestaClaves, PasaClaves
<1>7. ASSUME NEW g \in Peticiones, Actualizar(g) PROVE InvClaves'
  BY <1>7, ActualizarClaves
<1>8. ASSUME NEW g \in Peticiones, Eliminar(g) \/ Abortar(g) PROVE InvClaves'
  <2>1. UNCHANGED <<tabla, filas>> /\ Contesta(g, 500)
    BY <1>8, LanzarContesta DEF Eliminar, Abortar
  <2>2. QED
    BY <2>1, ContestaClaves
<1>9. ASSUME NEW g \in Peticiones, Responder(g) PROVE InvClaves'
  <2>1. UNCHANGED <<tabla, filas>> /\ Sigue(g, Libre) /\ Libre.pc # "confirmar"
    BY <1>9 DEF Responder, Libre, Nueva
  <2>2. QED
    BY <2>1, ClavesQuietas
<1>10. QED
  BY <1>1, <1>2, <1>3, <1>4, <1>5, <1>6, <1>7, <1>8, <1>9, Zenon DEF NextCatalogo, Atender

LEMMA CatalogoSiempre == SpecCatalogo => []InvCatalogo
<1>1. InitCatalogo => InvCatalogo
  BY TiposInicial, ClavesInicial DEF InvCatalogo
<1>2. InvCatalogo /\ [NextCatalogo]_varsCatalogo => InvCatalogo'
  BY TiposSiguiente, ClavesSiguiente DEF InvCatalogo
<1>3. QED
  BY <1>1, <1>2, PTL DEF SpecCatalogo

\* However many administrators create and rename at the same time, and whatever fails, two
\* parametros, roles or modulos never have the same codigo, rol or url.
THEOREM ClaveSiempreUnica == SpecCatalogo => []ClaveUnica
<1>1. InvCatalogo => ClaveUnica
  <2> SUFFICES ASSUME InvCatalogo, tabla \in {"parametro", "rol", "modulo"},
                      NEW x \in Guardadas, NEW y \in Guardadas, x[2] = y[2]
               PROVE  x[1] = y[1]
    BY DEF ClaveUnica
  <2>1. SinRepetir
    BY DEF InvCatalogo, InvClaves, Unica
  <2>2. \A z \in Guardadas :
          \/ \E i \in DOMAIN filas : z = <<i, filas[i].clave>>
          \/ \E g \in Peticiones :
               En(g, "confirmar") /\ z = <<peticiones[g].nuevo, peticiones[g].cuerpo.clave>>
    BY DEF Guardadas
  <2>3. QED
    BY <2>1, <2>2 DEF SinRepetir
<1>2. QED
  BY <1>1, CatalogoSiempre, PTL

-----------------------------------------------------------------------------
\* Catalogo implements CatalogoAbs: each await is one of its steps or none.

\* What CatalogoAbs sees of a request.
Vista(r) == [ruta |-> r.ruta, id |-> r.id, cuerpo |-> r.cuerpo, codigo |-> r.codigo]

LEMMA VistaFin == ASSUME NEW c PROVE Vista(Fin(c)) = Abs!Nada(c)
<1>1. /\ Fin(c).ruta = Nulo /\ Fin(c).id = Nulo /\ Fin(c).codigo = c
      /\ Fin(c).cuerpo = [clave |-> Nulo, estado |-> Nulo, valido |-> TRUE]
  BY DEF Fin, Libre, Nueva, Cuerpo
<1>2. QED
  BY <1>1 DEF Vista, Abs!Nada

LEMMA VistaLibre == Vista(Libre) = Abs!Nadie
<1>1. /\ Libre.ruta = Nulo /\ Libre.id = Nulo /\ Libre.codigo = 0
      /\ Libre.cuerpo = [clave |-> Nulo, estado |-> Nulo, valido |-> TRUE]
  BY DEF Libre, Nueva, Cuerpo
<1>2. QED
  BY <1>1 DEF Vista, Abs!Nadie, Abs!Nada

LEMMA PedidosPaso ==
  ASSUME InvTipos, NEW g \in Peticiones, NEW r, Sigue(g, r)
  PROVE  /\ Pedidos' = [Pedidos EXCEPT ![g] = Vista(r)]
         /\ Pedidos[g] = Vista(peticiones[g])
<1>1. peticiones'[g] = r /\ \A h \in Peticiones \ {g} : peticiones'[h] = peticiones[h]
  BY OtrosConfirman
<1>2. Pedidos' = [h \in Peticiones |-> Vista(peticiones'[h])]
  BY DEF Pedidos, Vista
<1>3. Pedidos = [h \in Peticiones |-> Vista(peticiones[h])]
  BY DEF Pedidos, Vista
<1>4. QED
  BY <1>1, <1>2, <1>3

LEMMA PedidosDe ==
  ASSUME NEW g \in Peticiones
  PROVE  /\ Pedidos[g].ruta = peticiones[g].ruta /\ Pedidos[g].id = peticiones[g].id
         /\ Pedidos[g].cuerpo = peticiones[g].cuerpo /\ Pedidos[g].codigo = peticiones[g].codigo
BY DEF Pedidos

\* An answer is a decision of CatalogoAbs.
LEMMA FinDecide ==
  ASSUME InvTipos, NEW g \in Peticiones, NEW c, Sigue(g, Fin(c))
  PROVE  Abs!Decide(g, c)
BY PedidosPaso, VistaFin DEF Abs!Decide

LEMMA ContestaDecide ==
  ASSUME InvTipos, NEW g \in Peticiones, NEW c, Contesta(g, c)
  PROVE  Abs!Decide(g, c)
BY FinDecide DEF Contesta, Fin

\* A refusal with its reason.
LEMMA ContestaRechaza ==
  ASSUME InvTipos, NEW g \in Peticiones, NEW c \in {200, 404, 409, 412, 500}, Contesta(g, c),
         UNCHANGED <<tabla, filas>>, peticiones[g].pc \notin {"libre", "fin"},
         Abs!Razon(g, c)
  PROVE  Abs!Rechazar(g)
<1>1. Abs!Decide(g, c)
  BY ContestaDecide
<1>2. Abs!Pendiente(g)
  BY PedidosDe DEF InvTipos, Forma, Abs!Pendiente
<1>3. QED
  BY <1>1, <1>2 DEF Abs!Rechazar

\* A step that CatalogoAbs does not see.
LEMMA PasoInvisible ==
  ASSUME InvTipos, NEW g \in Peticiones, NEW r, Sigue(g, r), Vista(r) = Vista(peticiones[g]),
         UNCHANGED <<tabla, filas>>
  PROVE  UNCHANGED Abs!vars
<1>1. Pedidos' = [Pedidos EXCEPT ![g] = Pedidos[g]]
  BY PedidosPaso
<1>2. Pedidos' = Pedidos
  BY <1>1 DEF Pedidos
<1>3. QED
  BY <1>2 DEF Abs!vars

LEMMA PasaInvisible ==
  ASSUME InvTipos, NEW g \in Peticiones, NEW pc, Pasa(g, pc), UNCHANGED <<tabla, filas>>
  PROVE  UNCHANGED Abs!vars
<1> DEFINE r == [peticiones[g] EXCEPT !.pc = pc]
<1>1. peticiones[g] \in Peticion
  BY DEF InvTipos
<1>2. /\ r.ruta = peticiones[g].ruta /\ r.id = peticiones[g].id
      /\ r.cuerpo = peticiones[g].cuerpo /\ r.codigo = peticiones[g].codigo
  BY <1>1 DEF Peticion
<1>3. Sigue(g, r)
  BY DEF Pasa
<1> HIDE DEF r
<1>4. QED
  BY <1>2, <1>3, PasoInvisible DEF Vista

LEMMA LlegarPide ==
  ASSUME InvTipos, NEW g \in Peticiones, Llegar(g)
  PROVE  Abs!Pedir(g)
<1>1. PICK r \in Peticion : Sigue(g, r) /\ r.ruta \in Rutas /\ r.codigo = 0
  BY LlegarDetalle
<1>2. Pedidos' = [Pedidos EXCEPT ![g] = Vista(r)] /\ Pedidos[g] = Vista(peticiones[g])
  BY <1>1, PedidosPaso
<1>3. peticiones[g] = Libre
  BY DEF Llegar, En, InvTipos, Forma
<1>4. Pedidos[g] = Abs!Nadie
  BY <1>2, <1>3, VistaLibre
<1>5. Vista(r).ruta # Nulo /\ Vista(r).codigo = 0
  BY <1>1, NuloSupuesto DEF Vista
<1>6. Pedidos'[g] = Vista(r) /\ \A h \in Peticiones \ {g} : Pedidos'[h] = Pedidos[h]
  BY <1>2 DEF Pedidos
<1>7. UNCHANGED <<tabla, filas>>
  BY DEF Llegar
<1>8. QED
  BY <1>4, <1>5, <1>6, <1>7 DEF Abs!Pedir

\* A key is taken in both senses.
LEMMA MismaTomada ==
  ASSUME InvTipos, NEW clave, NEW id
  PROVE  Abs!Tomada(clave, id) <=> Repetida(clave, id)
BY DEF Abs!Tomada, Abs!Unica, Repetida, Unica, InvTipos, TiposTablas, Tablas

LEMMA BuscarCodigoRefina ==
  ASSUME InvTipos, NEW g \in Peticiones, BuscarCodigo(g)
  PROVE  Abs!Rechazar(g) \/ UNCHANGED Abs!vars
<1>1. En(g, "buscarCodigo") /\ UNCHANGED <<tabla, filas>>
  BY DEF BuscarCodigo
<1>2. CASE /\ \E i \in DOMAIN filas : filas[i].clave = peticiones[g].cuerpo.clave
           /\ Contesta(g, 409)
  <2>1. tabla = "parametro" /\ peticiones[g].ruta = "crear"
    BY <1>1 DEF InvTipos, Forma, En, DeInsertar
  <2>2. Nulo \notin DOMAIN filas
    BY NuloSupuesto DEF InvTipos, TiposTablas
  <2>3. Repetida(peticiones[g].cuerpo.clave, Nulo)
    BY <1>2, <2>1, <2>2 DEF Repetida, Unica
  <2>4. Abs!Razon(g, 409)
    BY <2>1, <2>3, MismaTomada, PedidosDe DEF Abs!Razon
  <2>5. QED
    BY <1>1, <1>2, <2>4, ContestaRechaza DEF En
<1>3. CASE Pasa(g, "insertar")
  BY <1>1, <1>3, PasaInvisible
<1>4. QED
  BY <1>2, <1>3, LanzarContesta DEF BuscarCodigo

LEMMA InsertarRefina ==
  ASSUME InvTipos, NEW g \in Peticiones, Insertar(g)
  PROVE  Abs!Rechazar(g) \/ UNCHANGED Abs!vars
<1>1. En(g, "insertar") /\ UNCHANGED <<tabla, filas>> /\ secuencia < MaxFilas
  BY DEF Insertar
<1>2. CASE /\ ~ (peticiones[g].cuerpo.valido /\ ~ Repetida(peticiones[g].cuerpo.clave, Nulo))
           /\ Contesta(g, 500)
  <2>1. peticiones[g].id = Nulo
    BY <1>1 DEF InvTipos, Forma, En, DeInsertar
  <2>2. Abs!Razon(g, 500)
    BY <1>2, <2>1, MismaTomada, PedidosDe DEF Abs!Razon
  <2>3. QED
    BY <1>1, <1>2, <2>2, ContestaRechaza DEF En
<1>3. CASE Sigue(g, [peticiones[g] EXCEPT !.pc = "confirmar", !.nuevo = secuencia + 1])
  <2> DEFINE r == Insertada(g)
  <2>1. Sigue(g, r)
    BY <1>3 DEF Insertada
  <2>2. /\ r.codigo = peticiones[g].codigo /\ r.ruta = peticiones[g].ruta
        /\ r.id = peticiones[g].id /\ r.cuerpo = peticiones[g].cuerpo
    BY <1>1, InsertadaTipada
  <2> HIDE DEF r
  <2>3. QED
    BY <1>1, <2>1, <2>2, PasoInvisible DEF Vista
<1>4. QED
  BY <1>2, <1>3, LanzarContesta DEF Insertar

\* The order to create is done at the COMMIT.
LEMMA ConfirmarRefina ==
  ASSUME InvCatalogo, NEW g \in Peticiones, Confirmar(g)
  PROVE  Abs!Crear(g)
<1> DEFINE n == peticiones[g].nuevo
           k == peticiones[g].cuerpo.clave
<1>t. InvTipos /\ Nuevas /\ (Unica(tabla) => SinRepetir)
  BY DEF InvCatalogo, InvClaves
<1>1. /\ En(g, "confirmar") /\ UNCHANGED <<tabla, secuencia>>
      /\ filas' = [i \in DOMAIN filas \cup {n} |-> IF i = n THEN NuevaFila(k) ELSE filas[i]]
  BY DEF Confirmar
<1>2. /\ peticiones[g].ruta = "crear" /\ peticiones[g].ruta # Nulo
      /\ peticiones[g].cuerpo.valido
  BY <1>t, <1>1 DEF InvTipos, Forma, En, DeInsertar
<1>3. ~ Repetida(k, Nulo)
  BY <1>t, <1>1 DEF Repetida, SinRepetir
<1>4. n \in DOMAIN filas' \ DOMAIN filas
  BY <1>t, <1>1, ConfirmarFilas DEF Nuevas
<1>5. filas' = [j \in DOMAIN filas \cup {n} |->
                  IF j = n THEN [clave |-> k, estado |-> "ACTIVO"] ELSE filas[j]]
  BY <1>1 DEF NuevaFila
<1>6. Abs!Decide(g, 201) \/ (Fallos /\ Abs!Decide(g, 500))
  BY <1>t, LanzarContesta, ContestaDecide DEF Confirmar, Contestada
<1>7. /\ Pedidos[g].ruta = "crear" /\ Pedidos[g].cuerpo.valido /\ Pedidos[g].cuerpo.clave = k
      /\ Abs!Pendiente(g) /\ ~ Abs!Tomada(Pedidos[g].cuerpo.clave, Nulo)
  BY <1>t, <1>2, <1>3, MismaTomada, PedidosDe DEF Abs!Pendiente
<1> HIDE DEF n, k
<1>8. \E i \in DOMAIN filas' \ DOMAIN filas :
        filas' = [j \in DOMAIN filas \cup {i} |->
                    IF j = i THEN [clave |-> k, estado |-> "ACTIVO"] ELSE filas[j]]
  BY <1>4, <1>5, Zenon
<1>9. QED
  BY <1>1, <1>6, <1>7, <1>8 DEF Abs!Crear, Abs!Hecha

LEMMA BuscarPorIdRefina ==
  ASSUME InvTipos, NEW g \in Peticiones, BuscarPorId(g)
  PROVE  Abs!Rechazar(g) \/ UNCHANGED Abs!vars
<1>1. En(g, "buscarPorId") /\ UNCHANGED <<tabla, filas>>
  BY DEF BuscarPorId
<1>2. peticiones[g].ruta # "crear"
  BY <1>1 DEF InvTipos, Forma, En, DeCambiar
<1>3. CASE peticiones[g].id \notin DOMAIN filas /\ tabla = "pelicula" /\ Contesta(g, 412)
  <2>1. Abs!Razon(g, 412)
    BY <1>2, <1>3, PedidosDe DEF Abs!Razon
  <2>2. QED
    BY <1>1, <1>3, <2>1, ContestaRechaza DEF En
<1>4. CASE peticiones[g].id \notin DOMAIN filas /\ tabla # "pelicula" /\ Contesta(g, 404)
  <2>1. Abs!Razon(g, 404)
    BY <1>2, <1>4, PedidosDe DEF Abs!Razon
  <2>2. QED
    BY <1>1, <1>4, <2>1, ContestaRechaza DEF En
<1>5. CASE Pasa(g, "actualizar")
  BY <1>1, <1>5, PasaInvisible
<1>6. QED
  BY <1>3, <1>4, <1>5, LanzarContesta DEF BuscarPorId, NoEncontrada

\* An order to change is done by its UPDATE, if it finds the row and the table admits it.
LEMMA ActualizarRefina ==
  ASSUME InvTipos, NEW g \in Peticiones, Actualizar(g)
  PROVE  Abs!Cambiar(g) \/ Abs!Rechazar(g)
<1> DEFINE n == peticiones[g].id
           c == peticiones[g].cuerpo
<1>1. En(g, "actualizar") /\ UNCHANGED <<tabla, secuencia>>
  BY ActualizarDetalle
<1>2. /\ peticiones[g].ruta # "crear" /\ peticiones[g].ruta # Nulo
      /\ n \in DOMAIN filas \/ (tabla = "modulo" /\ peticiones[g].ruta = "actualizar")
  BY <1>1 DEF InvTipos, Forma, En, DeCambiar
<1>3. CASE n \notin DOMAIN filas /\ Contesta(g, 200) /\ UNCHANGED filas
  <2>1. Abs!Razon(g, 200)
    BY <1>2, <1>3, PedidosDe DEF Abs!Razon
  <2>2. QED
    BY <1>1, <1>3, <2>1, ContestaRechaza DEF En
<1>4. CASE Contesta(g, 500) /\ UNCHANGED filas /\ (~ c.valido \/ Repetida(c.clave, n))
  <2>1. Abs!Razon(g, 500)
    BY <1>4, MismaTomada, PedidosDe DEF Abs!Razon
  <2>2. QED
    BY <1>1, <1>4, <2>1, ContestaRechaza DEF En
<1>5. CASE /\ n \in DOMAIN filas /\ c.valido /\ ~ Repetida(c.clave, n)
           /\ filas' = [filas EXCEPT ![n] = ConColumnas(@, c)] /\ Contestada(g, 200)
  <2>1. Abs!Decide(g, 200) \/ (Fallos /\ Abs!Decide(g, 500))
    BY <1>5, LanzarContesta, ContestaDecide DEF Contestada
  <2>2. /\ Abs!Pendiente(g) /\ Pedidos[g].ruta # "crear" /\ Pedidos[g].id = n
        /\ Pedidos[g].cuerpo = c /\ ~ Abs!Tomada(c.clave, n)
    BY <1>2, <1>5, MismaTomada, PedidosDe DEF Abs!Pendiente
  <2>3. filas[n] \in Filas
    BY <1>5 DEF InvTipos, TiposTablas
  <2> HIDE DEF n, c
  <2>4. filas' = [filas EXCEPT
                    ![n].clave = IF c.clave = Nulo THEN @ ELSE c.clave,
                    ![n].estado = IF c.estado = Nulo THEN @ ELSE c.estado]
    BY <1>5, <2>3 DEF ConColumnas, Filas
  <2>5. Abs!Cambiar(g)
    BY <1>1, <1>5, <2>1, <2>2, <2>4 DEF Abs!Cambiar, Abs!Hecha
  <2>6. QED
    BY <2>5
<1>6. QED
  BY <1>3, <1>4, <1>5, ActualizarDetalle, Zenon

LEMMA FallarRefina ==
  ASSUME InvTipos, NEW g \in Peticiones, Eliminar(g) \/ Abortar(g)
  PROVE  Abs!Rechazar(g)
<1>1. /\ Contesta(g, 500) /\ UNCHANGED <<tabla, filas>>
      /\ peticiones[g].pc \notin {"libre", "fin"}
  BY LanzarContesta DEF Eliminar, Abortar, En
<1>2. Fallos \/ (tabla = "modulo" /\ peticiones[g].ruta = "eliminar")
  BY DEF Eliminar, Abortar, En, InvTipos, Forma
<1>3. Abs!Razon(g, 500)
  BY <1>2, PedidosDe DEF Abs!Razon
<1>4. QED
  BY <1>1, <1>3, ContestaRechaza

LEMMA ResponderRefina ==
  ASSUME InvTipos, NEW g \in Peticiones, Responder(g)
  PROVE  Abs!Responder(g)
<1>1. Sigue(g, Libre) /\ UNCHANGED <<tabla, filas>> /\ En(g, "fin")
  BY DEF Responder
<1>2. Pedidos' = [Pedidos EXCEPT ![g] = Abs!Nadie]
  BY <1>1, PedidosPaso, VistaLibre
<1>3. Pedidos[g].codigo # 0
  BY <1>1, PedidosDe DEF InvTipos, Forma, En
<1>4. QED
  BY <1>1, <1>2, <1>3 DEF Abs!Responder

LEMMA PasoRefina == InvCatalogo /\ [NextCatalogo]_varsCatalogo => [Abs!Next]_(Abs!vars)
<1> SUFFICES ASSUME InvCatalogo, [NextCatalogo]_varsCatalogo
             PROVE  Abs!Next \/ UNCHANGED Abs!vars
  OBVIOUS
<1>t. InvTipos
  BY DEF InvCatalogo
<1>1. CASE UNCHANGED varsCatalogo
  BY <1>1 DEF varsCatalogo, Abs!vars, Pedidos
<1>2. ASSUME NEW g \in Peticiones, Llegar(g) PROVE Abs!Next
  BY <1>t, <1>2, LlegarPide DEF Abs!Next
<1>3. ASSUME NEW g \in Peticiones, BuscarCodigo(g) \/ Insertar(g) \/ BuscarPorId(g)
      PROVE  Abs!Next \/ UNCHANGED Abs!vars
  BY <1>t, <1>3, BuscarCodigoRefina, InsertarRefina, BuscarPorIdRefina DEF Abs!Next
<1>4. ASSUME NEW g \in Peticiones, Confirmar(g) PROVE Abs!Next
  BY <1>4, ConfirmarRefina DEF Abs!Next
<1>5. ASSUME NEW g \in Peticiones, Actualizar(g) PROVE Abs!Next
  BY <1>t, <1>5, ActualizarRefina DEF Abs!Next
<1>6. ASSUME NEW g \in Peticiones, Eliminar(g) \/ Abortar(g) PROVE Abs!Next
  BY <1>t, <1>6, FallarRefina DEF Abs!Next
<1>7. ASSUME NEW g \in Peticiones, Responder(g) PROVE Abs!Next
  BY <1>t, <1>7, ResponderRefina DEF Abs!Next
<1>8. QED
  BY <1>1, <1>2, <1>3, <1>4, <1>5, <1>6, <1>7, Zenon DEF NextCatalogo, Atender

\* Whatever requests overlap, fail or lose their answers, an order to a catalogue is done at
\* most once and at one moment, on the columns it gave, and no answer says otherwise: the
\* statements of the four services implement CatalogoAbs.
THEOREM CatalogoImplementa == SpecCatalogo => ImplementaCatalogo
<1>1. InitCatalogo => Abs!Init
  <2> SUFFICES ASSUME InitCatalogo PROVE Abs!Init
    OBVIOUS
  <2>1. \A g \in Peticiones : Vista(peticiones[g]) = Abs!Nadie
    BY VistaLibre DEF InitCatalogo
  <2>2. Pedidos = [g \in Peticiones |-> Abs!Nadie]
    BY <2>1 DEF Pedidos, Vista
  <2>3. QED
    BY <2>2 DEF InitCatalogo, Abs!Init
<1>2. QED
  BY <1>1, PasoRefina, CatalogoSiempre, PTL DEF SpecCatalogo, ImplementaCatalogo, Abs!Spec

-----------------------------------------------------------------------------
\* The reader of pages (Recorrido)

\* Arithmetic of pages: the next page begins where this one ends.
LEMMA PaginaSiguiente ==
  ASSUME NEW p \in Nat, p > 0
  PROVE  /\ Saltar(p) \in Nat /\ p * Limite \in Nat
         /\ Saltar(p + 1) = p * Limite
         /\ Saltar(p) + Limite = p * Limite
         /\ Saltar(1) = 0
<1>1. Limite \in Nat /\ p - 1 \in Nat
  BY LimiteSupuesto
<1>2. (p - 1) * Limite \in Nat /\ p * Limite \in Nat
  BY <1>1
<1>3. (p - 1) * Limite + Limite = p * Limite
  BY <1>1
<1>4. (p + 1) - 1 = p /\ (1 - 1) * Limite = 0
  BY <1>1
<1>5. QED
  BY <1>2, <1>3, <1>4 DEF Saltar

\* Sets of rows can be counted.
LEMMA Contable ==
  ASSUME NEW S, S \subseteq 1..MaxIds
  PROVE  IsFiniteSet(S) /\ Cardinality(S) \in Nat
<1>1. 1 \in Int /\ MaxIds \in Int
  BY MaxIdsSupuesto
<1>2. IsFiniteSet(1..MaxIds)
  BY <1>1, FS_Interval
<1>3. S \in SUBSET (1..MaxIds)
  OBVIOUS
<1>4. IsFiniteSet(S)
  BY <1>2, <1>3, FS_Subset
<1>5. QED
  BY <1>4, FS_CardinalityType

\* The rank of a row is a number, no greater than how many rows there are.
LEMMA RangoAcotado ==
  ASSUME ids \subseteq 1..MaxIds, NEW i \in ids
  PROVE  /\ IsFiniteSet(ids) /\ Cardinality(ids) \in Nat
         /\ Rango(i) \in Nat /\ 0 < Rango(i) /\ Rango(i) <= Cardinality(ids)
<1> DEFINE menores == {j \in ids : j <= i}
<1>1. IsFiniteSet(ids)
  BY Contable
<1>2. Cardinality(ids) \in Nat
  BY Contable
<1>3. IsFiniteSet(menores) /\ Cardinality(menores) <= Cardinality(ids)
  BY <1>1, FS_Subset
<1>4. Cardinality(menores) \in Nat
  BY <1>3, FS_CardinalityType
<1>5. i \in menores
  BY MaxIdsSupuesto
<1>6. Cardinality(menores) # 0
  BY <1>3, <1>5, FS_EmptySet
<1>7. QED
  BY <1>1, <1>2, <1>3, <1>4, <1>6 DEF Rango

\* New rows push the others on, never back.
LEMMA RangoCrece ==
  ASSUME ids' \subseteq 1..MaxIds, ids \subseteq ids', NEW i \in ids
  PROVE  Rango(i) <= Rango(i)' /\ Cardinality(ids) <= Cardinality(ids')
<1> DEFINE antes == {j \in ids : j <= i}
           ahora == {j \in ids' : j <= i}
<1>1. IsFiniteSet(ids')
  BY Contable
<1>2. IsFiniteSet(ahora)
  BY <1>1, FS_Subset
<1>3. antes \subseteq ahora
  OBVIOUS
<1>4. Cardinality(antes) <= Cardinality(ahora) /\ Cardinality(ids) <= Cardinality(ids')
  BY <1>1, <1>2, <1>3, FS_Subset
<1>5. QED
  BY <1>4 DEF Rango

LEMMA RangoFuturo ==
  ASSUME ids' \subseteq 1..MaxIds, NEW i \in ids'
  PROVE  Rango(i)' \in Nat
<1> DEFINE menores == {j \in ids' : j <= i}
<1>1. menores \subseteq 1..MaxIds
  OBVIOUS
<1>2. Cardinality(menores) \in Nat
  BY <1>1, Contable
<1>3. QED
  BY <1>2 DEF Rango

-----------------------------------------------------------------------------
\* Types

Clase == [fase : Fases, pagina : Nat, previas : SUBSET (1..MaxIds), vistas : SUBSET (1..MaxIds)]

\* TypeOKRecorrido with the record typed as a whole
InvPaginas == TypeOKRecorrido /\ recorrido \in Clase

LEMMA PaginasInicial == InitRecorrido => InvPaginas
<1> SUFFICES ASSUME InitRecorrido PROVE InvPaginas
  OBVIOUS
<1>1. recorrido \in Clase
  BY DEF InitRecorrido, SinRecorrido, Clase, Fases
<1>2. QED
  BY <1>1 DEF InitRecorrido, SinRecorrido, InvPaginas, TypeOKRecorrido, Fases

LEMMA PaginasSiguiente == InvPaginas /\ [NextRecorrido]_varsRecorrido => InvPaginas'
<1> SUFFICES ASSUME InvPaginas, [NextRecorrido]_varsRecorrido PROVE InvPaginas'
  OBVIOUS
<1> USE DEF InvPaginas
<1>t. /\ lista \in {"parametro", "rol", "modulo", "pelicula"} /\ ids \subseteq 1..MaxIds
      /\ recorrido \in Clase
      /\ recorrido.fase # "no" =>
           recorrido.pagina > 0 /\ Saltar(recorrido.pagina) <= Cardinality(ids)
      /\ recorrido.previas \subseteq ids /\ recorrido.vistas \subseteq ids
  BY DEF TypeOKRecorrido
<1>c. IsFiniteSet(ids) /\ Cardinality(ids) \in Nat
  BY <1>t, Contable
<1>1. CASE UNCHANGED varsRecorrido
  BY <1>1 DEF varsRecorrido, TypeOKRecorrido, Saltar
<1>2. ASSUME Aparecer, UNCHANGED lista PROVE InvPaginas'
  <2>1. ids' \subseteq 1..MaxIds /\ ids \subseteq ids' /\ recorrido' = recorrido
    BY <1>2, <1>t DEF Aparecer
  <2>2. Cardinality(ids) <= Cardinality(ids') /\ Cardinality(ids') \in Nat
    BY <2>1, Contable, FS_Subset
  <2>3. recorrido.fase # "no" => Saltar(recorrido.pagina) \in Nat
    BY <1>t, PaginaSiguiente DEF Clase
  <2>4. recorrido.fase # "no" => Saltar(recorrido.pagina) <= Cardinality(ids')
    BY <1>t, <1>c, <2>2, <2>3
  <2>5. QED
    BY <1>2, <1>t, <2>1, <2>4 DEF TypeOKRecorrido, Clase, Saltar
<1>3. ASSUME Empezar, UNCHANGED <<ids, lista>> PROVE InvPaginas'
  <2>1. recorrido' = [fase |-> "select", pagina |-> 1, previas |-> ids, vistas |-> {}]
    BY <1>3 DEF Empezar
  <2>2. Saltar(1) <= Cardinality(ids)
    BY <1>c, PaginaSiguiente
  <2>3. QED
    BY <1>3, <1>t, <2>1, <2>2 DEF TypeOKRecorrido, Clase, Fases, Saltar
<1>4. ASSUME Seleccionar, UNCHANGED <<ids, lista>> PROVE InvPaginas'
  <2>1. PICK s \in Paginas(recorrido.pagina) :
               recorrido' = [recorrido EXCEPT !.fase = "count", !.vistas = @ \cup s]
    BY <1>4 DEF Seleccionar
  <2>2. s \subseteq ids
    BY <2>1 DEF Paginas, EnOrden
  <2>3. /\ recorrido'.fase = "count" /\ recorrido'.pagina = recorrido.pagina
        /\ recorrido'.previas = recorrido.previas
        /\ recorrido'.vistas = recorrido.vistas \cup s /\ recorrido' \in Clase
    BY <1>t, <2>1, <2>2 DEF Clase, Fases
  <2>4. recorrido.fase # "no"
    BY <1>4 DEF Seleccionar
  <2>5. QED
    BY <1>4, <1>t, <2>2, <2>3, <2>4 DEF TypeOKRecorrido, Fases, Saltar
<1>5. ASSUME Contar, UNCHANGED <<ids, lista>> PROVE InvPaginas'
  <2>1. recorrido.fase = "count" /\ recorrido.pagina \in Nat /\ recorrido.pagina > 0
    BY <1>5, <1>t DEF Contar, Clase
  <2>2. CASE HayMas(recorrido.pagina, Cardinality(ids))
    <3> DEFINE n == recorrido.pagina + 1
    <3>0. n \in Nat
      BY <2>1
    <3>1. recorrido' = [recorrido EXCEPT !.fase = "select", !.pagina = n]
      BY <1>5, <2>2 DEF Contar
    <3> HIDE DEF n
    <3>a. /\ recorrido'.fase = "select" /\ recorrido'.pagina = n
          /\ recorrido'.previas = recorrido.previas /\ recorrido'.vistas = recorrido.vistas
          /\ recorrido' \in Clase
      BY <1>t, <3>0, <3>1 DEF Clase, Fases
    <3>2. /\ recorrido'.fase = "select" /\ recorrido'.pagina = recorrido.pagina + 1
          /\ recorrido'.previas = recorrido.previas /\ recorrido'.vistas = recorrido.vistas
          /\ recorrido' \in Clase
      BY <3>a DEF n
    <3>3. Saltar(recorrido.pagina + 1) <= Cardinality(ids)
      BY <1>c, <2>1, <2>2, PaginaSiguiente DEF HayMas
    <3>4. recorrido'.pagina > 0 /\ Saltar(recorrido'.pagina) <= Cardinality(ids)
      BY <2>1, <3>2, <3>3
    <3>5. QED
      BY <1>5, <1>t, <3>2, <3>4 DEF TypeOKRecorrido, Fases, Saltar
  <2>3. CASE ~ HayMas(recorrido.pagina, Cardinality(ids))
    <3>1. recorrido' = [recorrido EXCEPT !.fase = "fin"]
      BY <1>5, <2>3 DEF Contar
    <3>2. /\ recorrido'.fase = "fin" /\ recorrido'.pagina = recorrido.pagina
          /\ recorrido'.previas = recorrido.previas /\ recorrido'.vistas = recorrido.vistas
          /\ recorrido' \in Clase
      BY <1>t, <3>1 DEF Clase, Fases
    <3>3. QED
      BY <1>5, <1>t, <2>1, <3>2 DEF TypeOKRecorrido, Fases, Saltar
  <2>4. QED
    BY <2>2, <2>3
<1>6. ASSUME Dejar, UNCHANGED <<ids, lista>> PROVE InvPaginas'
  BY <1>6, <1>t DEF Dejar, SinRecorrido, TypeOKRecorrido, Clase, Fases
<1>7. QED
  BY <1>1, <1>2, <1>3, <1>4, <1>5, <1>6, Zenon DEF NextRecorrido, Leer

LEMMA PaginasSiempre == SpecRecorrido => []InvPaginas
BY PaginasInicial, PaginasSiguiente, PTL DEF SpecRecorrido

\* However the table grows between two statements, the reader never asks for a page that
\* begins beyond the rows there are, and what it has seen exists.
THEOREM TipoCorrectoRecorrido == SpecRecorrido => []TypeOKRecorrido
<1>1. InvPaginas => TypeOKRecorrido
  BY DEF InvPaginas
<1>2. QED
  BY <1>1, PaginasSiempre, PTL

-----------------------------------------------------------------------------
\* The rows still unseen are on the pages to come, and nothing is missing at the end.

InvRecorrido == InvPaginas /\ LoQueFalta /\ RecorridoCompleto

LEMMA CompletoInicial == InitRecorrido => LoQueFalta /\ RecorridoCompleto
BY DEF InitRecorrido, SinRecorrido, LoQueFalta, RecorridoCompleto

LEMMA CompletoSiguiente ==
  InvRecorrido /\ [NextRecorrido]_varsRecorrido => (LoQueFalta /\ RecorridoCompleto)'
<1> SUFFICES ASSUME InvRecorrido, [NextRecorrido]_varsRecorrido
             PROVE  (LoQueFalta /\ RecorridoCompleto)'
  OBVIOUS
<1>t. /\ ids \subseteq 1..MaxIds /\ recorrido \in Clase
      /\ recorrido.fase # "no" => recorrido.pagina > 0
      /\ recorrido.previas \subseteq ids /\ recorrido.vistas \subseteq ids
  BY DEF InvRecorrido, InvPaginas, TypeOKRecorrido
<1>p. recorrido.pagina \in Nat
  BY <1>t DEF Clase
<1>1. CASE UNCHANGED varsRecorrido
  BY <1>1 DEF InvRecorrido, varsRecorrido, LoQueFalta, RecorridoCompleto, Rango, Saltar
<1>2. ASSUME Aparecer, UNCHANGED lista PROVE (LoQueFalta /\ RecorridoCompleto)'
  <2>1. ids' \subseteq 1..MaxIds /\ ids \subseteq ids' /\ recorrido' = recorrido
    BY <1>2, <1>t DEF Aparecer
  <2>2. RecorridoCompleto'
    BY <1>2, <2>1 DEF InvRecorrido, RecorridoCompleto
  <2>3. ASSUME lista \in {"rol", "modulo"}, NEW i \in recorrido.previas \ recorrido.vistas
        PROVE  Rango(i)' > (IF recorrido.fase = "count" THEN recorrido.pagina * Limite
                            ELSE Saltar(recorrido.pagina))
    <3> DEFINE n == IF recorrido.fase = "count" THEN recorrido.pagina * Limite
                    ELSE Saltar(recorrido.pagina)
    <3>1. i \in ids /\ i \in ids'
      BY <1>t, <2>1
    <3>2. Rango(i) \in Nat /\ Rango(i)' \in Nat
      BY <1>t, <2>1, <3>1, RangoAcotado, RangoFuturo
    <3>3. Rango(i) <= Rango(i)'
      BY <2>1, <3>1, RangoCrece
    <3>4. Rango(i) > n
      BY <2>3 DEF InvRecorrido, LoQueFalta
    <3>5. n \in Int
      BY <1>p, LimiteSupuesto DEF Saltar
    <3> HIDE DEF n
    <3>6. Rango(i)' > n
      BY <3>2, <3>3, <3>4, <3>5
    <3>7. QED
      BY <3>6 DEF n
  <2>4. LoQueFalta'
    BY <1>2, <2>1, <2>3 DEF LoQueFalta, Saltar
  <2>5. QED
    BY <2>2, <2>4
<1>3. ASSUME Empezar, UNCHANGED <<ids, lista>> PROVE (LoQueFalta /\ RecorridoCompleto)'
  <2>1. recorrido' = [fase |-> "select", pagina |-> 1, previas |-> ids, vistas |-> {}]
    BY <1>3 DEF Empezar
  <2>2. \A i \in ids : Rango(i)' > Saltar(1)
    <3> SUFFICES ASSUME NEW i \in ids PROVE Rango(i)' > Saltar(1)
      OBVIOUS
    <3>1. Rango(i)' = Rango(i)
      BY <1>3 DEF Rango
    <3>2. QED
      BY <1>t, <3>1, RangoAcotado, PaginaSiguiente
  <2>3. LoQueFalta'
    BY <2>1, <2>2 DEF LoQueFalta, Saltar
  <2>4. RecorridoCompleto'
    BY <2>1 DEF RecorridoCompleto
  <2>5. QED
    BY <2>3, <2>4
<1>4. ASSUME Seleccionar, UNCHANGED <<ids, lista>> PROVE (LoQueFalta /\ RecorridoCompleto)'
  <2>1. PICK s \in Paginas(recorrido.pagina) :
               recorrido' = [recorrido EXCEPT !.fase = "count", !.vistas = @ \cup s]
    BY <1>4 DEF Seleccionar
  <2>2. /\ recorrido'.fase = "count" /\ recorrido'.pagina = recorrido.pagina
        /\ recorrido'.previas = recorrido.previas
        /\ recorrido'.vistas = recorrido.vistas \cup s
    BY <1>t, <2>1 DEF Clase
  <2>3. recorrido.fase = "select" /\ recorrido.pagina > 0
    BY <1>4, <1>t DEF Seleccionar
  <2>4. ASSUME lista \in {"rol", "modulo"}, NEW i \in recorrido.previas \ (recorrido.vistas \cup s)
        PROVE  Rango(i)' > recorrido.pagina * Limite
    <3>1. i \in ids /\ Rango(i) \in Nat
      BY <1>t, RangoAcotado
    <3>2. Rango(i) > Saltar(recorrido.pagina)
      BY <2>3, <2>4 DEF InvRecorrido, LoQueFalta
    <3>3. s = EnOrden(recorrido.pagina)
      BY <2>1, <2>4 DEF Paginas, Ordenada
    <3>4. ~ (Rango(i) <= Saltar(recorrido.pagina) + Limite)
      BY <2>4, <3>1, <3>2, <3>3 DEF EnOrden
    <3>5. ~ (Rango(i) <= recorrido.pagina * Limite)
      BY <1>p, <2>3, <3>4, PaginaSiguiente
    <3>6. Rango(i) > recorrido.pagina * Limite
      BY <1>p, <2>3, <3>1, <3>5, PaginaSiguiente
    <3>7. Rango(i)' = Rango(i)
      BY <1>4 DEF Rango
    <3>8. QED
      BY <3>6, <3>7
  <2>5. LoQueFalta'
    BY <1>4, <2>2, <2>4 DEF LoQueFalta
  <2>6. RecorridoCompleto'
    BY <2>2 DEF RecorridoCompleto
  <2>7. QED
    BY <2>5, <2>6
<1>5. ASSUME Contar, UNCHANGED <<ids, lista>> PROVE (LoQueFalta /\ RecorridoCompleto)'
  <2>1. recorrido.fase = "count" /\ recorrido.pagina > 0
    BY <1>5, <1>t DEF Contar
  <2>2. \A i \in ids : Rango(i)' = Rango(i)
    BY <1>5 DEF Rango
  <2>3. ASSUME lista \in {"rol", "modulo"}
        PROVE  \A i \in recorrido.previas \ recorrido.vistas : Rango(i) > recorrido.pagina * Limite
    BY <2>1, <2>3 DEF InvRecorrido, LoQueFalta
  <2>4. CASE HayMas(recorrido.pagina, Cardinality(ids))
    <3> DEFINE n == recorrido.pagina + 1
    <3>1. n \in Nat /\ Saltar(n) = recorrido.pagina * Limite
      BY <1>p, <2>1, PaginaSiguiente
    <3>2. recorrido' = [recorrido EXCEPT !.fase = "select", !.pagina = n]
      BY <1>5, <2>4 DEF Contar
    <3> HIDE DEF n
    <3>3. /\ recorrido'.fase = "select" /\ recorrido'.pagina = n
          /\ recorrido'.previas = recorrido.previas /\ recorrido'.vistas = recorrido.vistas
      BY <1>t, <3>1, <3>2 DEF Clase
    <3>4. LoQueFalta'
      <4> SUFFICES ASSUME lista \in {"rol", "modulo"},
                          NEW i \in recorrido.previas \ recorrido.vistas
                   PROVE  Rango(i)' > Saltar(n)
        BY <1>5, <3>3 DEF LoQueFalta, Saltar
      <4>1. QED
        BY <1>t, <2>2, <2>3, <3>1
    <3>5. QED
      BY <3>3, <3>4 DEF RecorridoCompleto
  <2>5. CASE ~ HayMas(recorrido.pagina, Cardinality(ids))
    <3>1. recorrido' = [recorrido EXCEPT !.fase = "fin"]
      BY <1>5, <2>5 DEF Contar
    <3>2. /\ recorrido'.fase = "fin" /\ recorrido'.pagina = recorrido.pagina
          /\ recorrido'.previas = recorrido.previas /\ recorrido'.vistas = recorrido.vistas
      BY <1>t, <3>1 DEF Clase
    <3>3. ASSUME lista \in {"rol", "modulo"},
                 NEW i \in recorrido.previas \ recorrido.vistas
          PROVE  FALSE
      <4>1. Rango(i) \in Nat /\ Cardinality(ids) \in Nat /\ Rango(i) <= Cardinality(ids)
        BY <1>t, RangoAcotado
      <4>2. recorrido.pagina * Limite \in Nat
        BY <1>p, <2>1, PaginaSiguiente
      <4>3. ~ (recorrido.pagina * Limite < Cardinality(ids))
        BY <2>5 DEF HayMas
      <4>4. Rango(i) > recorrido.pagina * Limite
        BY <2>3, <3>3
      <4>5. QED
        BY <4>1, <4>2, <4>3, <4>4
    <3>4. QED
      BY <1>5, <3>2, <3>3 DEF LoQueFalta, RecorridoCompleto
  <2>6. QED
    BY <2>4, <2>5
<1>6. ASSUME Dejar, UNCHANGED <<ids, lista>> PROVE (LoQueFalta /\ RecorridoCompleto)'
  BY <1>6 DEF Dejar, SinRecorrido, LoQueFalta, RecorridoCompleto
<1>7. QED
  BY <1>1, <1>2, <1>3, <1>4, <1>5, <1>6, Zenon DEF NextRecorrido, Leer

LEMMA RecorridoSiempre == SpecRecorrido => []InvRecorrido
<1>1. InitRecorrido => InvRecorrido
  BY PaginasInicial, CompletoInicial DEF InvRecorrido
<1>2. InvRecorrido /\ [NextRecorrido]_varsRecorrido => InvRecorrido'
  BY PaginasSiguiente, CompletoSiguiente DEF InvRecorrido
<1>3. QED
  BY <1>1, <1>2, PTL DEF SpecRecorrido

\* Whatever rows are committed between two pages, a row that was there at the beginning and
\* has not been seen is on a page to come: no page skips it.
THEOREM NadaSeSalta == SpecRecorrido => []LoQueFalta
<1>1. InvRecorrido => LoQueFalta
  BY DEF InvRecorrido
<1>2. QED
  BY <1>1, RecorridoSiempre, PTL

\* Whoever reads all the pages of roles or modulos, of any size and with any number of rows
\* appearing meanwhile, has seen every row that was there when they began.
THEOREM SiempreCompleto == SpecRecorrido => []RecorridoCompleto
<1>1. InvRecorrido => RecorridoCompleto
  BY DEF InvRecorrido
<1>2. QED
  BY <1>1, RecorridoSiempre, PTL
=============================================================================
