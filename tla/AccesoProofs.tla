---------------------------- MODULE AccesoProofs -----------------------------
(***************************************************************************)
(* Theorems about Acceso: logins, unlockings, registrations, activations,   *)
(* recoveries and the acts of administrators, any number of them overlapping *)
(* on any number of accounts.                                               *)
(***************************************************************************)
EXTENDS Acceso, BloqueoProofs

-----------------------------------------------------------------------------
\* The inductive invariant behind the types: InvIntentos, and that a handler of
\* Cuenta that will mail a random value holds one.

PcConCodigo == {"correoCuenta", "recuperar", "correoRecuperar", "activar",
                "correoActivar", "restaurar", "correoRestaurar", "reenviar",
                "correoReenviar"}

ConCodigo(p) ==
  peticiones[p].pc \in PcConCodigo => peticiones[p].codigo \in Aleatorios

InvAcceso == InvIntentos(PcAcceso) /\ \A p \in Peticiones : ConCodigo(p)

\* Where requests of Cuenta start.
PcInicial == {"insertar", "activarCuenta", "recuperar", "validar",
              "nuevaContrasena", "activar", "inactivar", "cambiar", "restaurar",
              "reenviar"}

\* Where the local "clave" is a new password to be stored.
PcConClave == {"insertar", "correoCuenta", "confirmarCuenta", "nuevaContrasena", "cambiar"}

\* The only values that stop being delivered are those nobody holds.
SinRetirar == \A c \in EnUso : c \in entregados => c \in entregados'

-----------------------------------------------------------------------------
\* A fresh value takes nothing from anybody, nor does a mail.
LEMMA NuevoSinRetirar ==
  ASSUME NEW c, Nuevo(c) \/ entregados \subseteq entregados'
  PROVE  SinRetirar
BY DEF Nuevo, SinRetirar

\* What a request of Cuenta is when it has started.
LEMMA EmpiezaTipada ==
  ASSUME NEW p \in Peticiones, NEW pc \in PcInicial, NEW u \in Usuarios,
         NEW k \in Contrasenas \cup {Nulo}, NEW c \in Codigo, Empieza(p, pc, u, k, c)
  PROVE  \E r \in Peticion(PcAcceso) :
           Sigue(p, r) /\ r.pc = pc /\ r.u = u /\ r.clave = k /\ r.codigo = c
<1> DEFINE r == [Libre EXCEPT !.pc = pc, !.u = u, !.clave = k, !.codigo = c]
<1>1. Libre \in Peticion(PcAcceso)
  BY LibreTipado DEF PcAcceso, PcBloqueo
<1>2. pc \in PcAcceso
  BY DEF PcInicial, PcAcceso, PcCuenta
<1>3. r \in Peticion(PcAcceso) /\ r.pc = pc /\ r.u = u /\ r.clave = k /\ r.codigo = c
  BY <1>1, <1>2 DEF Peticion
<1>4. Sigue(p, r)
  BY DEF Empieza
<1>5. QED
  BY <1>3, <1>4

\* What the first read of a request found: a row that was inserted or, for crearCuenta,
\* none; a code to look for is in the row.
Leida(pc, u) ==
  /\ pc # "insertar" => usuarios[u] # FilaNueva("AUSENTE", Nulo)
  /\ pc = "validar" => usuarios[u].codigoRecuperacion # Nulo

\* Every request of Cuenta starts by reading: it writes no row, and keeps a
\* typed password or a fresh value for later.
LEMMA PedirForma ==
  ASSUME InvAcceso, NEW p \in Peticiones, PedirCuenta(p)
  PROVE  \E pc \in PcInicial, u \in Usuarios, k \in Claves \cup {Nulo}, c \in Codigo :
           /\ Empieza(p, pc, u, k, c) /\ Leida(pc, u)
           /\ pc \in PcConCodigo => c \in Aleatorios
           /\ pc \in PcConClave => k \in Claves
           /\ UNCHANGED <<usuarios, reloj, erroneos>>
           /\ entregados' \subseteq entregados
           /\ SinRetirar
<1> USE DEF PcInicial, PcConCodigo, PcConClave, Codigo, Quieto
<1>n. Nulo \in Codigo /\ Nulo \in Claves \cup {Nulo}
  OBVIOUS
<1>s. (UNCHANGED entregados => SinRetirar) /\ \A c : Nuevo(c) => SinRetirar
  BY NuevoSinRetirar
<1>v. LET vacia == FilaNueva("AUSENTE", Nulo) IN
        /\ vacia.estado = "AUSENTE" /\ vacia.codigoActivacion = Nulo
        /\ vacia.codigoRecuperacion = Nulo /\ vacia.codigoTransaccion = Nulo
  BY DEF FilaNueva
<1>1. ASSUME NEW u \in Usuarios, NEW k \in Claves, CrearCuenta(p, u, k)
      PROVE  Empieza(p, "insertar", u, k, Nulo) /\ Leida("insertar", u)
             /\ UNCHANGED <<usuarios, reloj, erroneos, entregados>>
  BY <1>1 DEF CrearCuenta, Leida
<1>2. ASSUME NEW c \in Aleatorios, BuscarPorCodigoActivacion(p, c)
      PROVE  \E u \in Usuarios : Empieza(p, "activarCuenta", u, Nulo, Nulo) /\ Leida("activarCuenta", u)
                 /\ UNCHANGED <<usuarios, reloj, erroneos, entregados>>
  BY <1>2, <1>v, NuloSupuesto DEF BuscarPorCodigoActivacion, Leida
<1>3. ASSUME NEW u \in Usuarios, NEW c \in Aleatorios, RecuperarCuenta(p, u, c)
      PROVE  /\ Empieza(p, "recuperar", u, Nulo, c) /\ Leida("recuperar", u)
             /\ Nuevo(c) /\ UNCHANGED <<usuarios, reloj, erroneos>>
  BY <1>3, <1>v DEF RecuperarCuenta, Leida
<1>4. ASSUME NEW c \in Aleatorios, NEW t \in Aleatorios, BuscarPorCodigoRecuperacion(p, c, t)
      PROVE  \E u \in Usuarios : /\ Empieza(p, "validar", u, Nulo, t) /\ Leida("validar", u)
                                 /\ Nuevo(t) /\ UNCHANGED <<usuarios, reloj, erroneos>>
  BY <1>4, <1>v, NuloSupuesto DEF BuscarPorCodigoRecuperacion, Leida
<1>5. ASSUME NEW t \in Aleatorios, NEW k \in Claves, BuscarPorCodigoTransaccion(p, t, k)
      PROVE  \E u \in Usuarios : Empieza(p, "nuevaContrasena", u, k, Nulo) /\ Leida("nuevaContrasena", u)
                 /\ UNCHANGED <<usuarios, reloj, erroneos, entregados>>
  BY <1>5, <1>v, NuloSupuesto DEF BuscarPorCodigoTransaccion, Leida
<1>6. ASSUME NEW u \in Usuarios, NEW c \in Aleatorios, Activar(p, u, c)
      PROVE  /\ Empieza(p, "activar", u, Nulo, c) /\ Leida("activar", u)
             /\ Nuevo(c) /\ UNCHANGED <<usuarios, reloj, erroneos>>
  BY <1>6, <1>v DEF Activar, Leida
<1>7. ASSUME NEW u \in Usuarios, Inactivar(p, u)
      PROVE  Empieza(p, "inactivar", u, Nulo, Nulo) /\ Leida("inactivar", u)
             /\ UNCHANGED <<usuarios, reloj, erroneos, entregados>>
  BY <1>7, <1>v DEF Inactivar, Leida
<1>8. ASSUME NEW u \in Usuarios, NEW a \in Claves \cup entregados, NEW k \in Claves,
             ActualizarContrasena(p, u, a, k)
      PROVE  Empieza(p, "cambiar", u, k, Nulo) /\ Leida("cambiar", u)
             /\ UNCHANGED <<usuarios, reloj, erroneos, entregados>>
  BY <1>8, <1>v DEF ActualizarContrasena, Leida
<1>9. ASSUME NEW u \in Usuarios, NEW c \in Aleatorios, RestaurarContrasena(p, u, c)
      PROVE  /\ Empieza(p, "restaurar", u, Nulo, c) /\ Leida("restaurar", u)
             /\ Nuevo(c) /\ UNCHANGED <<usuarios, reloj, erroneos>>
  BY <1>9, <1>v DEF RestaurarContrasena, Leida
<1>10. ASSUME NEW u \in Usuarios, NEW c \in Aleatorios, ReenviarCorreoActivacion(p, u, c)
       PROVE  /\ Empieza(p, "reenviar", u, Nulo, c) /\ Leida("reenviar", u)
              /\ Nuevo(c) /\ UNCHANGED <<usuarios, reloj, erroneos>>
  BY <1>10, <1>v DEF ReenviarCorreoActivacion, Leida
<1>e. \A c : Nuevo(c) => entregados' \subseteq entregados
  BY DEF Nuevo
<1>a. \/ \E u \in Usuarios, k \in Claves, pc \in {"insertar", "cambiar", "nuevaContrasena"} :
           /\ Empieza(p, pc, u, k, Nulo) /\ Leida(pc, u)
           /\ UNCHANGED <<usuarios, reloj, erroneos, entregados>>
      \/ \E u \in Usuarios, pc \in {"activarCuenta", "inactivar"} :
           /\ Empieza(p, pc, u, Nulo, Nulo) /\ Leida(pc, u)
           /\ UNCHANGED <<usuarios, reloj, erroneos, entregados>>
      \/ \E u \in Usuarios, c \in Aleatorios,
            pc \in {"recuperar", "validar", "activar", "restaurar", "reenviar"} :
           /\ Empieza(p, pc, u, Nulo, c) /\ Leida(pc, u)
           /\ Nuevo(c) /\ UNCHANGED <<usuarios, reloj, erroneos>>
  BY <1>1, <1>2, <1>3, <1>4, <1>5, <1>6, <1>7, <1>8, <1>9, <1>10, Zenon DEF PedirCuenta
<1>11. QED
  BY <1>a, <1>n, <1>s, <1>e

\* A step of a request of Cuenta that leaves it well typed, writes typed rows and
\* adds no attempts keeps the invariant.
LEMMA PasoAcceso ==
  ASSUME InvAcceso, NEW p \in Peticiones, NEW r \in Peticion(PcAcceso), Sigue(p, r),
         r.pc \in PcCuenta,
         r.pc # "libre" => r.u \in Usuarios,
         r.pc \in PcConCodigo => r.codigo \in Aleatorios,
         usuarios' \in [Usuarios -> Fila],
         \A u \in Usuarios : usuarios'[u].intentos \in {usuarios[u].intentos, 0},
         reloj' = reloj, entregados' \subseteq Aleatorios, erroneos' \in [Usuarios -> Nat]
  PROVE  InvAcceso'
<1>1. /\ Tipos(PcAcceso) /\ IntentosAcotados
      /\ \A q \in Peticiones : Bien(q) /\ CopiaAcotada(q) /\ ConCodigo(q)
  BY DEF InvAcceso, InvIntentos
<1>2. r.pc \notin {"bloquear", "correoBloqueo", "leido", "comparar", "restaurarBloqueo", "contar"}
  BY DEF PcCuenta
<1>3. /\ peticiones' \in [Peticiones -> Peticion(PcAcceso)]
      /\ \A q \in Peticiones : Bien(q)' /\ CopiaAcotada(q)'
  BY <1>1, <1>2, SigueBien
<1>4. \A q \in Peticiones : ConCodigo(q)'
  BY <1>1 DEF ConCodigo, Sigue, Tipos
<1>5. IntentosAcotados'
  BY <1>1, LimiteSupuesto DEF IntentosAcotados
<1>6. reloj' \in Nat
  BY <1>1 DEF Tipos
<1>7. QED
  BY <1>3, <1>4, <1>5, <1>6 DEF InvAcceso, InvIntentos, Tipos

\* The same for a step that goes on to the next await, or to the end.
LEMMA PasaAcceso ==
  ASSUME InvAcceso, NEW p \in Peticiones, NEW de \in PcCuenta \ {"libre"}, En(p, de),
         \/ \E a \in PcCuenta : /\ Pasa(p, de, a)
                                /\ a \in PcConCodigo => de \in PcConCodigo
         \/ Acaba(p, de),
         usuarios' \in [Usuarios -> Fila],
         \A u \in Usuarios : usuarios'[u].intentos \in {usuarios[u].intentos, 0},
         reloj' = reloj, entregados' \subseteq Aleatorios, erroneos' \in [Usuarios -> Nat]
  PROVE  InvAcceso'
<1> DEFINE h == peticiones[p]
<1>1. /\ h \in Peticion(PcAcceso) /\ h.u \in Usuarios
      /\ de \in PcConCodigo => h.codigo \in Aleatorios
  BY DEF InvAcceso, InvIntentos, Tipos, Bien, EnCurso, En, ConCodigo
<1>2. CASE Acaba(p, de)
  <2>1. Libre \in Peticion(PcAcceso) /\ Libre.pc = "libre" /\ Sigue(p, Libre)
    BY <1>2, LibreTipado DEF Acaba, Termina, Libre, PcAcceso, PcBloqueo
  <2>2. QED
    BY <2>1, PasoAcceso DEF PcCuenta, PcConCodigo
<1>3. ASSUME NEW a \in PcCuenta, Pasa(p, de, a), a \in PcConCodigo => de \in PcConCodigo
      PROVE  InvAcceso'
  <2> DEFINE r == [h EXCEPT !.pc = a]
  <2>1. Sigue(p, r)
    BY <1>3 DEF Pasa
  <2>2. r \in Peticion(PcAcceso) /\ r.pc = a /\ r.u = h.u /\ r.codigo = h.codigo
    BY <1>1 DEF Peticion, PcAcceso
  <2>3. QED
    BY <1>1, <1>3, <2>1, <2>2, PasoAcceso
<1>4. QED
  BY <1>2, <1>3

\* The UPDATEs of Cuenta keep the rows typed and add no attempts.
LEMMA EscriturasDeCuenta ==
  ASSUME usuarios \in [Usuarios -> Fila], NEW u \in Usuarios,
         NEW k \in Contrasenas \cup {Nulo}, NEW c \in Codigo,
         \/ EscribirRecuperada(u, k) \/ EscribirActiva(u, k) \/ EscribirActivada(u)
         \/ usuarios' = [usuarios EXCEPT ![u] = FilaPendiente(k, c)]
         \/ usuarios' = [usuarios EXCEPT ![u].codigoRecuperacion = c]
         \/ usuarios' = [usuarios EXCEPT ![u].codigoTransaccion = c]
         \/ usuarios' = [usuarios EXCEPT ![u].codigoActivacion = c]
         \/ usuarios' = [usuarios EXCEPT ![u].contrasena = k]
         \/ usuarios' = [usuarios EXCEPT ![u].estado = "INACTIVO"]
  PROVE  /\ usuarios' \in [Usuarios -> Fila]
         /\ \A v \in Usuarios : usuarios'[v].intentos \in {usuarios[v].intentos, 0}
<1>0. /\ \A v \in Usuarios : usuarios[v] \in Fila
      /\ Nulo \in Codigo /\ Nulo \in Fecha /\ "ACTIVO" \in Estados /\ "INACTIVO" \in Estados
  BY DEF Codigo, Fecha, Estados
<1> DEFINE Buena(f) == f \in Fila /\ f.intentos \in {usuarios[u].intentos, 0}
<1>q. ASSUME NEW f, Buena(f), usuarios' = [usuarios EXCEPT ![u] = f]
      PROVE  /\ usuarios' \in [Usuarios -> Fila]
             /\ \A v \in Usuarios : usuarios'[v].intentos \in {usuarios[v].intentos, 0}
  BY <1>q
<1>1. CASE EscribirRecuperada(u, k)
  <2> DEFINE f == [usuarios[u] EXCEPT !.fechaBloqueo = Nulo, !.intentos = 0,
                                      !.codigoDesbloqueo = Nulo,
                                      !.codigoTransaccion = Nulo,
                                      !.codigoRecuperacion = Nulo,
                                      !.contrasena = k, !.estado = "ACTIVO"]
  <2>1. Buena(f)
    BY <1>0 DEF Fila
  <2>2. usuarios' = [usuarios EXCEPT ![u] = f]
    BY <1>1 DEF EscribirRecuperada
  <2>3. QED
    BY <1>q, <2>1, <2>2
<1>2. CASE EscribirActiva(u, k)
  <2> DEFINE f == [usuarios[u] EXCEPT !.contrasena = k, !.estado = "ACTIVO"]
  <2>1. Buena(f)
    BY <1>0 DEF Fila
  <2>2. usuarios' = [usuarios EXCEPT ![u] = f]
    BY <1>2 DEF EscribirActiva
  <2>3. QED
    BY <1>q, <2>1, <2>2
<1>3. CASE EscribirActivada(u)
  <2> DEFINE f == [usuarios[u] EXCEPT !.estado = "ACTIVO", !.codigoActivacion = Nulo]
  <2>1. Buena(f)
    BY <1>0 DEF Fila
  <2>2. usuarios' = [usuarios EXCEPT ![u] = f]
    BY <1>3 DEF EscribirActivada
  <2>3. QED
    BY <1>q, <2>1, <2>2
<1>4. CASE usuarios' = [usuarios EXCEPT ![u] = FilaPendiente(k, c)]
  <2>1. FilaPendiente(k, c) \in Fila /\ FilaPendiente(k, c).intentos = 0
    BY FilaNuevaTipada DEF FilaPendiente, FilaNueva, Fila, Estados
  <2>2. QED
    BY <1>q, <1>4, <2>1
<1>5. CASE \/ usuarios' = [usuarios EXCEPT ![u].codigoRecuperacion = c]
           \/ usuarios' = [usuarios EXCEPT ![u].codigoTransaccion = c]
           \/ usuarios' = [usuarios EXCEPT ![u].codigoActivacion = c]
           \/ usuarios' = [usuarios EXCEPT ![u].contrasena = k]
           \/ usuarios' = [usuarios EXCEPT ![u].estado = "INACTIVO"]
  BY <1>0, <1>5 DEF Fila
<1>6. QED
  BY <1>1, <1>2, <1>3, <1>4, <1>5

\* Every step of a request of Cuenta keeps the invariant.
LEMMA PasoCuenta ==
  ASSUME InvAcceso, NEW p \in Peticiones, ContinuarCuenta(p)
  PROVE  InvAcceso'
<1> DEFINE h == peticiones[p]
<1>t. /\ Tipos(PcAcceso) /\ usuarios \in [Usuarios -> Fila] /\ h \in Peticion(PcAcceso)
      /\ h.clave \in Contrasenas \cup {Nulo} /\ h.codigo \in Codigo
      /\ EnCurso(p) => h.u \in Usuarios
      /\ h.pc \in PcConCodigo => h.codigo \in Aleatorios
  BY DEF InvAcceso, InvIntentos, Tipos, Peticion, Bien, ConCodigo
<1>r. /\ UNCHANGED usuarios => /\ usuarios' \in [Usuarios -> Fila]
                               /\ \A u \in Usuarios :
                                    usuarios'[u].intentos \in {usuarios[u].intentos, 0}
      /\ UNCHANGED entregados => entregados' \subseteq Aleatorios
      /\ Quieto => reloj' = reloj /\ erroneos' \in [Usuarios -> Nat]
  BY <1>t DEF Tipos, Quieto
<1>1. ASSUME NEW c \in Aleatorios, InsertarCuenta(p, c) PROVE InvAcceso'
  <2> DEFINE r == [h EXCEPT !.pc = "correoCuenta", !.codigo = c]
  <2>1. /\ Sigue(p, r) /\ UNCHANGED usuarios /\ Quieto /\ entregados' \subseteq entregados
        /\ EnCurso(p)
    BY <1>1 DEF InsertarCuenta, Nuevo, En, EnCurso
  <2>2. c \in Codigo /\ "correoCuenta" \in PcAcceso \cap PcCuenta
    BY DEF Codigo, PcAcceso, PcCuenta
  <2>3. r \in Peticion(PcAcceso) /\ r.pc = "correoCuenta" /\ r.u = h.u /\ r.codigo = c
    BY <1>t, <2>2 DEF Peticion
  <2>4. entregados' \subseteq Aleatorios
    BY <1>t, <2>1 DEF Tipos
  <2>5. QED
    BY <1>t, <1>r, <2>1, <2>2, <2>3, <2>4, PasoAcceso
<1>2. CASE InsertarRepetida(p)
  BY <1>2, <1>r, PasaAcceso DEF InsertarRepetida, Acaba, PcCuenta
<1>3. ASSUME NEW de \in {"correoCuenta", "correoRestaurar", "correoReenviar",
                         "correoActivar", "correoRecuperar"}, En(p, de),
             EnviarOSeguir(p), UNCHANGED usuarios, Quieto,
             \/ \E a \in {"confirmarCuenta", "confirmarRestaurar", "confirmarReenviar"} :
                   Pasa(p, de, a)
             \/ Acaba(p, de)
      PROVE  InvAcceso'
  <2>1. de \in PcConCodigo /\ de \in PcCuenta \ {"libre"} /\ h.codigo \in Aleatorios
    BY <1>3, <1>t DEF PcConCodigo, PcCuenta, En
  <2>2. entregados' \subseteq Aleatorios
    BY <1>t, <1>3, <2>1 DEF EnviarOSeguir, Enviar, Tipos
  <2>3. QED
    BY <1>3, <1>r, <2>1, <2>2, PasaAcceso DEF PcCuenta
<1>4. CASE EnviarCorreoCuenta(p) \/ EnviarCorreoRestaurar(p) \/ EnviarCorreoReenviar(p)
           \/ EnviarCorreoActivar(p) \/ EnviarCorreoRecuperacion(p)
  BY <1>3, <1>4 DEF EnviarCorreoCuenta, EnviarCorreoRestaurar, EnviarCorreoReenviar,
     EnviarCorreoActivar, EnviarCorreoRecuperacion, Pasa, Acaba
<1>5. CASE ResponderTransaccion(p)
  <2>1. usuarios[h.u].codigoTransaccion \in Codigo
    BY <1>5, <1>t DEF ResponderTransaccion, Acaba, En, EnCurso, Fila
  <2>2. entregados' \subseteq Aleatorios
    BY <1>5, <1>t, <2>1 DEF ResponderTransaccion, Tipos, Codigo
  <2>3. QED
    BY <1>5, <1>r, <2>2, PasaAcceso DEF ResponderTransaccion, Acaba, PcCuenta
<1>6. CASE ActualizarRestaurada(p) \/ ActualizarDatosActivacion(p)
  BY <1>6, <1>r, PasaAcceso DEF ActualizarRestaurada, ActualizarDatosActivacion,
     Pasa, PcCuenta, PcConCodigo
<1>7. ASSUME NEW de \in PcCuenta \ {"libre"}, En(p, de),
             \/ \E a \in {"correoRecuperar", "releerTransaccion", "correoActivar"} :
                   /\ Pasa(p, de, a)
                   /\ a \in PcConCodigo => de \in PcConCodigo
             \/ Acaba(p, de),
             \/ EscribirRecuperada(h.u, h.clave)
             \/ EscribirActiva(h.u, h.clave) \/ EscribirActiva(h.u, h.codigo)
             \/ EscribirActivada(h.u)
             \/ usuarios' = [usuarios EXCEPT ![h.u] = FilaPendiente(h.clave, h.codigo)]
             \/ usuarios' = [usuarios EXCEPT ![h.u].codigoRecuperacion = h.codigo]
             \/ usuarios' = [usuarios EXCEPT ![h.u].codigoTransaccion = h.codigo]
             \/ usuarios' = [usuarios EXCEPT ![h.u].codigoActivacion = h.codigo]
             \/ usuarios' = [usuarios EXCEPT ![h.u].contrasena = h.codigo]
             \/ usuarios' = [usuarios EXCEPT ![h.u].estado = "INACTIVO"],
             UNCHANGED <<reloj, entregados>>,
             \/ UNCHANGED erroneos
             \/ erroneos' = [erroneos EXCEPT ![h.u] = 0]
      PROVE  InvAcceso'
  <2>1. h.u \in Usuarios
    BY <1>7, <1>t DEF En, EnCurso
  <2>2. h.codigo \in Contrasenas \cup {Nulo}
    BY <1>t DEF Codigo, Contrasenas
  <2>3. /\ usuarios' \in [Usuarios -> Fila]
        /\ \A v \in Usuarios : usuarios'[v].intentos \in {usuarios[v].intentos, 0}
    <3>1. CASE EscribirActiva(h.u, h.codigo)
               \/ usuarios' = [usuarios EXCEPT ![h.u].contrasena = h.codigo]
      BY <3>1, <1>t, <2>1, <2>2, EscriturasDeCuenta
    <3>2. CASE ~ (EscribirActiva(h.u, h.codigo)
                  \/ usuarios' = [usuarios EXCEPT ![h.u].contrasena = h.codigo])
      BY <3>2, <1>7, <1>t, <2>1, EscriturasDeCuenta
    <3>3. QED
      BY <3>1, <3>2
  <2>4. /\ entregados' \subseteq Aleatorios /\ reloj' = reloj
        /\ erroneos' \in [Usuarios -> Nat]
    BY <1>7, <1>t DEF Tipos
  <2>5. QED
    BY <1>7, <2>3, <2>4, PasaAcceso DEF PcCuenta
<1>8. CASE ConfirmarCuenta(p) \/ ConfirmarRestaurar(p) \/ ConfirmarReenviar(p)
  BY <1>8, <1>7 DEF ConfirmarCuenta, ConfirmarRestaurar, ConfirmarReenviar, Acaba,
     PcCuenta, Quieto
<1>9. CASE ActivarCuenta(p) \/ NuevaContrasenaTransaccion(p) \/ ActualizarInactiva(p)
           \/ CambiarContrasena(p)
  BY <1>9, <1>7 DEF ActivarCuenta, NuevaContrasenaTransaccion, ActualizarInactiva,
     CambiarContrasena, Acaba, PcCuenta, Quieto
<1>10. CASE ActualizarDatosRecuperacion(p) \/ ActualizarDatosTransaccion(p)
            \/ ActualizarActiva(p)
  BY <1>10, <1>7 DEF ActualizarDatosRecuperacion, ActualizarDatosTransaccion,
     ActualizarActiva, Pasa, PcCuenta, PcConCodigo, Quieto
<1>11. QED
  BY <1>1, <1>2, <1>4, <1>5, <1>6, <1>8, <1>9, <1>10, Zenon DEF ContinuarCuenta

LEMMA PedirCuentaInv ==
  ASSUME InvAcceso, NEW p \in Peticiones, PedirCuenta(p)
  PROVE  InvAcceso'
<1>1. PICK pc \in PcInicial, u \in Usuarios, k \in Claves \cup {Nulo}, c \in Codigo :
        /\ Empieza(p, pc, u, k, c)
        /\ pc \in PcConCodigo => c \in Aleatorios
        /\ UNCHANGED <<usuarios, reloj, erroneos>>
        /\ entregados' \subseteq entregados
  BY PedirForma
<1>2. k \in Contrasenas \cup {Nulo}
  BY DEF Contrasenas
<1>3. PICK r \in Peticion(PcAcceso) :
        Sigue(p, r) /\ r.pc = pc /\ r.u = u /\ r.codigo = c
  BY <1>1, <1>2, EmpiezaTipada
<1>4. pc \in PcCuenta
  BY DEF PcInicial, PcCuenta
<1>5. Tipos(PcAcceso)
  BY DEF InvAcceso, InvIntentos
<1>6. /\ usuarios' \in [Usuarios -> Fila] /\ reloj' = reloj
      /\ \A v \in Usuarios : usuarios'[v].intentos \in {usuarios[v].intentos, 0}
      /\ entregados' \subseteq Aleatorios /\ erroneos' \in [Usuarios -> Nat]
  BY <1>1, <1>5 DEF Tipos
<1>7. pc \in PcConCodigo => c \in Aleatorios
  BY <1>1
<1>8. QED
  BY <1>3, <1>4, <1>6, <1>7, PasoAcceso

\* A step of Bloqueo keeps its request among the awaits of Bloqueo, where no
\* handler of Cuenta is, and on the account it has read, one that was inserted.
Queda(p, r) ==
  r.pc # "libre" => \/ EnCurso(p) /\ r.u = peticiones[p].u
                    \/ r.u \in Usuarios /\ usuarios[r.u] # FilaNueva("AUSENTE", Nulo)

LEMMA BloqueoForma ==
  ASSUME InvAcceso, NEW p \in Peticiones, NEW K, ContinuarBloqueo(p) \/ PedirBloqueo(p, K)
  PROVE  /\ peticiones[p].pc \in PcBloqueo
         /\ (\E r : Sigue(p, r) /\ r.pc \in PcBloqueo /\ Queda(p, r)) \/ UNCHANGED vars
<1>1. /\ peticiones \in [Peticiones -> Peticion(PcAcceso)]
      /\ Libre.pc = "libre"
  BY DEF InvAcceso, InvIntentos, Tipos, Libre
<1>c. peticiones[p].pc \in PcBloqueo \/ \E u \in Usuarios : RechazarUsuario(p, u)
  BY <1>1 DEF ContinuarBloqueo, VerificarPermitido, VerificarBloqueada, VerificarGenerar,
     ActualizarDatosBloqueo, EnviarCorreoBloqueo, CompararErronea, CompararCorrecta,
     RestaurarDatosBloqueo, ActualizarContadorBloqueos, Desbloquear, En, PedirBloqueo,
     BuscarUsuario, BuscarPorCodigoDesbloqueo, PcBloqueo
<1>d. peticiones[p].pc \in PcBloqueo
  BY <1>1, <1>c DEF RechazarUsuario, PcBloqueo
<1>v. LET vacia == FilaNueva("AUSENTE", Nulo) IN
        vacia.estado = "AUSENTE" /\ vacia.codigoDesbloqueo = Nulo
  BY DEF FilaNueva
<1> DEFINE Meta == \E r : Sigue(p, r) /\ r.pc \in PcBloqueo /\ Queda(p, r)
<1>2. ASSUME ContinuarBloqueo(p) PROVE Meta
  <2>c. EnCurso(p)
    BY <1>2 DEF ContinuarBloqueo, VerificarPermitido, VerificarBloqueada, VerificarGenerar,
       ActualizarDatosBloqueo, EnviarCorreoBloqueo, CompararErronea, CompararCorrecta,
       RestaurarDatosBloqueo, ActualizarContadorBloqueos, Desbloquear, En, EnCurso
  <2>d. ASSUME NEW r, Sigue(p, r), r.pc \in PcBloqueo, r.pc = "libre" \/ r.u = peticiones[p].u
        PROVE  Meta
    BY <2>c, <2>d DEF Queda
  <2>1. ASSUME NEW pc \in PcBloqueo, Sigue(p, [peticiones[p] EXCEPT !.pc = pc])
        PROVE  Meta
    <3> DEFINE r == [peticiones[p] EXCEPT !.pc = pc]
    <3>1. r.pc = pc /\ r.u = peticiones[p].u
      BY <1>1 DEF Peticion
    <3>2. QED
      BY <2>1, <2>d, <3>1
  <2>2. CASE VerificarPermitido(p) \/ ActualizarDatosBloqueo(p) \/ RestaurarDatosBloqueo(p)
    <3>1. /\ "comparar" \in PcBloqueo /\ "correoBloqueo" \in PcBloqueo
          /\ "contar" \in PcBloqueo
      BY DEF PcBloqueo
    <3>2. QED
      BY <2>1, <2>2, <3>1, Zenon DEF VerificarPermitido, ActualizarDatosBloqueo,
         RestaurarDatosBloqueo
  <2>3. CASE VerificarBloqueada(p) \/ EnviarCorreoBloqueo(p)
             \/ ActualizarContadorBloqueos(p) \/ Desbloquear(p)
    <3>1. Sigue(p, Libre) /\ Libre.pc \in PcBloqueo
      BY <2>3, <1>1 DEF VerificarBloqueada, EnviarCorreoBloqueo,
         ActualizarContadorBloqueos, Desbloquear, Termina, PcBloqueo
    <3>2. QED
      BY <1>1, <2>d, <3>1
  <2>4. ASSUME NEW c \in Aleatorios, VerificarGenerar(p, c)
        PROVE  Meta
    <3> DEFINE r == [peticiones[p] EXCEPT !.pc = "bloquear", !.codigo = c,
                                          !.fecha = reloj + MINUTES_LOGIN_LOCK]
    <3>1. r.pc = "bloquear" /\ r.u = peticiones[p].u
      BY <1>1 DEF Peticion
    <3>2. Sigue(p, r)
      BY <2>4 DEF VerificarGenerar, Generar
    <3> HIDE DEF r
    <3>3. QED
      BY <2>d, <3>1, <3>2 DEF PcBloqueo
  <2>5. CASE CompararErronea(p)
    <3>1. TrasError(p).pc \in PcBloqueo /\ TrasError(p).u = peticiones[p].u
      BY DEF TrasError, Libre, PcBloqueo
    <3>2. QED
      BY <2>5, <2>d, <3>1 DEF CompararErronea
  <2>6. CASE CompararCorrecta(p)
    <3> DEFINE r == [Libre EXCEPT !.pc = "contar", !.u = peticiones[p].u]
    <3>1. r.pc = "contar" /\ r.u = peticiones[p].u
      BY DEF Libre
    <3>2. Sigue(p, r) \/ Sigue(p, Libre)
      BY <2>6 DEF CompararCorrecta, Termina
    <3> HIDE DEF r
    <3>3. QED
      BY <2>d, <3>1, <3>2, <1>1 DEF PcBloqueo
  <2>7. QED
    BY <1>2, <2>2, <2>3, <2>4, <2>5, <2>6, Zenon DEF ContinuarBloqueo
<1>3. ASSUME PedirBloqueo(p, K) PROVE Meta \/ UNCHANGED vars
  <2>1. ASSUME NEW u \in Usuarios, NEW k \in K, BuscarUsuario(p, u, k)
        PROVE  Meta
    <3> DEFINE r == [Libre EXCEPT !.pc = "leido", !.u = u, !.clave = k,
                                  !.hash = usuarios[u].contrasena,
                                  !.intentos = usuarios[u].intentos,
                                  !.fecha = usuarios[u].fechaBloqueo]
    <3>1. Sigue(p, r)
      BY <2>1 DEF BuscarUsuario, LeerUsuario
    <3>2. r.pc = "leido" /\ r.u = u
      BY DEF Libre
    <3>3. Queda(p, r)
      BY <1>v, <2>1, <3>2 DEF BuscarUsuario, Admitido, Queda
    <3>4. QED
      BY <3>1, <3>2, <3>3 DEF PcBloqueo
  <2>2. ASSUME NEW c \in Aleatorios, BuscarPorCodigoDesbloqueo(p, c)
        PROVE  Meta
    <3>1. PICK u \in Usuarios :
            /\ Sigue(p, [Libre EXCEPT !.pc = "desbloquear", !.u = u])
            /\ usuarios[u].codigoDesbloqueo = c
      BY <2>2 DEF BuscarPorCodigoDesbloqueo
    <3> DEFINE r == [Libre EXCEPT !.pc = "desbloquear", !.u = u]
    <3>2. r.pc = "desbloquear" /\ r.u = u
      BY DEF Libre
    <3>3. Queda(p, r)
      BY <1>v, <3>1, <3>2, NuloSupuesto DEF Queda
    <3>4. QED
      BY <3>1, <3>2, <3>3 DEF PcBloqueo
  <2>3. QED
    BY <1>3, <2>1, <2>2 DEF PedirBloqueo, RechazarUsuario
<1>4. QED
  BY <1>d, <1>2, <1>3

LEMMA BloqueoConCodigo ==
  ASSUME InvAcceso, NEW p \in Peticiones, NEW K,
         ContinuarBloqueo(p) \/ PedirBloqueo(p, K) \/ Abortar(p) \/ Tick \/ UNCHANGED vars
  PROVE  \A q \in Peticiones : ConCodigo(q)'
<1>1. /\ peticiones \in [Peticiones -> Peticion(PcAcceso)]
      /\ \A q \in Peticiones : ConCodigo(q)
      /\ Libre.pc = "libre"
  BY DEF InvAcceso, InvIntentos, Tipos, Libre
<1>2. ASSUME NEW r, Sigue(p, r), r.pc \in PcBloqueo
      PROVE  \A q \in Peticiones : ConCodigo(q)'
  BY <1>2, <1>1 DEF Sigue, ConCodigo, PcBloqueo, PcConCodigo
<1>3. CASE UNCHANGED peticiones
  BY <1>3, <1>1 DEF ConCodigo
<1>4. CASE ContinuarBloqueo(p) \/ PedirBloqueo(p, K)
  BY <1>2, <1>3, <1>4, BloqueoForma DEF vars
<1>5. CASE Abortar(p)
  BY <1>5, <1>2, <1>1 DEF Abortar, Termina, PcBloqueo
<1>6. QED
  BY <1>3, <1>4, <1>5 DEF Tick, vars

LEMMA InvAccesoInicial == InitAcceso => InvAcceso
<1> SUFFICES ASSUME InitAcceso PROVE InvAcceso
  OBVIOUS
<1>1. InvIntentos(PcBloqueo)
  BY InvInicial DEF InitAcceso
<1>2. Libre \in Peticion(PcAcceso) /\ Libre.pc = "libre"
  BY LibreTipado DEF Libre, PcAcceso, PcBloqueo
<1>3. peticiones = [p \in Peticiones |-> Libre]
  BY DEF InitAcceso, Init
<1>4. QED
  BY <1>1, <1>2, <1>3 DEF InvAcceso, InvIntentos, Tipos, ConCodigo, PcConCodigo

LEMMA InvAccesoPaso == InvAcceso /\ [NextAcceso]_vars => InvAcceso'
<1> SUFFICES ASSUME InvAcceso, [NextAcceso]_vars PROVE InvAcceso'
  OBVIOUS
<1>t. InvIntentos(PcAcceso) /\ PcBloqueo \subseteq PcAcceso
  BY DEF InvAcceso, PcAcceso
<1>1. CASE Tick \/ UNCHANGED vars \/ \E p \in Peticiones : Abortar(p)
  <2>1. InvIntentos(PcAcceso)'
    BY <1>1, <1>t, RestoInv
  <2>2. \A q \in Peticiones : ConCodigo(q)'
    BY <1>1, BloqueoConCodigo
  <2>3. QED
    BY <2>1, <2>2 DEF InvAcceso
<1>2. ASSUME NEW p \in Peticiones, PedirBloqueo(p, Conocidas) PROVE InvAcceso'
  <2>1. Conocidas \in SUBSET Contrasenas
    BY <1>t DEF Conocidas, Contrasenas, InvIntentos, Tipos
  <2>2. InvIntentos(PcAcceso)'
    BY <1>2, <1>t, <2>1, PedirInv
  <2>3. \A q \in Peticiones : ConCodigo(q)'
    BY <1>2, BloqueoConCodigo
  <2>4. QED
    BY <2>2, <2>3 DEF InvAcceso
<1>3. ASSUME NEW p \in Peticiones, ContinuarBloqueo(p) PROVE InvAcceso'
  <2>1. InvIntentos(PcAcceso)'
    BY <1>3, <1>t, PasoBloqueo
  <2>2. \A q \in Peticiones : ConCodigo(q)'
    BY <1>3, BloqueoConCodigo
  <2>3. QED
    BY <2>1, <2>2 DEF InvAcceso
<1>4. ASSUME NEW p \in Peticiones, PedirCuenta(p) PROVE InvAcceso'
  BY <1>4, PedirCuentaInv
<1>5. ASSUME NEW p \in Peticiones, ContinuarCuenta(p) PROVE InvAcceso'
  BY <1>5, PasoCuenta
<1>6. QED
  BY <1>1, <1>2, <1>3, <1>4, <1>5, Zenon DEF NextAcceso, PedirAcceso, ContinuarAcceso

LEMMA InvAccesoSiempre == SpecAcceso => []InvAcceso
BY InvAccesoInicial, InvAccesoPaso, PTL DEF SpecAcceso

\* Whatever handlers of AuthenticationService and UsuarioService overlap on an
\* account and wherever they fail, the columns of its row keep their types.
THEOREM TipoCorrectoAcceso == SpecAcceso => []TypeOKAcceso
<1>1. InvAcceso => TypeOKAcceso
  BY DEF InvAcceso, InvIntentos, TypeOKAcceso
<1>2. QED
  BY <1>1, InvAccesoSiempre, PTL

\* And the counter of wrong logins never passes WRONG_LOGIN_LIMIT, although
\* nuevaContrasenaTransaccion and desbloquearCuenta reset it while logins that read
\* it earlier are about to write their copy.
THEOREM ContadorAcotadoAcceso == SpecAcceso => []IntentosAcotados
<1>1. InvAcceso => IntentosAcotados
  BY DEF InvAcceso, InvIntentos
<1>2. QED
  BY <1>1, InvAccesoSiempre, PTL

-----------------------------------------------------------------------------
\* When no await fails, no secret is lost.  The three properties of the row need
\* two more facts of the requests: a handler that mails before it commits holds
\* a value that arrived, and new passwords to be stored are typed ones.

PcEntregado == {"confirmarCuenta", "confirmarRestaurar", "confirmarReenviar"}

Custodia(p) ==
  /\ peticiones[p].pc \in PcEntregado => peticiones[p].codigo \in entregados
  /\ peticiones[p].pc \in PcConClave => peticiones[p].clave \in Claves

InvSecretos ==
  /\ SecretoEntregable
  /\ PendienteConSalida
  /\ BloqueoConSalida
  /\ \A p \in Peticiones : Custodia(p)

\* The awaits that owe somebody the mail of a value already written.
PcCorreo == {"correoActivar", "correoBloqueo", "correoRecuperar"}

\* value v has arrived, or will, after the step
Llegara(v, pcs) ==
  v \in entregados' \/ \E q \in Peticiones : peticiones'[q].pc \in pcs /\ peticiones'[q].codigo = v

\* what a step that leaves its request as r may write in row u
Cuidada(u, r) ==
  LET antes == usuarios[u]  fila == usuarios'[u]
      bien(v, w, pcs) ==
        v = w \/ v \notin Aleatorios \/ v \in entregados' \/ (r.pc \in pcs /\ r.codigo = v) IN
    /\ bien(fila.contrasena, antes.contrasena, {"correoActivar"})
    /\ bien(fila.codigoDesbloqueo, antes.codigoDesbloqueo, {"correoBloqueo"})
    /\ bien(fila.codigoRecuperacion, antes.codigoRecuperacion, {"correoRecuperar"})
    /\ bien(fila.codigoActivacion, antes.codigoActivacion, {})
    /\ fila.estado = "PENDIENTE" =>
         \/ antes.estado = "PENDIENTE" /\ fila.codigoActivacion = antes.codigoActivacion
         \/ fila.codigoActivacion \in entregados'
    /\ fila.fechaBloqueo # Nulo =>
         \/ /\ antes.fechaBloqueo # Nulo
            /\ fila.codigoDesbloqueo = antes.codigoDesbloqueo
         \/ r.pc = "correoBloqueo" /\ r.codigo = fila.codigoDesbloqueo

\* A value that a row holds and that has arrived, or is owed by a handler, stays
\* so: nothing in use is taken back, and a handler that leaves its mail has sent it.
LEMMA LlegaSigue ==
  ASSUME NEW p \in Peticiones, NEW r, Sigue(p, r), SinRetirar,
         peticiones \in [Peticiones -> Peticion(PcAcceso)],
         peticiones[p].pc \in PcCorreo => peticiones[p].codigo \in entregados',
         NEW pcs \in SUBSET PcCorreo
  PROVE  \A v \in EnUso : v \in entregados \/ EnCamino(v, pcs) => Llegara(v, pcs)
<1> SUFFICES ASSUME NEW v \in EnUso, v \in entregados \/ EnCamino(v, pcs)
             PROVE  Llegara(v, pcs)
  OBVIOUS
<1>1. CASE v \in entregados
  BY <1>1 DEF SinRetirar, Llegara
<1>2. ASSUME NEW q \in Peticiones, peticiones[q].pc \in pcs, peticiones[q].codigo = v
      PROVE  Llegara(v, pcs)
  <2>1. CASE q = p
    BY <1>2, <2>1 DEF Llegara
  <2>2. CASE q # p
    <3>1. peticiones'[q] = peticiones[q]
      BY <2>2 DEF Sigue
    <3>2. QED
      BY <1>2, <3>1 DEF Llegara
  <2>3. QED
    BY <2>1, <2>2
<1>3. QED
  BY <1>1, <1>2 DEF EnCamino

\* A step of request p keeps the invariant if it leaves p in custody of what it
\* holds and writes rows with care.
LEMMA PasoSecretos ==
  ASSUME InvAcceso, InvSecretos, NEW p \in Peticiones, NEW r, Sigue(p, r), SinRetirar,
         peticiones[p].pc \in PcCorreo => peticiones[p].codigo \in entregados',
         r.pc \in PcEntregado => r.codigo \in entregados',
         r.pc \in PcConClave => r.clave \in Claves,
         \A u \in Usuarios : usuarios'[u] = usuarios[u] \/ Cuidada(u, r)
  PROVE  InvSecretos'
<1>1. /\ peticiones \in [Peticiones -> Peticion(PcAcceso)]
      /\ peticiones' = [peticiones EXCEPT ![p] = r]
  BY DEF InvAcceso, InvIntentos, Tipos, Sigue
<1>2. /\ \A u \in Usuarios :
           /\ usuarios[u].contrasena \in EnUso /\ usuarios[u].codigoDesbloqueo \in EnUso
           /\ usuarios[u].codigoRecuperacion \in EnUso /\ usuarios[u].codigoActivacion \in EnUso
      /\ \A q \in Peticiones : peticiones[q].codigo \in EnUso
  <2> DEFINE columnas(u) == {usuarios[u].contrasena, usuarios[u].codigoDesbloqueo,
                             usuarios[u].codigoRecuperacion, usuarios[u].codigoTransaccion,
                             usuarios[u].codigoActivacion}
             locales(q) == {peticiones[q].codigo, peticiones[q].clave, peticiones[q].hash}
  <2>1. EnUso = (UNION {columnas(u) : u \in Usuarios}) \cup (UNION {locales(q) : q \in Peticiones})
    BY DEF EnUso
  <2>2. ASSUME NEW u \in Usuarios, NEW x \in columnas(u) PROVE x \in EnUso
    <3> HIDE DEF columnas, locales
    <3>1. x \in UNION {columnas(v) : v \in Usuarios}
      BY <2>2
    <3>2. QED
      BY <2>1, <3>1
  <2>3. ASSUME NEW q \in Peticiones, NEW x \in locales(q) PROVE x \in EnUso
    <3> HIDE DEF columnas, locales
    <3>1. x \in UNION {locales(v) : v \in Peticiones}
      BY <2>3
    <3>2. QED
      BY <2>1, <3>1
  <2>4. QED
    BY <2>2, <2>3
<1>3. \A q \in Peticiones : Custodia(q)'
  <2>1. ASSUME NEW q \in Peticiones, q # p PROVE Custodia(q)'
    <3>1. peticiones'[q] = peticiones[q]
      BY <1>1, <2>1
    <3>2. QED
      BY <1>2, <3>1 DEF InvSecretos, Custodia, SinRetirar
  <2>2. peticiones'[p] = r
    BY <1>1
  <2>3. Custodia(p)'
    BY <2>2 DEF Custodia
  <2>4. QED
    BY <2>1, <2>3
<1>4. \A pcs \in SUBSET PcCorreo, v \in EnUso :
        v \in entregados \/ EnCamino(v, pcs) => Llegara(v, pcs)
  BY <1>1, LlegaSigue
<1>5. \A pcs : r.pc \in pcs => Llegara(r.codigo, pcs)
  BY <1>1 DEF Llegara
<1> DEFINE sale(v, pcs) == v \in Aleatorios => Llegara(v, pcs)
<1>6. ASSUME NEW u \in Usuarios
      PROVE  /\ sale(usuarios[u].contrasena, {"correoActivar"})
             /\ sale(usuarios[u].codigoDesbloqueo, {"correoBloqueo"})
             /\ sale(usuarios[u].codigoRecuperacion, {"correoRecuperar"})
             /\ sale(usuarios[u].codigoActivacion, {})
             /\ usuarios[u].estado = "PENDIENTE" =>
                  usuarios[u].codigoActivacion \in entregados'
             /\ usuarios[u].fechaBloqueo # Nulo =>
                  Llegara(usuarios[u].codigoDesbloqueo, {"correoBloqueo"})
  <2>1. {"correoActivar"} \in SUBSET PcCorreo /\ {"correoBloqueo"} \in SUBSET PcCorreo
        /\ {"correoRecuperar"} \in SUBSET PcCorreo /\ {} \in SUBSET PcCorreo
    BY DEF PcCorreo
  <2>2. \A v, pc : En(v, pc) <=> peticiones[v].pc \in {pc}
    BY DEF En
  <2>3. usuarios[u].fechaBloqueo # Nulo =>
          LET c == usuarios[u].codigoDesbloqueo IN
            c \in entregados \/ EnCamino(c, {"correoBloqueo"})
    BY <2>2 DEF InvSecretos, BloqueoConSalida, EnCamino
  <2>4. QED
    BY <1>2, <1>4, <2>1, <2>3 DEF InvSecretos, SecretoEntregable, PendienteConSalida, SinRetirar
<1>7. ASSUME NEW u \in Usuarios
      PROVE  /\ sale(usuarios'[u].contrasena, {"correoActivar"})
             /\ sale(usuarios'[u].codigoDesbloqueo, {"correoBloqueo"})
             /\ sale(usuarios'[u].codigoRecuperacion, {"correoRecuperar"})
             /\ sale(usuarios'[u].codigoActivacion, {})
             /\ usuarios'[u].estado = "PENDIENTE" =>
                  usuarios'[u].codigoActivacion \in entregados'
             /\ usuarios'[u].fechaBloqueo # Nulo =>
                  Llegara(usuarios'[u].codigoDesbloqueo, {"correoBloqueo"})
  <2>1. CASE usuarios'[u] = usuarios[u]
    BY <1>6, <2>1
  <2>2. CASE Cuidada(u, r)
    <3>1. \A v, pcs : v \in entregados' => Llegara(v, pcs)
      BY DEF Llegara
    <3>2. QED
      BY <1>5, <1>6, <2>2, <3>1 DEF Cuidada
  <2>3. QED
    BY <2>1, <2>2
<1>8. SecretoEntregable' /\ PendienteConSalida' /\ BloqueoConSalida'
  BY <1>7 DEF SecretoEntregable, PendienteConSalida, BloqueoConSalida, Llegara, EnCamino, En
<1>9. QED
  BY <1>3, <1>8 DEF InvSecretos

\* Nothing changes for the secrets while rows, requests and mails stay as they are.
LEMMA SecretosQuietos ==
  ASSUME InvSecretos, UNCHANGED <<usuarios, peticiones, entregados>>
  PROVE  InvSecretos'
BY DEF InvSecretos, SecretoEntregable, PendienteConSalida, BloqueoConSalida, Custodia,
   EnCamino, En

\* Logins and unlockings keep the invariant: the code of a lock and its date are
\* written and erased together, and only a handler that will mail it writes one.
LEMMA SecretosBloqueo ==
  ASSUME InvAcceso, InvSecretos, NEW p \in Peticiones, NEW K,
         ContinuarBloqueo(p) \/ PedirBloqueo(p, K)
  PROVE  InvSecretos'
<1> DEFINE h == peticiones[p]
<1>t. /\ h \in Peticion(PcAcceso) /\ Libre.pc = "libre"
      /\ usuarios \in [Usuarios -> Fila]
      /\ EnCurso(p) => h.u \in Usuarios
  BY DEF InvAcceso, InvIntentos, Tipos, Bien, Libre
<1>s. (UNCHANGED entregados => SinRetirar) /\ (\A c : Nuevo(c) => SinRetirar)
      /\ (Enviar(p) => SinRetirar)
  BY NuevoSinRetirar DEF Enviar
<1>b. ASSUME NEW r, r.pc \in PcBloqueo PROVE r.pc \notin PcEntregado /\ r.pc \notin PcConClave
  BY <1>b DEF PcBloqueo, PcEntregado, PcConClave
<1>q. ASSUME h.pc \in PcCorreo => h.codigo \in entregados', SinRetirar,
             \A u \in Usuarios : usuarios'[u] = usuarios[u] \/ \A r : Cuidada(u, r)
      PROVE  InvSecretos'
  <2>1. CASE UNCHANGED vars
    BY <2>1, SecretosQuietos DEF vars
  <2>2. ASSUME NEW r, Sigue(p, r), r.pc \in PcBloqueo PROVE InvSecretos'
    BY <1>q, <1>b, <2>2, PasoSecretos
  <2>3. QED
    BY <2>1, <2>2, BloqueoForma
<1>1. CASE PedirBloqueo(p, K)
  <2>1. CASE \E u \in Usuarios : RechazarUsuario(p, u)
    BY <2>1, SecretosQuietos DEF RechazarUsuario, vars
  <2>2. ASSUME peticiones[p] = Libre, UNCHANGED <<usuarios, entregados>> PROVE InvSecretos'
    BY <2>2, <1>q, <1>s, <1>t DEF PcCorreo
  <2>3. QED
    BY <1>1, <2>1, <2>2 DEF PedirBloqueo, BuscarUsuario, BuscarPorCodigoDesbloqueo
<1>2. CASE VerificarPermitido(p) \/ VerificarBloqueada(p) \/ CompararErronea(p) \/ CompararCorrecta(p)
  <2>1. h.pc \notin PcCorreo /\ UNCHANGED <<usuarios, entregados>>
    BY <1>2 DEF VerificarPermitido, VerificarBloqueada, CompararErronea, CompararCorrecta,
       En, PcCorreo
  <2>2. QED
    BY <2>1, <1>q, <1>s
<1>3. ASSUME NEW c \in Aleatorios, VerificarGenerar(p, c) PROVE InvSecretos'
  <2>1. h.pc \notin PcCorreo /\ UNCHANGED usuarios /\ Nuevo(c)
    BY <1>3 DEF VerificarGenerar, Generar, En, PcCorreo
  <2>2. QED
    BY <2>1, <1>q, <1>s
<1>4. CASE ActualizarDatosBloqueo(p)
  <2> DEFINE r == [h EXCEPT !.pc = "correoBloqueo"]
  <2>1. /\ h.pc = "bloquear" /\ Sigue(p, r) /\ UNCHANGED entregados
        /\ EscribirBloqueo(h.u, h.codigo, h.fecha) /\ h.u \in Usuarios
    BY <1>4, <1>t DEF ActualizarDatosBloqueo, En, EnCurso
  <2>2. r.pc = "correoBloqueo" /\ r.codigo = h.codigo
    BY <1>t DEF Peticion
  <2>3. ASSUME NEW u \in Usuarios, u = h.u PROVE Cuidada(u, r)
    <3>1. /\ usuarios'[u].codigoDesbloqueo = h.codigo
          /\ usuarios'[u].contrasena = usuarios[u].contrasena
          /\ usuarios'[u].codigoRecuperacion = usuarios[u].codigoRecuperacion
          /\ usuarios'[u].codigoActivacion = usuarios[u].codigoActivacion
          /\ usuarios'[u].estado = usuarios[u].estado
      BY <1>t, <2>1, <2>3 DEF EscribirBloqueo, Fila
    <3>2. QED
      BY <2>2, <3>1 DEF Cuidada
  <2>4. \A u \in Usuarios : u # h.u => usuarios'[u] = usuarios[u]
    BY <2>1, <1>t DEF EscribirBloqueo
  <2>5. h.pc \notin PcCorreo /\ r.pc \notin PcEntregado /\ r.pc \notin PcConClave
    BY <2>1, <2>2 DEF PcCorreo, PcEntregado, PcConClave
  <2>6. QED
    BY <2>1, <2>3, <2>4, <2>5, <1>s, PasoSecretos
<1>5. CASE EnviarCorreoBloqueo(p)
  BY <1>5, <1>q, <1>s DEF EnviarCorreoBloqueo, Enviar
<1>6. CASE RestaurarDatosBloqueo(p) \/ ActualizarContadorBloqueos(p) \/ Desbloquear(p)
  <2>1. h.pc \notin PcCorreo /\ UNCHANGED entregados /\ h.u \in Usuarios
    BY <1>6, <1>t DEF RestaurarDatosBloqueo, ActualizarContadorBloqueos, Desbloquear,
       En, EnCurso, PcCorreo
  <2>2. \/ EscribirBloqueo(h.u, Nulo, Nulo) \/ EscribirDesbloqueo(h.u)
        \/ EscribirContador(h.u, h.intentos)
    BY <1>6 DEF RestaurarDatosBloqueo, ActualizarContadorBloqueos, Desbloquear
  <2>3. \A u \in Usuarios : u # h.u => usuarios'[u] = usuarios[u]
    BY <2>1, <2>2, <1>t DEF EscribirBloqueo, EscribirDesbloqueo, EscribirContador
  <2>4. ASSUME NEW u \in Usuarios, u = h.u, NEW r PROVE Cuidada(u, r)
    <3>1. /\ \/ /\ usuarios'[u].codigoDesbloqueo = Nulo
                /\ usuarios'[u].fechaBloqueo = Nulo
             \/ /\ usuarios'[u].codigoDesbloqueo = usuarios[u].codigoDesbloqueo
                /\ usuarios'[u].fechaBloqueo = usuarios[u].fechaBloqueo
          /\ usuarios'[u].contrasena = usuarios[u].contrasena
          /\ usuarios'[u].codigoRecuperacion = usuarios[u].codigoRecuperacion
          /\ usuarios'[u].codigoActivacion = usuarios[u].codigoActivacion
          /\ usuarios'[u].estado = usuarios[u].estado
      <4>1. usuarios[u] \in Fila
        BY <1>t
      <4>2. CASE EscribirBloqueo(h.u, Nulo, Nulo)
        BY <1>t, <2>4, <4>1, <4>2 DEF EscribirBloqueo, Fila
      <4>3. CASE EscribirDesbloqueo(h.u)
        BY <1>t, <2>4, <4>1, <4>3 DEF EscribirDesbloqueo, Fila
      <4>4. CASE EscribirContador(h.u, h.intentos)
        BY <1>t, <2>4, <4>1, <4>4 DEF EscribirContador, Fila
      <4>5. QED
        BY <2>2, <4>2, <4>3, <4>4
    <3>2. QED
      BY <3>1, NuloSupuesto DEF Cuidada
  <2>5. QED
    BY <2>1, <2>3, <2>4, <1>q, <1>s
<1>7. QED
  BY <1>1, <1>2, <1>3, <1>4, <1>5, <1>6, Zenon DEF ContinuarBloqueo

LEMMA SecretosPedirCuenta ==
  ASSUME InvAcceso, InvSecretos, NEW p \in Peticiones, PedirCuenta(p)
  PROVE  InvSecretos'
<1>1. PICK pc \in PcInicial, u \in Usuarios, k \in Claves \cup {Nulo}, c \in Codigo :
        /\ Empieza(p, pc, u, k, c)
        /\ pc \in PcConClave => k \in Claves
        /\ UNCHANGED usuarios
        /\ SinRetirar
  BY PedirForma
<1>2. k \in Contrasenas \cup {Nulo}
  BY DEF Contrasenas
<1>3. PICK r \in Peticion(PcAcceso) : Sigue(p, r) /\ r.pc = pc /\ r.clave = k
  BY <1>1, <1>2, EmpiezaTipada
<1>4. pc \notin PcEntregado /\ peticiones[p].pc \notin PcCorreo
  BY <1>1 DEF PcInicial, PcEntregado, PcCorreo, Empieza, Libre
<1>5. QED
  BY <1>1, <1>3, <1>4, PasoSecretos

\* A step of a request of Cuenta to its next await keeps the invariant if it
\* writes rows with care.
LEMMA PasaSecretos ==
  ASSUME InvAcceso, InvSecretos, NEW p \in Peticiones, NEW de, NEW a \in PcCuenta,
         Pasa(p, de, a) \/ (Acaba(p, de) /\ a = "libre"), SinRetirar,
         de \in PcCorreo => peticiones[p].codigo \in entregados',
         a \in PcEntregado => peticiones[p].codigo \in entregados',
         a \in PcConClave => de \in PcConClave,
         \A u \in Usuarios : usuarios'[u] = usuarios[u]
           \/ \A r : r.pc = a /\ (a # "libre" => r.codigo = peticiones[p].codigo) => Cuidada(u, r)
  PROVE  InvSecretos'
<1> DEFINE h == peticiones[p]
<1>1. /\ h \in Peticion(PcAcceso) /\ h.pc = de
      /\ de \in PcConClave => h.clave \in Claves
  BY DEF InvAcceso, InvIntentos, Tipos, InvSecretos, Custodia, Pasa, Acaba, En
<1>2. \E r : /\ Sigue(p, r) /\ r.pc = a
             /\ a # "libre" => r.codigo = h.codigo /\ r.clave = h.clave
  <2>1. CASE Acaba(p, de) /\ a = "libre"
    BY <2>1 DEF Acaba, Termina, Libre
  <2>2. CASE Pasa(p, de, a)
    <3> DEFINE r == [h EXCEPT !.pc = a]
    <3>1. Sigue(p, r)
      BY <2>2 DEF Pasa
    <3>2. r.pc = a /\ r.codigo = h.codigo /\ r.clave = h.clave
      BY <1>1 DEF Peticion
    <3>3. QED
      BY <3>1, <3>2
  <2>3. QED
    BY <2>1, <2>2
<1>3. "libre" \notin PcEntregado /\ "libre" \notin PcConClave
  BY DEF PcEntregado, PcConClave
<1>4. QED
  BY <1>1, <1>2, <1>3, PasoSecretos

\* What each UPDATE of Cuenta does to the secrets of the row it writes.
LEMMA EscrituraCuidada ==
  ASSUME usuarios \in [Usuarios -> Fila], NEW u \in Usuarios, NEW r, NEW k, NEW c,
         \/ EscribirRecuperada(u, k) /\ k \in Claves
         \/ EscribirActiva(u, k) /\ (k \in Claves \/ (r.pc = "correoActivar" /\ r.codigo = k))
         \/ EscribirActivada(u)
         \/ /\ usuarios' = [usuarios EXCEPT ![u] = FilaPendiente(k, c)]
            /\ k \in Claves /\ c \in entregados'
         \/ /\ usuarios' = [usuarios EXCEPT ![u].codigoRecuperacion = c]
            /\ r.pc = "correoRecuperar" /\ r.codigo = c
         \/ usuarios' = [usuarios EXCEPT ![u].codigoTransaccion = c]
         \/ usuarios' = [usuarios EXCEPT ![u].codigoActivacion = c] /\ c \in entregados'
         \/ usuarios' = [usuarios EXCEPT ![u].contrasena = k] /\ k \in entregados'
         \/ usuarios' = [usuarios EXCEPT ![u].estado = "INACTIVO"]
  PROVE  Cuidada(u, r) /\ \A v \in Usuarios : v # u => usuarios'[v] = usuarios[v]
<1>1. usuarios[u] \in Fila /\ Nulo \notin Aleatorios /\ Claves \cap Aleatorios = {}
  BY NuloSupuesto, ClavesSupuesto
<1>2. \A v \in Usuarios : v # u => usuarios'[v] = usuarios[v]
  BY DEF EscribirRecuperada, EscribirActiva, EscribirActivada
<1> DEFINE igual(a, b) ==
             /\ a.codigoDesbloqueo = b.codigoDesbloqueo
             /\ a.fechaBloqueo = b.fechaBloqueo
<1>3. CASE EscribirRecuperada(u, k) /\ k \in Claves
  <2>1. LET fila == usuarios'[u]  antes == usuarios[u] IN
          /\ fila.contrasena = k /\ fila.codigoDesbloqueo = Nulo
          /\ fila.fechaBloqueo = Nulo /\ fila.codigoRecuperacion = Nulo
          /\ fila.codigoActivacion = antes.codigoActivacion /\ fila.estado = "ACTIVO"
    BY <1>1, <1>3 DEF EscribirRecuperada, Fila
  <2>2. QED
    BY <1>1, <1>2, <1>3, <2>1 DEF Cuidada
<1>4. CASE EscribirActiva(u, k) /\ (k \in Claves \/ (r.pc = "correoActivar" /\ r.codigo = k))
  <2>1. LET fila == usuarios'[u]  antes == usuarios[u] IN
          /\ fila.contrasena = k /\ igual(fila, antes)
          /\ fila.codigoRecuperacion = antes.codigoRecuperacion
          /\ fila.codigoActivacion = antes.codigoActivacion /\ fila.estado = "ACTIVO"
    BY <1>1, <1>4 DEF EscribirActiva, Fila
  <2>2. QED
    BY <1>1, <1>2, <1>4, <2>1 DEF Cuidada
<1>5. CASE EscribirActivada(u)
  <2>1. LET fila == usuarios'[u]  antes == usuarios[u] IN
          /\ fila.contrasena = antes.contrasena /\ igual(fila, antes)
          /\ fila.codigoRecuperacion = antes.codigoRecuperacion
          /\ fila.codigoActivacion = Nulo /\ fila.estado = "ACTIVO"
    BY <1>1, <1>5 DEF EscribirActivada, Fila
  <2>2. QED
    BY <1>1, <1>2, <2>1 DEF Cuidada
<1>6. CASE /\ usuarios' = [usuarios EXCEPT ![u] = FilaPendiente(k, c)]
           /\ k \in Claves /\ c \in entregados'
  <2>1. LET fila == usuarios'[u] IN
          /\ fila.contrasena = k /\ fila.codigoDesbloqueo = Nulo
          /\ fila.fechaBloqueo = Nulo /\ fila.codigoRecuperacion = Nulo
          /\ fila.codigoActivacion = c
    BY <1>6 DEF FilaPendiente, FilaNueva
  <2>2. QED
    BY <1>1, <1>2, <1>6, <2>1 DEF Cuidada
<1>7. CASE \/ /\ usuarios' = [usuarios EXCEPT ![u].codigoRecuperacion = c]
              /\ r.pc = "correoRecuperar" /\ r.codigo = c
           \/ usuarios' = [usuarios EXCEPT ![u].codigoTransaccion = c]
           \/ usuarios' = [usuarios EXCEPT ![u].codigoActivacion = c] /\ c \in entregados'
           \/ usuarios' = [usuarios EXCEPT ![u].contrasena = k] /\ k \in entregados'
           \/ usuarios' = [usuarios EXCEPT ![u].estado = "INACTIVO"]
  <2>1. LET fila == usuarios'[u]  antes == usuarios[u] IN
          /\ igual(fila, antes)
          /\ fila.contrasena = antes.contrasena \/ fila.contrasena \in entregados'
          /\ \/ fila.codigoRecuperacion = antes.codigoRecuperacion
             \/ r.pc = "correoRecuperar" /\ r.codigo = fila.codigoRecuperacion
          /\ \/ fila.codigoActivacion = antes.codigoActivacion
             \/ fila.codigoActivacion \in entregados'
          /\ fila.estado \in {antes.estado, "INACTIVO"}
    BY <1>1, <1>7 DEF Fila
  <2>2. QED
    BY <1>2, <2>1 DEF Cuidada
<1>8. QED
  BY <1>3, <1>4, <1>5, <1>6, <1>7

\* The handlers of Cuenta keep the invariant as long as no mail fails.
LEMMA SecretosCuenta ==
  ASSUME InvAcceso, InvSecretos, ~ Fallos, NEW p \in Peticiones, ContinuarCuenta(p)
  PROVE  InvSecretos'
<1> DEFINE h == peticiones[p]
<1>t. /\ h \in Peticion(PcAcceso)
      /\ usuarios \in [Usuarios -> Fila]
      /\ EnCurso(p) => h.u \in Usuarios
      /\ h.pc \in PcEntregado => h.codigo \in entregados
      /\ h.pc \in PcConClave => h.clave \in Claves
  BY DEF InvAcceso, InvIntentos, Tipos, Bien, InvSecretos, Custodia
<1>s. (entregados \subseteq entregados' => SinRetirar) /\ \A c : Nuevo(c) => SinRetirar
  BY NuevoSinRetirar
<1>1. ASSUME NEW c \in Aleatorios, InsertarCuenta(p, c) PROVE InvSecretos'
  <2> DEFINE r == [h EXCEPT !.pc = "correoCuenta", !.codigo = c]
  <2>1. Sigue(p, r) /\ h.pc = "insertar" /\ UNCHANGED usuarios /\ Nuevo(c)
    BY <1>1 DEF InsertarCuenta, En
  <2>2. r.pc = "correoCuenta" /\ r.clave = h.clave
    BY <1>t DEF Peticion
  <2>3. r.pc \notin PcEntregado /\ h.pc \notin PcCorreo /\ r.clave \in Claves
    BY <1>t, <2>1, <2>2 DEF PcEntregado, PcCorreo, PcConClave
  <2>4. QED
    BY <1>s, <2>1, <2>2, <2>3, PasoSecretos
<1>q. ASSUME NEW de \in PcCuenta, NEW a \in PcCuenta,
             Pasa(p, de, a) \/ (Acaba(p, de) /\ a = "libre"),
             de \in PcCorreo \/ a \in PcEntregado => h.codigo \in entregados',
             a \in PcConClave => de \in PcConClave,
             entregados \subseteq entregados', UNCHANGED usuarios
      PROVE  InvSecretos'
  BY <1>q, <1>s, PasaSecretos
<1>2. CASE InsertarRepetida(p) \/ ResponderTransaccion(p)
  BY <1>2, <1>q DEF InsertarRepetida, ResponderTransaccion, PcCuenta, PcCorreo,
     PcEntregado, PcConClave
<1>3. CASE ActualizarRestaurada(p) \/ ActualizarDatosActivacion(p)
  BY <1>3, <1>q DEF ActualizarRestaurada, ActualizarDatosActivacion, PcCuenta, PcCorreo,
     PcEntregado, PcConClave
<1>4. EnviarOSeguir(p) => h.codigo \in entregados' /\ entregados \subseteq entregados'
  BY DEF EnviarOSeguir, Enviar
<1>5. CASE EnviarCorreoCuenta(p) \/ EnviarCorreoRestaurar(p) \/ EnviarCorreoReenviar(p)
  BY <1>5, <1>4, <1>q DEF EnviarCorreoCuenta, EnviarCorreoRestaurar,
     EnviarCorreoReenviar, PcCuenta, PcConClave
<1>6. CASE EnviarCorreoActivar(p) \/ EnviarCorreoRecuperacion(p)
  BY <1>6, <1>4, <1>q DEF EnviarCorreoActivar, EnviarCorreoRecuperacion, PcCuenta, PcConClave
<1>w. ASSUME NEW de \in PcCuenta \ PcCorreo, de # "libre", h.pc = de,
             NEW a \in PcCuenta \ (PcEntregado \cup PcConClave),
             Pasa(p, de, a) \/ (Acaba(p, de) /\ a = "libre"), UNCHANGED entregados,
             \/ EscribirRecuperada(h.u, h.clave) /\ h.clave \in Claves
             \/ EscribirActiva(h.u, h.clave) /\ h.clave \in Claves
             \/ EscribirActiva(h.u, h.codigo) /\ a = "correoActivar"
             \/ EscribirActivada(h.u)
             \/ /\ usuarios' = [usuarios EXCEPT ![h.u] = FilaPendiente(h.clave, h.codigo)]
                /\ h.clave \in Claves /\ h.codigo \in entregados
             \/ /\ usuarios' = [usuarios EXCEPT ![h.u].codigoRecuperacion = h.codigo]
                /\ a = "correoRecuperar"
             \/ usuarios' = [usuarios EXCEPT ![h.u].codigoTransaccion = h.codigo]
             \/ /\ usuarios' = [usuarios EXCEPT ![h.u].codigoActivacion = h.codigo]
                /\ h.codigo \in entregados
             \/ /\ usuarios' = [usuarios EXCEPT ![h.u].contrasena = h.codigo]
                /\ h.codigo \in entregados
             \/ usuarios' = [usuarios EXCEPT ![h.u].estado = "INACTIVO"]
      PROVE  InvSecretos'
  <2>1. h.u \in Usuarios
    BY <1>t, <1>w DEF EnCurso, En
  <2>2. ASSUME NEW r, r.pc = a, a # "libre" => r.codigo = h.codigo
        PROVE  Cuidada(h.u, r) /\ \A v \in Usuarios : v # h.u => usuarios'[v] = usuarios[v]
    <3>1. CASE EscribirActiva(h.u, h.codigo) /\ a = "correoActivar"
      BY <1>t, <2>1, <2>2, <3>1, EscrituraCuidada
    <3>2. CASE /\ usuarios' = [usuarios EXCEPT ![h.u].contrasena = h.codigo]
               /\ h.codigo \in entregados
      BY <1>t, <1>w, <2>1, <3>2, EscrituraCuidada
    <3>3. CASE /\ usuarios' = [usuarios EXCEPT ![h.u].codigoRecuperacion = h.codigo]
               /\ a = "correoRecuperar"
      BY <1>t, <2>1, <2>2, <3>3, EscrituraCuidada
    <3>4. CASE \/ EscribirRecuperada(h.u, h.clave) /\ h.clave \in Claves
               \/ EscribirActiva(h.u, h.clave) /\ h.clave \in Claves
               \/ EscribirActivada(h.u)
               \/ usuarios' = [usuarios EXCEPT ![h.u].codigoTransaccion = h.codigo]
               \/ usuarios' = [usuarios EXCEPT ![h.u].estado = "INACTIVO"]
      BY <1>t, <2>1, <3>4, EscrituraCuidada
    <3>5. CASE \/ /\ usuarios' = [usuarios EXCEPT ![h.u] = FilaPendiente(h.clave, h.codigo)]
                  /\ h.clave \in Claves /\ h.codigo \in entregados
               \/ /\ usuarios' = [usuarios EXCEPT ![h.u].codigoActivacion = h.codigo]
                  /\ h.codigo \in entregados
      BY <1>t, <1>w, <2>1, <3>5, EscrituraCuidada
    <3>6. QED
      BY <1>w, <3>1, <3>2, <3>3, <3>4, <3>5
  <2>3. \E r : r.pc = a /\ (a # "libre" => r.codigo = h.codigo)
    <3>1. [pc |-> a, codigo |-> h.codigo].pc = a /\ [pc |-> a, codigo |-> h.codigo].codigo = h.codigo
      OBVIOUS
    <3>2. QED
      BY <3>1
  <2>4. \A u \in Usuarios : usuarios'[u] = usuarios[u]
          \/ \A r : r.pc = a /\ (a # "libre" => r.codigo = h.codigo) => Cuidada(u, r)
    BY <2>1, <2>2, <2>3
  <2>5. QED
    BY <1>s, <1>w, <2>4, PasaSecretos
<1>7. CASE ConfirmarCuenta(p) \/ ConfirmarRestaurar(p) \/ ConfirmarReenviar(p)
  BY <1>7, <1>t, <1>w DEF ConfirmarCuenta, ConfirmarRestaurar, ConfirmarReenviar, Acaba, En,
     PcCuenta, PcCorreo, PcEntregado, PcConClave
<1>8. CASE ActivarCuenta(p) \/ NuevaContrasenaTransaccion(p) \/ ActualizarInactiva(p)
           \/ CambiarContrasena(p)
  BY <1>8, <1>t, <1>w DEF ActivarCuenta, NuevaContrasenaTransaccion, ActualizarInactiva,
     CambiarContrasena, Acaba, En, PcCuenta, PcCorreo, PcEntregado, PcConClave
<1>9. CASE ActualizarDatosRecuperacion(p) \/ ActualizarDatosTransaccion(p)
           \/ ActualizarActiva(p)
  BY <1>9, <1>t, <1>w DEF ActualizarDatosRecuperacion, ActualizarDatosTransaccion,
     ActualizarActiva, Pasa, En, PcCuenta, PcCorreo, PcEntregado, PcConClave
<1>10. QED
  BY <1>1, <1>2, <1>3, <1>5, <1>6, <1>7, <1>8, <1>9, Zenon DEF ContinuarCuenta

LEMMA SecretosInicial == InitAcceso => InvSecretos
<1> SUFFICES ASSUME InitAcceso PROVE InvSecretos
  OBVIOUS
<1>1. \A p \in Peticiones : peticiones[p].pc = "libre"
  BY DEF InitAcceso, Init, Libre
<1>2. ASSUME NEW u \in Usuarios
      PROVE  /\ usuarios[u].contrasena \in Claves \cup {Nulo}
             /\ usuarios[u].codigoDesbloqueo = Nulo /\ usuarios[u].fechaBloqueo = Nulo
             /\ usuarios[u].codigoRecuperacion = Nulo /\ usuarios[u].codigoActivacion = Nulo
             /\ usuarios[u].estado # "PENDIENTE"
  <2>1. PICK e \in Estados, k \in Claves \cup {Nulo} : usuarios[u] = FilaNueva(e, k)
    BY DEF InitAcceso, Init, Estados
  <2>2. QED
    BY <2>1 DEF FilaNueva, InitAcceso
<1>3. QED
  BY <1>1, <1>2, NuloSupuesto, ClavesSupuesto DEF InvSecretos, SecretoEntregable,
     PendienteConSalida, BloqueoConSalida, Custodia, PcEntregado, PcConClave

LEMMA SecretosPaso == ~ Fallos /\ InvAcceso /\ InvSecretos /\ [NextAcceso]_vars => InvSecretos'
<1> SUFFICES ASSUME ~ Fallos, InvAcceso, InvSecretos, [NextAcceso]_vars PROVE InvSecretos'
  OBVIOUS
<1>1. CASE Tick \/ UNCHANGED vars
  BY <1>1, SecretosQuietos DEF Tick, vars
<1>2. ASSUME NEW p \in Peticiones, Abortar(p) PROVE InvSecretos'
  BY <1>2 DEF Abortar
<1>3. ASSUME NEW p \in Peticiones, PedirBloqueo(p, Conocidas) \/ ContinuarBloqueo(p)
      PROVE  InvSecretos'
  BY <1>3, SecretosBloqueo
<1>4. ASSUME NEW p \in Peticiones, PedirCuenta(p) PROVE InvSecretos'
  BY <1>4, SecretosPedirCuenta
<1>5. ASSUME NEW p \in Peticiones, ContinuarCuenta(p) PROVE InvSecretos'
  BY <1>5, SecretosCuenta
<1>6. QED
  BY <1>1, <1>2, <1>3, <1>4, <1>5, Zenon DEF NextAcceso, PedirAcceso, ContinuarAcceso

LEMMA SecretosSiempre == ASSUME ~ Fallos PROVE SpecAcceso => []InvSecretos
BY InvAccesoSiempre, SecretosInicial, SecretosPaso, PTL DEF SpecAcceso

\* However the handlers that generate passwords and codes (activar,
\* restaurarContrasena, recuperarCuenta, crearCuenta, reenviarCorreoActivacion,
\* verificarBloqueo) overlap on an account, every secret its row holds reached its
\* owner or is on its way, if no await fails.
THEOREM SecretoSiempreEntregable == ASSUME ~ Fallos PROVE SpecAcceso => []SecretoEntregable
<1>1. InvSecretos => SecretoEntregable
  BY DEF InvSecretos
<1>2. QED
  BY <1>1, SecretosSiempre, PTL

\* An account that crearCuenta left PENDIENTE has its activation link in the mail
\* for as long as it waits.
THEOREM PendienteSiempreConSalida == ASSUME ~ Fallos PROVE SpecAcceso => []PendienteConSalida
<1>1. InvSecretos => PendienteConSalida
  BY DEF InvSecretos
<1>2. QED
  BY <1>1, SecretosSiempre, PTL

\* An account that verificarBloqueo locked has its unlocking link in the mail, or
\* about to be mailed, also when overlapping logins lock it several times.
THEOREM BloqueoSiempreConSalida == ASSUME ~ Fallos PROVE SpecAcceso => []BloqueoConSalida
<1>1. InvSecretos => BloqueoConSalida
  BY DEF InvSecretos
<1>2. QED
  BY <1>1, SecretosSiempre, PTL
-----------------------------------------------------------------------------
\* What a step of a request does, said once for the invariants below: where the
\* request goes on, and which row it writes.

\* crearCuenta, and the part of it that holds the lock of the new row
DeAlta == {"insertar", "correoCuenta", "confirmarCuenta"}
Insertando == {"correoCuenta", "confirmarCuenta"}

\* A handler of Cuenta goes on on the same account, never back to a start, and only
\* crearCuenta goes through the awaits of an INSERT.
Avanza(p, r) ==
  /\ Sigue(p, r)
  /\ r.pc \in PcCuenta \ PcInicial
  /\ r.pc # "libre" => r.u = peticiones[p].u
  /\ r.pc # "libre" => (peticiones[p].pc \in DeAlta <=> r.pc \in DeAlta)
  /\ r.pc = "correoCuenta" =>
       En(p, "insertar") /\ SinCandado(p) /\ usuarios[r.u].estado = "AUSENTE"
  /\ r.pc = "confirmarCuenta" => En(p, "correoCuenta")

\* Its UPDATEs.
EscrituraCuenta(p) ==
  LET h == peticiones[p] IN
  \/ UNCHANGED <<usuarios, erroneos>>
  \/ /\ En(p, "nuevaContrasena")
     /\ EscribirRecuperada(h.u, h.clave)
     /\ erroneos' = [erroneos EXCEPT ![h.u] = 0]
  \/ /\ En(p, "confirmarCuenta")
     /\ usuarios' = [usuarios EXCEPT ![h.u] = FilaPendiente(h.clave, h.codigo)]
     /\ UNCHANGED erroneos
  \/ /\ h.pc \notin DeAlta
     /\ \/ \E k : EscribirActiva(h.u, k)
        \/ EscribirActivada(h.u)
        \/ /\ En(p, "recuperar")
           /\ usuarios' = [usuarios EXCEPT ![h.u].codigoRecuperacion = h.codigo]
        \/ /\ En(p, "validar")
           /\ usuarios' = [usuarios EXCEPT ![h.u].codigoTransaccion = h.codigo]
        \/ usuarios' = [usuarios EXCEPT ![h.u].codigoActivacion = h.codigo]
        \/ usuarios' = [usuarios EXCEPT ![h.u].contrasena = h.codigo]
        \/ usuarios' = [usuarios EXCEPT ![h.u].estado = "INACTIVO"]
     /\ UNCHANGED erroneos

\* A request that starts writes nothing.
LEMMA PedirSigue ==
  ASSUME InvAcceso, NEW p \in Peticiones, PedirCuenta(p)
  PROVE  /\ ~ EnCurso(p) /\ UNCHANGED <<usuarios, reloj, erroneos>>
         /\ \E r : Sigue(p, r) /\ r.pc \in PcInicial
<1>1. PICK pc \in PcInicial, u \in Usuarios, k \in Claves \cup {Nulo}, c \in Codigo :
        Empieza(p, pc, u, k, c) /\ UNCHANGED <<usuarios, reloj, erroneos>>
  BY PedirForma
<1> DEFINE r == [Libre EXCEPT !.pc = pc, !.u = u, !.clave = k, !.codigo = c]
<1>2. Sigue(p, r) /\ r.pc = pc /\ ~ EnCurso(p)
  BY <1>1 DEF Empieza, Libre, EnCurso
<1> HIDE DEF r
<1>3. QED
  BY <1>1, <1>2

LEMMA CuentaForma ==
  ASSUME InvAcceso, NEW p \in Peticiones, ContinuarCuenta(p)
  PROVE  /\ EnCurso(p) /\ reloj' = reloj
         /\ peticiones[p].pc \notin PcBloqueo
         /\ EscrituraCuenta(p)
         /\ \E r : Avanza(p, r)
<1> DEFINE h == peticiones[p]
<1>t. h \in Peticion(PcAcceso) /\ Libre.pc = "libre"
  BY DEF InvAcceso, InvIntentos, Tipos, Libre
<1>c. EnCurso(p) /\ reloj' = reloj /\ h.pc \notin PcBloqueo
  BY DEF ContinuarCuenta, InsertarCuenta, InsertarRepetida, EnviarCorreoCuenta,
     ConfirmarCuenta, ActivarCuenta, ActualizarDatosRecuperacion, EnviarCorreoRecuperacion,
     ActualizarDatosTransaccion, ResponderTransaccion, NuevaContrasenaTransaccion,
     ActualizarActiva, EnviarCorreoActivar, ActualizarInactiva, CambiarContrasena,
     ActualizarRestaurada, EnviarCorreoRestaurar, ConfirmarRestaurar,
     ActualizarDatosActivacion, EnviarCorreoReenviar, ConfirmarReenviar,
     Pasa, Acaba, En, EnCurso, Quieto, PcBloqueo
<1>e. EscrituraCuenta(p)
  BY DEF ContinuarCuenta, InsertarCuenta, InsertarRepetida, EnviarCorreoCuenta,
     ConfirmarCuenta, ActivarCuenta, ActualizarDatosRecuperacion, EnviarCorreoRecuperacion,
     ActualizarDatosTransaccion, ResponderTransaccion, NuevaContrasenaTransaccion,
     ActualizarActiva, EnviarCorreoActivar, ActualizarInactiva, CambiarContrasena,
     ActualizarRestaurada, EnviarCorreoRestaurar, ConfirmarRestaurar,
     ActualizarDatosActivacion, EnviarCorreoReenviar, ConfirmarReenviar,
     Pasa, Acaba, En, Quieto, DeAlta, EscrituraCuenta
<1>1. ASSUME NEW de, NEW a \in PcCuenta \ (PcInicial \cup {"libre", "correoCuenta"}),
             Pasa(p, de, a), de \in DeAlta <=> a \in DeAlta,
             a = "confirmarCuenta" => de = "correoCuenta"
      PROVE  \E r : Avanza(p, r)
  <2> DEFINE r == [h EXCEPT !.pc = a]
  <2>1. r.pc = a /\ r.u = h.u
    BY <1>t DEF Peticion
  <2>2. Sigue(p, r) /\ h.pc = de
    BY <1>1 DEF Pasa, En
  <2> HIDE DEF r
  <2>3. Avanza(p, r)
    BY <1>1, <2>1, <2>2 DEF Avanza, En
  <2>4. QED
    BY <2>3
<1>2. ASSUME NEW de, Acaba(p, de) PROVE \E r : Avanza(p, r)
  <2>1. Avanza(p, Libre)
    BY <1>t, <1>2 DEF Avanza, Acaba, Termina, PcCuenta, PcInicial
  <2>2. QED
    BY <2>1
<1>3. ASSUME NEW c \in Aleatorios, InsertarCuenta(p, c) PROVE \E r : Avanza(p, r)
  <2> DEFINE r == [h EXCEPT !.pc = "correoCuenta", !.codigo = c]
  <2>1. r.pc = "correoCuenta" /\ r.u = h.u
    BY <1>t DEF Peticion
  <2>2. /\ Sigue(p, r) /\ h.pc = "insertar" /\ SinCandado(p)
        /\ usuarios[h.u].estado = "AUSENTE"
    BY <1>3 DEF InsertarCuenta, En
  <2> HIDE DEF r
  <2>3. Avanza(p, r)
    BY <2>1, <2>2 DEF Avanza, DeAlta, PcCuenta, PcInicial, En
  <2>4. QED
    BY <2>3
<1>4. \/ \E c \in Aleatorios : InsertarCuenta(p, c)
      \/ \E de : Acaba(p, de)
      \/ \E de, a : /\ Pasa(p, de, a)
                    /\ <<de, a>> \in {<<"correoCuenta", "confirmarCuenta">>,
                                      <<"recuperar", "correoRecuperar">>,
                                      <<"validar", "releerTransaccion">>,
                                      <<"activar", "correoActivar">>,
                                      <<"restaurar", "correoRestaurar">>,
                                      <<"correoRestaurar", "confirmarRestaurar">>,
                                      <<"reenviar", "correoReenviar">>,
                                      <<"correoReenviar", "confirmarReenviar">>}
  BY DEF ContinuarCuenta, InsertarRepetida, EnviarCorreoCuenta,
     ConfirmarCuenta, ActivarCuenta, ActualizarDatosRecuperacion, EnviarCorreoRecuperacion,
     ActualizarDatosTransaccion, ResponderTransaccion, NuevaContrasenaTransaccion,
     ActualizarActiva, EnviarCorreoActivar, ActualizarInactiva, CambiarContrasena,
     ActualizarRestaurada, EnviarCorreoRestaurar, ConfirmarRestaurar,
     ActualizarDatosActivacion, EnviarCorreoReenviar, ConfirmarReenviar
<1>5. ASSUME NEW de, NEW a, Pasa(p, de, a),
             <<de, a>> \in {<<"correoCuenta", "confirmarCuenta">>,
                            <<"recuperar", "correoRecuperar">>,
                            <<"validar", "releerTransaccion">>,
                            <<"activar", "correoActivar">>,
                            <<"restaurar", "correoRestaurar">>,
                            <<"correoRestaurar", "confirmarRestaurar">>,
                            <<"reenviar", "correoReenviar">>,
                            <<"correoReenviar", "confirmarReenviar">>}
      PROVE  \E r : Avanza(p, r)
  <2>1. /\ a \in PcCuenta \ (PcInicial \cup {"libre", "correoCuenta"})
        /\ de \in DeAlta <=> a \in DeAlta
        /\ a = "confirmarCuenta" => de = "correoCuenta"
    BY <1>5 DEF PcCuenta, PcInicial, DeAlta
  <2>2. QED
    BY <1>1, <1>5, <2>1
<1>6. QED
  BY <1>c, <1>e, <1>2, <1>3, <1>4, <1>5

\* It writes at most the row it is about, and there it keeps the lock and the counter
\* or, when the password is recovered or the row is new, clears both.
LEMMA CuentaFilas ==
  ASSUME InvAcceso, NEW p \in Peticiones, EnCurso(p), EscrituraCuenta(p)
  PROVE  LET a == peticiones[p].u IN
         /\ a \in Usuarios
         /\ \A u \in Usuarios : u # a => usuarios'[u] = usuarios[u] /\ erroneos'[u] = erroneos[u]
         /\ \/ usuarios' = usuarios /\ erroneos' = erroneos
            \/ /\ peticiones[p].pc \notin DeAlta
               /\ usuarios'[a].intentos = usuarios[a].intentos
               /\ usuarios'[a].fechaBloqueo = usuarios[a].fechaBloqueo
               /\ usuarios'[a].estado \in {usuarios[a].estado, "ACTIVO", "INACTIVO"}
               /\ erroneos' = erroneos
            \/ /\ En(p, "nuevaContrasena") \/ En(p, "confirmarCuenta")
               /\ usuarios'[a].intentos = 0
               /\ usuarios'[a].fechaBloqueo = Nulo
               /\ usuarios'[a].estado # "AUSENTE"
               /\ erroneos'[a] = IF En(p, "nuevaContrasena") THEN 0 ELSE erroneos[a]
<1> DEFINE h == peticiones[p]
<1>t. /\ usuarios \in [Usuarios -> Fila] /\ erroneos \in [Usuarios -> Nat]
      /\ h.u \in Usuarios /\ usuarios[h.u] \in Fila
  BY DEF InvAcceso, InvIntentos, Tipos, Bien
<1>1. CASE UNCHANGED <<usuarios, erroneos>>
  BY <1>1, <1>t
<1>2. CASE /\ En(p, "nuevaContrasena")
           /\ EscribirRecuperada(h.u, h.clave)
           /\ erroneos' = [erroneos EXCEPT ![h.u] = 0]
  BY <1>2, <1>t DEF EscribirRecuperada, Fila
<1>3. CASE /\ En(p, "confirmarCuenta")
           /\ usuarios' = [usuarios EXCEPT ![h.u] = FilaPendiente(h.clave, h.codigo)]
           /\ UNCHANGED erroneos
  BY <1>3, <1>t DEF FilaPendiente, FilaNueva, En
<1>4. ASSUME h.pc \notin DeAlta, UNCHANGED erroneos, NEW f,
             usuarios' = [usuarios EXCEPT ![h.u] = f],
             f.intentos = usuarios[h.u].intentos,
             f.fechaBloqueo = usuarios[h.u].fechaBloqueo,
             f.estado \in {usuarios[h.u].estado, "ACTIVO", "INACTIVO"}
      PROVE  /\ \A u \in Usuarios : u # h.u => usuarios'[u] = usuarios[u]
                                              /\ erroneos'[u] = erroneos[u]
             /\ usuarios'[h.u].intentos = usuarios[h.u].intentos
             /\ usuarios'[h.u].fechaBloqueo = usuarios[h.u].fechaBloqueo
             /\ usuarios'[h.u].estado \in {usuarios[h.u].estado, "ACTIVO", "INACTIVO"}
  BY <1>4, <1>t
<1>5. ASSUME h.pc \notin DeAlta, UNCHANGED erroneos,
             \/ \E k : EscribirActiva(h.u, k)
             \/ EscribirActivada(h.u)
             \/ usuarios' = [usuarios EXCEPT ![h.u].codigoRecuperacion = h.codigo]
             \/ usuarios' = [usuarios EXCEPT ![h.u].codigoTransaccion = h.codigo]
             \/ usuarios' = [usuarios EXCEPT ![h.u].codigoActivacion = h.codigo]
             \/ usuarios' = [usuarios EXCEPT ![h.u].contrasena = h.codigo]
             \/ usuarios' = [usuarios EXCEPT ![h.u].estado = "INACTIVO"]
      PROVE  \E f : /\ usuarios' = [usuarios EXCEPT ![h.u] = f]
                    /\ f.intentos = usuarios[h.u].intentos
                    /\ f.fechaBloqueo = usuarios[h.u].fechaBloqueo
                    /\ f.estado \in {usuarios[h.u].estado, "ACTIVO", "INACTIVO"}
  <2> DEFINE f == usuarios'[h.u]
  <2>1. usuarios' = [usuarios EXCEPT ![h.u] = f]
    BY <1>5, <1>t DEF EscribirActiva, EscribirActivada
  <2> DEFINE Intacta == /\ f.intentos = usuarios[h.u].intentos
                        /\ f.fechaBloqueo = usuarios[h.u].fechaBloqueo
                        /\ f.estado \in {usuarios[h.u].estado, "ACTIVO", "INACTIVO"}
  <2>2. Intacta
    <3>1. ASSUME NEW k, EscribirActiva(h.u, k) PROVE Intacta
      BY <1>t, <3>1 DEF EscribirActiva, Fila
    <3>2. CASE EscribirActivada(h.u)
      BY <1>t, <3>2 DEF EscribirActivada, Fila
    <3>3. CASE \/ usuarios' = [usuarios EXCEPT ![h.u].codigoRecuperacion = h.codigo]
               \/ usuarios' = [usuarios EXCEPT ![h.u].codigoTransaccion = h.codigo]
               \/ usuarios' = [usuarios EXCEPT ![h.u].codigoActivacion = h.codigo]
               \/ usuarios' = [usuarios EXCEPT ![h.u].contrasena = h.codigo]
      BY <1>t, <3>3 DEF Fila
    <3>4. CASE usuarios' = [usuarios EXCEPT ![h.u].estado = "INACTIVO"]
      BY <1>t, <3>4 DEF Fila
    <3> HIDE DEF Intacta
    <3>5. QED
      BY <1>5, <3>1, <3>2, <3>3, <3>4
  <2> HIDE DEF f
  <2>3. QED
    BY <2>1, <2>2
<1>6. QED
  BY <1>t, <1>1, <1>2, <1>3, <1>4, <1>5 DEF EscrituraCuenta

\* The UPDATEs of Bloqueo: the lock and the counter of the row it is about.
LEMMA BloqueoEscribe ==
  ASSUME InvAcceso, NEW p \in Peticiones, NEW K, ContinuarBloqueo(p) \/ PedirBloqueo(p, K)
  PROVE  LET h == peticiones[p] IN
         \/ UNCHANGED usuarios
         \/ /\ EnCurso(p)
            /\ \/ EscribirBloqueo(h.u, h.codigo, h.fecha)
               \/ EscribirBloqueo(h.u, Nulo, Nulo)
               \/ EscribirContador(h.u, h.intentos)
               \/ EscribirDesbloqueo(h.u)
BY DEF PedirBloqueo, BuscarUsuario, RechazarUsuario, BuscarPorCodigoDesbloqueo, vars,
   ContinuarBloqueo, VerificarPermitido, VerificarBloqueada, VerificarGenerar,
   ActualizarDatosBloqueo, EnviarCorreoBloqueo, CompararErronea, CompararCorrecta,
   RestaurarDatosBloqueo, ActualizarContadorBloqueos, Desbloquear, En, EnCurso

LEMMA BloqueoFilas ==
  ASSUME InvAcceso, NEW p \in Peticiones, NEW K, ContinuarBloqueo(p) \/ PedirBloqueo(p, K)
  PROVE  \A u \in Usuarios :
           /\ usuarios'[u] # usuarios[u] => EnCurso(p) /\ u = peticiones[p].u
           /\ usuarios'[u].estado = usuarios[u].estado
<1> DEFINE h == peticiones[p]
<1>1. /\ usuarios \in [Usuarios -> Fila] /\ (EnCurso(p) => h.u \in Usuarios)
      /\ \A u \in Usuarios : usuarios[u] \in Fila
  BY DEF InvAcceso, InvIntentos, Tipos, Bien
<1>2. CASE UNCHANGED usuarios
  BY <1>2
<1>3. CASE /\ EnCurso(p)
           /\ \/ EscribirBloqueo(h.u, h.codigo, h.fecha)
              \/ EscribirBloqueo(h.u, Nulo, Nulo)
              \/ EscribirContador(h.u, h.intentos)
              \/ EscribirDesbloqueo(h.u)
  <2> SUFFICES ASSUME NEW u \in Usuarios
               PROVE  /\ usuarios'[u] # usuarios[u] => EnCurso(p) /\ u = h.u
                      /\ usuarios'[u].estado = usuarios[u].estado
    OBVIOUS
  <2>1. ASSUME NEW c, NEW f, EscribirBloqueo(h.u, c, f)
        PROVE  /\ usuarios'[u] # usuarios[u] => EnCurso(p) /\ u = h.u
               /\ usuarios'[u].estado = usuarios[u].estado
    BY <1>1, <1>3, <2>1 DEF EscribirBloqueo, Fila
  <2>2. CASE EscribirContador(h.u, h.intentos)
    BY <1>1, <1>3, <2>2 DEF EscribirContador, Fila
  <2>3. CASE EscribirDesbloqueo(h.u)
    BY <1>1, <1>3, <2>3 DEF EscribirDesbloqueo, Fila
  <2>4. QED
    BY <1>3, <2>1, <2>2, <2>3
<1>4. QED
  BY <1>2, <1>3, BloqueoEscribe

-----------------------------------------------------------------------------
\* A registration and the row it inserts.  crearCuenta reads that nobody has the
\* address, and writes the row two awaits later, without looking again.

InvAlta ==
  /\ \A u \in Usuarios :
       usuarios[u].estado = "AUSENTE" => usuarios[u] = FilaNueva("AUSENTE", Nulo)
  /\ \A p \in Peticiones :
       EnCurso(p) /\ peticiones[p].pc \notin DeAlta
         => usuarios[peticiones[p].u].estado # "AUSENTE"
  /\ \A p \in Peticiones :
       peticiones[p].pc \in Insertando => usuarios[peticiones[p].u].estado = "AUSENTE"
  /\ \A p, q \in Peticiones :
       p # q /\ peticiones[p].pc \in Insertando /\ peticiones[q].pc \in Insertando
         => peticiones[p].u # peticiones[q].u

LEMMA AltaSigue ==
  ASSUME InvAcceso, InvAlta, NEW p \in Peticiones, NEW r, Sigue(p, r),
         \A u \in Usuarios : usuarios'[u] # usuarios[u] =>
            /\ EnCurso(p) /\ u = peticiones[p].u
            /\ En(p, "confirmarCuenta") \/ peticiones[p].pc \notin DeAlta
            /\ usuarios'[u].estado # "AUSENTE",
         r.pc \notin DeAlta \cup {"libre"} => usuarios'[r.u].estado # "AUSENTE",
         r.pc \in Insertando =>
            /\ usuarios'[r.u].estado = "AUSENTE"
            /\ \A q \in Peticiones \ {p} :
                 peticiones[q].pc \in Insertando => peticiones[q].u # r.u
  PROVE  InvAlta'
<1> DEFINE h == peticiones[p]
<1>1. /\ peticiones'[p] = r
      /\ \A q \in Peticiones \ {p} : peticiones'[q] = peticiones[q]
  BY DEF InvAcceso, InvIntentos, Tipos, Sigue
<1>u. \A q \in Peticiones : EnCurso(q) => peticiones[q].u \in Usuarios
  BY DEF InvAcceso, InvIntentos, Bien
<1>2. (\A u \in Usuarios :
         usuarios[u].estado = "AUSENTE" => usuarios[u] = FilaNueva("AUSENTE", Nulo))'
  BY DEF InvAlta
<1>3. ASSUME NEW q \in Peticiones, (EnCurso(q) /\ peticiones[q].pc \notin DeAlta)'
      PROVE  (usuarios[peticiones[q].u].estado # "AUSENTE")'
  BY <1>1, <1>3, <1>u DEF InvAlta, EnCurso
<1>4. ASSUME NEW q \in Peticiones, (peticiones[q].pc \in Insertando)'
      PROVE  (usuarios[peticiones[q].u].estado = "AUSENTE")'
  <2>1. CASE q = p
    BY <1>1, <1>4, <2>1
  <2>2. CASE q # p
    <3>1. peticiones[q].pc \in Insertando /\ EnCurso(q)
      BY <1>1, <1>4, <2>2 DEF EnCurso, Insertando
    <3>2. usuarios[peticiones[q].u].estado = "AUSENTE" /\ peticiones[q].u \in Usuarios
      BY <1>u, <3>1 DEF InvAlta
    <3>3. usuarios'[peticiones[q].u] = usuarios[peticiones[q].u]
      BY <2>2, <3>1, <3>2 DEF InvAlta, En, Insertando
    <3>4. QED
      BY <1>1, <2>2, <3>2, <3>3
  <2>3. QED
    BY <2>1, <2>2
<1>5. ASSUME NEW o \in Peticiones, NEW q \in Peticiones, o # q,
             (peticiones[o].pc \in Insertando /\ peticiones[q].pc \in Insertando)'
      PROVE  (peticiones[o].u # peticiones[q].u)'
  BY <1>1, <1>5 DEF InvAlta
<1>6. QED
  BY <1>2, <1>3, <1>4, <1>5 DEF InvAlta

LEMMA AltaCuenta ==
  ASSUME InvAcceso, InvAlta, NEW p \in Peticiones, ContinuarCuenta(p)
  PROVE  InvAlta'
<1> DEFINE h == peticiones[p]
<1>1. PICK r : Avanza(p, r)
  BY CuentaForma
<1>2. EnCurso(p) /\ EscrituraCuenta(p)
  BY CuentaForma
<1>f. /\ h.u \in Usuarios
      /\ \A u \in Usuarios : u # h.u => usuarios'[u] = usuarios[u]
      /\ \/ usuarios' = usuarios
         \/ h.pc \notin DeAlta /\ usuarios'[h.u].estado \in {usuarios[h.u].estado, "ACTIVO", "INACTIVO"}
         \/ /\ En(p, "nuevaContrasena") \/ En(p, "confirmarCuenta")
            /\ usuarios'[h.u].estado # "AUSENTE"
  BY <1>2, CuentaFilas
<1>3. ASSUME NEW u \in Usuarios, usuarios'[u] # usuarios[u]
      PROVE  /\ u = h.u
             /\ En(p, "confirmarCuenta") \/ h.pc \notin DeAlta
             /\ usuarios'[u].estado # "AUSENTE"
  BY <1>2, <1>3, <1>f DEF InvAlta, En, DeAlta
<1>4. r.pc \notin DeAlta \cup {"libre"} => usuarios'[r.u].estado # "AUSENTE"
  BY <1>1, <1>2, <1>3, <1>f DEF Avanza, InvAlta
<1>5. ASSUME r.pc \in Insertando
      PROVE  /\ usuarios'[r.u].estado = "AUSENTE"
             /\ \A q \in Peticiones \ {p} :
                  peticiones[q].pc \in Insertando => peticiones[q].u # r.u
  <2>1. r.u = h.u /\ h.pc # "confirmarCuenta" /\ h.pc \in DeAlta
        /\ usuarios[h.u].estado = "AUSENTE"
    <3>1. CASE r.pc = "correoCuenta"
      BY <1>1, <3>1 DEF Avanza, DeAlta, En
    <3>2. CASE r.pc = "confirmarCuenta"
      BY <1>1, <3>2 DEF Avanza, Insertando, DeAlta, En, InvAlta
    <3>3. QED
      BY <1>5, <3>1, <3>2 DEF Insertando
  <2>2. usuarios'[h.u] = usuarios[h.u]
    BY <1>3, <1>f, <2>1 DEF En
  <2>3. \A q \in Peticiones \ {p} : peticiones[q].pc \in Insertando => peticiones[q].u # h.u
    BY <1>1, <1>5, <2>1 DEF Avanza, Insertando, InvAlta, SinCandado, ConCandado, En
  <2>4. QED
    BY <2>1, <2>2, <2>3
<1>6. Sigue(p, r)
  BY <1>1 DEF Avanza
<1>7. QED
  BY <1>2, <1>3, <1>4, <1>5, <1>6, AltaSigue

LEMMA AltaBloqueo ==
  ASSUME InvAcceso, InvAlta, NEW p \in Peticiones, NEW K,
         ContinuarBloqueo(p) \/ PedirBloqueo(p, K)
  PROVE  InvAlta'
<1>1. CASE UNCHANGED vars
  BY <1>1 DEF vars, InvAlta, EnCurso
<1>2. ASSUME NEW r, Sigue(p, r), r.pc \in PcBloqueo, Queda(p, r) PROVE InvAlta'
  <2>1. peticiones[p].pc \notin DeAlta /\ r.pc \notin DeAlta /\ r.pc \notin Insertando
    BY <1>2, BloqueoForma DEF PcBloqueo, DeAlta, Insertando
  <2>2. \A u \in Usuarios : /\ usuarios'[u] # usuarios[u] => EnCurso(p) /\ u = peticiones[p].u
                            /\ usuarios'[u].estado = usuarios[u].estado
    BY BloqueoFilas
  <2>3. \A u \in Usuarios : usuarios'[u] # usuarios[u] => usuarios'[u].estado # "AUSENTE"
    BY <2>1, <2>2 DEF InvAlta
  <2>4. ASSUME r.pc # "libre" PROVE usuarios'[r.u].estado # "AUSENTE"
    BY <1>2, <2>1, <2>2, <2>4 DEF Queda, InvAlta, InvAcceso, InvIntentos, Bien
  <2>5. QED
    BY <1>2, <2>1, <2>2, <2>3, <2>4, AltaSigue
<1>3. QED
  BY <1>1, <1>2, BloqueoForma

LEMMA AltaPedir ==
  ASSUME InvAcceso, InvAlta, NEW p \in Peticiones, PedirCuenta(p)
  PROVE  InvAlta'
<1>1. PICK pc \in PcInicial, u \in Usuarios, k \in Claves \cup {Nulo}, c \in Codigo :
        Empieza(p, pc, u, k, c) /\ Leida(pc, u) /\ UNCHANGED <<usuarios, reloj, erroneos>>
  BY PedirForma
<1> DEFINE r == [Libre EXCEPT !.pc = pc, !.u = u, !.clave = k, !.codigo = c]
<1>2. Sigue(p, r) /\ r.pc = pc /\ r.u = u
  BY <1>1 DEF Empieza, Libre
<1> HIDE DEF r
<1>3. pc \notin Insertando /\ (pc \notin DeAlta => usuarios[u].estado # "AUSENTE")
  BY <1>1 DEF PcInicial, Insertando, DeAlta, Leida, InvAlta
<1>4. QED
  BY <1>1, <1>2, <1>3, AltaSigue

LEMMA AltaPaso == InvAcceso /\ InvAlta /\ [NextAcceso]_vars => InvAlta'
<1> SUFFICES ASSUME InvAcceso, InvAlta, [NextAcceso]_vars PROVE InvAlta'
  OBVIOUS
<1>1. CASE Tick \/ UNCHANGED vars
  BY <1>1 DEF Tick, vars, InvAlta, EnCurso
<1>2. ASSUME NEW p \in Peticiones, Abortar(p) PROVE InvAlta'
  <2>1. Sigue(p, Libre) /\ usuarios' = usuarios /\ Libre.pc = "libre"
    BY <1>2 DEF Abortar, Termina, Libre
  <2>2. QED
    BY <2>1, AltaSigue DEF Insertando
<1>3. ASSUME NEW p \in Peticiones, PedirBloqueo(p, Conocidas) \/ ContinuarBloqueo(p)
      PROVE  InvAlta'
  BY <1>3, AltaBloqueo
<1>4. ASSUME NEW p \in Peticiones, PedirCuenta(p) PROVE InvAlta'
  BY <1>4, AltaPedir
<1>5. ASSUME NEW p \in Peticiones, ContinuarCuenta(p) PROVE InvAlta'
  BY <1>5, AltaCuenta
<1>6. QED
  BY <1>1, <1>2, <1>3, <1>4, <1>5, Zenon DEF NextAcceso, PedirAcceso, ContinuarAcceso

LEMMA AltaInicial == InitAcceso => InvAlta
<1> SUFFICES ASSUME InitAcceso PROVE InvAlta
  OBVIOUS
<1>1. \A p \in Peticiones : peticiones[p].pc = "libre"
  BY DEF InitAcceso, Init, Libre
<1>2. ASSUME NEW u \in Usuarios, usuarios[u].estado = "AUSENTE"
      PROVE  usuarios[u] = FilaNueva("AUSENTE", Nulo)
  <2>1. usuarios[u] \in {FilaNueva("AUSENTE", Nulo)} \cup
                        {FilaNueva(e, k) : e \in Estados \ {"AUSENTE"}, k \in Claves}
    BY DEF InitAcceso, Init
  <2>2. \A e, k : FilaNueva(e, k).estado = e
    BY DEF FilaNueva
  <2>3. QED
    BY <1>2, <2>1, <2>2
<1>3. QED
  BY <1>1, <1>2 DEF InvAlta, EnCurso, Insertando

LEMMA AltaSiempre == SpecAcceso => []InvAlta
BY InvAccesoSiempre, AltaInicial, AltaPaso, PTL DEF SpecAcceso

\* However registrations of one address, logins, recoveries and the acts of
\* administrators overlap, the row crearCuenta commits takes the place of no account:
\* nobody's password, lock or codes are overwritten by it.
THEOREM AltaNoPisa ==
  SpecAcceso => [][\A p \in Peticiones :
                     ConfirmarCuenta(p) => usuarios[peticiones[p].u] = FilaNueva("AUSENTE", Nulo)]_vars
<1>1. InvAcceso /\ InvAlta =>
        [\A p \in Peticiones :
           ConfirmarCuenta(p) => usuarios[peticiones[p].u] = FilaNueva("AUSENTE", Nulo)]_vars
  BY DEF InvAlta, InvAcceso, InvIntentos, Bien, ConfirmarCuenta, Acaba, En, EnCurso, Insertando
<1>2. QED
  BY <1>1, InvAccesoSiempre, AltaSiempre, PTL

-----------------------------------------------------------------------------
\* One request at a time per account, whatever it is and wherever it fails: the
\* lockout keeps its promises also next to registrations, recoveries and
\* administrators.

LEMMA SerieCuenta ==
  ASSUME InvAcceso, InvSerie(PcAcceso), InvIntentos(PcAcceso)', Serie',
         NEW p \in Peticiones, ContinuarCuenta(p)
  PROVE  InvSerie(PcAcceso)'
<1>1. PICK r : Avanza(p, r)
  BY CuentaForma
<1>2. EnCurso(p) /\ reloj' = reloj /\ EscrituraCuenta(p)
  BY CuentaForma
<1>3. Sigue(p, r)
      /\ r.pc \notin {"leido", "comparar", "bloquear", "restaurarBloqueo", "contar"}
  BY <1>1 DEF Avanza, PcCuenta
<1>4. ASSUME NEW u \in Usuarios, usuarios'[u] # usuarios[u]
      PROVE  /\ u = peticiones[p].u
             /\ Vigente(usuarios'[u].fechaBloqueo) => usuarios'[u].intentos >= WRONG_LOGIN_LIMIT
  BY <1>2, <1>4, CuentaFilas DEF Vigente, InvSerie, BloqueoEfectivo
<1>5. QED
  BY <1>2, <1>3, <1>4, SerieSigue

LEMMA SerieAccesoPaso ==
  InvAcceso /\ InvSerie(PcAcceso) /\ [NextAcceso /\ Serie']_vars => InvSerie(PcAcceso)'
<1> SUFFICES ASSUME InvAcceso, InvSerie(PcAcceso), [NextAcceso /\ Serie']_vars
             PROVE  InvSerie(PcAcceso)'
  OBVIOUS
<1>1. CASE UNCHANGED vars
  <2>1. InvIntentos(PcAcceso)'
    BY <1>1, InvAccesoPaso DEF InvAcceso
  <2>2. QED
    BY <1>1, <2>1 DEF vars, InvSerie, Serie, EnCurso, Vista, BloqueoEfectivo, Vigente, Vencida
<1>2. CASE NextAcceso /\ Serie'
  <2>i. InvIntentos(PcAcceso)'
    BY <1>2, InvAccesoPaso DEF InvAcceso
  <2>1. CASE Tick
    BY <1>2, <2>i, <2>1, SerieTick
  <2>2. ASSUME NEW p \in Peticiones, PedirBloqueo(p, Conocidas) PROVE InvSerie(PcAcceso)'
    BY <1>2, <2>i, <2>2, SeriePedir
  <2>3. ASSUME NEW p \in Peticiones, ContinuarBloqueo(p) PROVE InvSerie(PcAcceso)'
    BY <1>2, <2>i, <2>3, SeriePaso
  <2>4. ASSUME NEW p \in Peticiones, Abortar(p) PROVE InvSerie(PcAcceso)'
    <3>1. Sigue(p, Libre) /\ reloj' = reloj /\ usuarios' = usuarios /\ Libre.pc = "libre"
      BY <2>4 DEF Abortar, Termina, Libre
    <3>2. QED
      BY <1>2, <2>i, <3>1, SerieSigue
  <2>5. ASSUME NEW p \in Peticiones, PedirCuenta(p) PROVE InvSerie(PcAcceso)'
    <3>1. PICK r : Sigue(p, r) /\ r.pc \in PcInicial
                   /\ reloj' = reloj /\ usuarios' = usuarios
      BY <2>5, PedirSigue
    <3>2. QED
      BY <1>2, <2>i, <3>1, SerieSigue DEF PcInicial
  <2>6. ASSUME NEW p \in Peticiones, ContinuarCuenta(p) PROVE InvSerie(PcAcceso)'
    BY <1>2, <2>i, <2>6, SerieCuenta
  <2>7. QED
    BY <1>2, <2>1, <2>2, <2>3, <2>4, <2>5, <2>6, Zenon
       DEF NextAcceso, PedirAcceso, ContinuarAcceso
<1>3. QED
  BY <1>1, <1>2

LEMMA SerieAccesoInicial == InitAcceso => InvSerie(PcAcceso)
<1> SUFFICES ASSUME InitAcceso PROVE InvSerie(PcAcceso)
  OBVIOUS
<1>1. InvSerie(PcBloqueo)
  BY SerieInicial DEF InitAcceso
<1>2. InvIntentos(PcAcceso)
  BY InvAccesoInicial DEF InvAcceso
<1>3. QED
  BY <1>1, <1>2 DEF InvSerie

LEMMA EnSerieEsAcceso == SpecAccesoSerie => SpecAcceso
<1>1. [NextAcceso /\ Serie']_vars => [NextAcceso]_vars
  OBVIOUS
<1>2. QED
  BY <1>1, PTL DEF SpecAccesoSerie, SpecAcceso

LEMMA SerieAccesoSiempre == SpecAccesoSerie => [](InvAcceso /\ InvAlta /\ InvSerie(PcAcceso))
BY EnSerieEsAcceso, InvAccesoSiempre, AltaSiempre, SerieAccesoInicial, SerieAccesoPaso, PTL
   DEF SpecAccesoSerie

\* While the lock of an account has time left nobody logs in, although the recovery of a
\* password, the unlocking link and an administrator also write the row: none of
\* them takes the counter away and leaves the lock.
THEOREM BloqueoEfectivoEnAcceso == SpecAccesoSerie => []BloqueoEfectivo
<1>1. InvSerie(PcAcceso) => BloqueoEfectivo
  BY DEF InvSerie
<1>2. QED
  BY <1>1, SerieAccesoSiempre, PTL

\* And no handler of the account prolongs a lock that has started.
THEOREM BloqueoNoSeExtiendeEnAcceso == SpecAccesoSerie => BloqueoNoSeExtiende
<1>1. InvAcceso /\ InvSerie(PcAcceso) /\ [NextAcceso /\ Serie']_vars =>
        [\A u \in Usuarios :
           Vigente(usuarios[u].fechaBloqueo)
             => usuarios'[u].fechaBloqueo \in {usuarios[u].fechaBloqueo, Nulo}]_vars
  <2> SUFFICES ASSUME InvAcceso, InvSerie(PcAcceso), NextAcceso, NEW u \in Usuarios,
                      Vigente(usuarios[u].fechaBloqueo), usuarios' # usuarios
               PROVE  usuarios'[u].fechaBloqueo \in {usuarios[u].fechaBloqueo, Nulo}
    BY DEF vars
  <2>1. ASSUME NEW p \in Peticiones PROVE ~ PedirCuenta(p) /\ ~ PedirBloqueo(p, Conocidas)
    <3>1. PedirBloqueo(p, Conocidas) => usuarios' = usuarios
      BY DEF PedirBloqueo, BuscarUsuario, RechazarUsuario, BuscarPorCodigoDesbloqueo, vars
    <3>2. QED
      BY <3>1, PedirSigue
  <2>2. PICK p \in Peticiones : ContinuarBloqueo(p) \/ ContinuarCuenta(p)
    BY <2>1 DEF NextAcceso, PedirAcceso, ContinuarAcceso, Tick, Abortar
  <2>3. CASE ContinuarBloqueo(p)
    BY <2>3, PasoNoExtiende
  <2>4. CASE ContinuarCuenta(p)
    BY <2>4, CuentaForma, CuentaFilas
  <2>5. QED
    BY <2>2, <2>3, <2>4
<1>2. QED
  BY <1>1, SerieAccesoSiempre, PTL DEF SpecAccesoSerie, BloqueoNoSeExtiende

-----------------------------------------------------------------------------
\* And when no await fails, the counter of the row is still the number of wrong
\* passwords: a recovered account and a new one start at 0 with it.

LEMMA SaldoCuenta ==
  ASSUME InvAcceso, InvAlta, InvSerie(PcAcceso), CuentaExacta,
         NEW p \in Peticiones, ContinuarCuenta(p)
  PROVE  CuentaExacta'
<1> DEFINE a == peticiones[p].u
<1>1. PICK r : Avanza(p, r)
  BY CuentaForma
<1>2. EnCurso(p) /\ EscrituraCuenta(p) /\ peticiones[p].pc \notin PcBloqueo
  BY CuentaForma
<1>3. /\ Sigue(p, r)
      /\ r.pc \notin {"restaurarBloqueo", "contar"}
      /\ r.pc = "libre" \/ r.u = a
  BY <1>1 DEF Avanza, PcCuenta
<1>4. erroneos[a] = usuarios[a].intentos /\ a \in Usuarios
  <2>1. \A q \in Peticiones : PorContar(q) => peticiones[q].u # a
    BY <1>2 DEF PorContar, InvSerie, Serie, EnCurso, PcBloqueo
  <2>2. a \in Usuarios
    BY <1>2, CuentaFilas
  <2>3. QED
    BY <2>1, <2>2 DEF CuentaExacta
<1>5. erroneos'[a] = usuarios'[a].intentos
  <2>1. CASE En(p, "confirmarCuenta")
    <3>1. usuarios[a].estado = "AUSENTE"
      BY <2>1 DEF InvAlta, En, Insertando
    <3>2. usuarios[a] = FilaNueva("AUSENTE", Nulo)
      BY <1>4, <3>1 DEF InvAlta
    <3>3. erroneos[a] = 0
      BY <1>4, <3>2 DEF FilaNueva
    <3>4. QED
      BY <1>2, <1>4, <2>1, <3>3, CuentaFilas DEF En
  <2>2. CASE ~ En(p, "confirmarCuenta")
    BY <1>2, <1>4, <2>2, CuentaFilas
  <2>3. QED
    BY <2>1, <2>2
<1>6. \A u \in Usuarios : u # a => erroneos'[u] = erroneos[u] /\ usuarios'[u] = usuarios[u]
  BY <1>2, CuentaFilas
<1>7. QED
  BY <1>2, <1>3, <1>5, <1>6, CuentaSaldada DEF InvSerie

LEMMA SaldoPaso ==
  ASSUME ~ Fallos, InvAcceso, InvAlta, InvSerie(PcAcceso), CuentaExacta,
         [NextAcceso /\ Serie']_vars
  PROVE  CuentaExacta'
<1>t. InvIntentos(PcAcceso)
  BY DEF InvSerie
<1>1. CASE UNCHANGED vars
  BY <1>1 DEF vars, CuentaExacta, PorContar
<1>2. CASE Tick
  BY <1>2 DEF Tick, CuentaExacta, PorContar
<1>3. ASSUME NEW p \in Peticiones, PedirBloqueo(p, Conocidas) PROVE CuentaExacta'
  BY <1>3, <1>t, CuentaPedir
<1>4. ASSUME NEW p \in Peticiones, ContinuarBloqueo(p), Serie' PROVE CuentaExacta'
  BY <1>4, CuentaPaso
<1>5. ASSUME NEW p \in Peticiones, PedirCuenta(p) PROVE CuentaExacta'
  <2>1. PICK r : /\ Sigue(p, r) /\ r.pc \in PcInicial /\ ~ EnCurso(p)
                 /\ erroneos' = erroneos /\ usuarios' = usuarios
    BY <1>5, PedirSigue
  <2>2. ~ PorContar(p) /\ r.pc \notin {"restaurarBloqueo", "contar"}
    BY <2>1 DEF PorContar, EnCurso, PcInicial
  <2>3. QED
    BY <1>t, <2>1, <2>2, CuentaQuieta
<1>6. ASSUME NEW p \in Peticiones, ContinuarCuenta(p) PROVE CuentaExacta'
  BY <1>6, SaldoCuenta
<1>7. \A p \in Peticiones : ~ Abortar(p)
  BY DEF Abortar
<1>8. QED
  BY <1>1, <1>2, <1>3, <1>4, <1>5, <1>6, <1>7, Zenon DEF NextAcceso, PedirAcceso, ContinuarAcceso

LEMMA SaldoSiempre ==
  ASSUME ~ Fallos PROVE SpecAccesoSerie => [](InvSerie(PcAcceso) /\ CuentaExacta)
<1>1. InvAcceso /\ InvAlta /\ InvSerie(PcAcceso) /\ CuentaExacta /\ [NextAcceso /\ Serie']_vars
        => CuentaExacta'
  BY SaldoPaso
<1>2. InitAcceso => CuentaExacta
  BY CuentaInicial DEF InitAcceso
<1>3. QED
  BY <1>1, <1>2, SerieAccesoSiempre, PTL DEF SpecAccesoSerie

\* Never more than WRONG_LOGIN_LIMIT wrong passwords are compared in a row, with all the
\* handlers of an account at work on it.
THEOREM LimiteEnAcceso == ASSUME ~ Fallos PROVE SpecAccesoSerie => []LimiteErroneos
<1>1. InvSerie(PcAcceso) /\ CuentaExacta => LimiteErroneos
  BY CuentaLimita
<1>2. QED
  BY <1>1, SaldoSiempre, PTL

\* And an account is locked only after that many, also right after its password was
\* recovered, reset or changed.
THEOREM BloqueoMerecidoEnAcceso == ASSUME ~ Fallos PROVE SpecAccesoSerie => []BloqueoMerecido
<1>1. InvSerie(PcAcceso) /\ CuentaExacta => BloqueoMerecido
  BY CuentaLimita
<1>2. QED
  BY <1>1, SaldoSiempre, PTL

-----------------------------------------------------------------------------
\* The two codes of a recovery, when the requests of an account do not overlap.

\* Between the read of validarRecuperar and its UPDATE the first code is still there.
InvRecuperacion ==
  /\ TransaccionTrasRecuperacion
  /\ \A p \in Peticiones :
       En(p, "validar") => usuarios[peticiones[p].u].codigoRecuperacion # Nulo

\* A request that reads the code later than a write of its row is the only one on it.
LEMMA RecuperacionSigue ==
  ASSUME InvAcceso, InvRecuperacion, Serie, NEW p \in Peticiones, NEW r, Sigue(p, r),
         TransaccionTrasRecuperacion',
         \A u \in Usuarios : usuarios'[u] # usuarios[u] => EnCurso(p) /\ u = peticiones[p].u,
         r.pc = "validar" => usuarios'[r.u].codigoRecuperacion # Nulo
  PROVE  InvRecuperacion'
<1>1. /\ peticiones'[p] = r
      /\ \A q \in Peticiones \ {p} : peticiones'[q] = peticiones[q]
      /\ \A q \in Peticiones : EnCurso(q) => peticiones[q].u \in Usuarios
  BY DEF InvAcceso, InvIntentos, Tipos, Bien, Sigue
<1>2. ASSUME NEW q \in Peticiones, q # p, En(q, "validar")
      PROVE  usuarios'[peticiones[q].u].codigoRecuperacion # Nulo
  <2>1. usuarios'[peticiones[q].u] = usuarios[peticiones[q].u]
    BY <1>1, <1>2 DEF Serie, En, EnCurso
  <2>2. QED
    BY <1>2, <2>1 DEF InvRecuperacion
<1>3. QED
  BY <1>1, <1>2 DEF InvRecuperacion, En

\* Only validarRecuperar writes the second code; whatever takes the first one away takes
\* both.
LEMMA EscrituraRecuperacion ==
  ASSUME usuarios \in [Usuarios -> Fila], TransaccionTrasRecuperacion,
         NEW u \in Usuarios, NEW k, NEW c, NEW d, NEW n,
         \/ EscribirRecuperada(u, k) \/ EscribirActiva(u, k) \/ EscribirActivada(u)
         \/ usuarios' = [usuarios EXCEPT ![u] = FilaPendiente(k, c)]
         \/ usuarios' = [usuarios EXCEPT ![u].codigoRecuperacion = c] /\ c # Nulo
         \/ /\ usuarios' = [usuarios EXCEPT ![u].codigoTransaccion = c]
            /\ usuarios[u].codigoRecuperacion # Nulo
         \/ usuarios' = [usuarios EXCEPT ![u].codigoActivacion = c]
         \/ usuarios' = [usuarios EXCEPT ![u].contrasena = c]
         \/ usuarios' = [usuarios EXCEPT ![u].estado = "INACTIVO"]
         \/ EscribirBloqueo(u, c, d) \/ EscribirContador(u, n) \/ EscribirDesbloqueo(u)
  PROVE  TransaccionTrasRecuperacion'
<1> SUFFICES ASSUME NEW v \in Usuarios, usuarios'[v].codigoTransaccion # Nulo
             PROVE  usuarios'[v].codigoRecuperacion # Nulo
  BY DEF TransaccionTrasRecuperacion
<1>t. usuarios[v] \in Fila /\ usuarios[u] \in Fila
      /\ (usuarios[v].codigoTransaccion # Nulo => usuarios[v].codigoRecuperacion # Nulo)
  BY DEF TransaccionTrasRecuperacion
<1>1. CASE v # u
  BY <1>1, <1>t DEF EscribirRecuperada, EscribirActiva, EscribirActivada, EscribirBloqueo,
     EscribirContador, EscribirDesbloqueo
<1>2. CASE v = u
  <2>1. CASE EscribirRecuperada(u, k)
    BY <1>2, <1>t, <2>1 DEF EscribirRecuperada, Fila
  <2>2. CASE EscribirActiva(u, k) \/ EscribirActivada(u)
             \/ EscribirBloqueo(u, c, d) \/ EscribirContador(u, n) \/ EscribirDesbloqueo(u)
    BY <1>2, <1>t, <2>2 DEF EscribirActiva, EscribirActivada, EscribirBloqueo,
       EscribirContador, EscribirDesbloqueo, Fila
  <2>3. CASE usuarios' = [usuarios EXCEPT ![u] = FilaPendiente(k, c)]
    BY <1>2, <2>3 DEF FilaPendiente, FilaNueva
  <2>4. CASE \/ usuarios' = [usuarios EXCEPT ![u].codigoRecuperacion = c] /\ c # Nulo
             \/ /\ usuarios' = [usuarios EXCEPT ![u].codigoTransaccion = c]
                /\ usuarios[u].codigoRecuperacion # Nulo
             \/ usuarios' = [usuarios EXCEPT ![u].codigoActivacion = c]
             \/ usuarios' = [usuarios EXCEPT ![u].contrasena = c]
             \/ usuarios' = [usuarios EXCEPT ![u].estado = "INACTIVO"]
    BY <1>2, <1>t, <2>4 DEF Fila
  <2>5. QED
    BY <2>1, <2>2, <2>3, <2>4
<1>3. QED
  BY <1>1, <1>2

LEMMA RecuperacionBloqueo ==
  ASSUME InvAcceso, InvRecuperacion, Serie, NEW p \in Peticiones, NEW K,
         ContinuarBloqueo(p) \/ PedirBloqueo(p, K)
  PROVE  InvRecuperacion'
<1>1. TransaccionTrasRecuperacion'
  <2>1. /\ usuarios \in [Usuarios -> Fila] /\ (EnCurso(p) => peticiones[p].u \in Usuarios)
        /\ TransaccionTrasRecuperacion
    BY DEF InvAcceso, InvIntentos, Tipos, Bien, InvRecuperacion
  <2>2. CASE UNCHANGED usuarios
    BY <2>1, <2>2 DEF TransaccionTrasRecuperacion
  <2>3. CASE ~ UNCHANGED usuarios
    BY <2>1, <2>3, BloqueoEscribe, EscrituraRecuperacion
  <2>4. QED
    BY <2>2, <2>3
<1>2. CASE UNCHANGED vars
  BY <1>2 DEF vars, InvRecuperacion, TransaccionTrasRecuperacion, En
<1>3. ASSUME NEW r, Sigue(p, r), r.pc \in PcBloqueo PROVE InvRecuperacion'
  BY <1>1, <1>3, BloqueoFilas, RecuperacionSigue DEF PcBloqueo
<1>4. QED
  BY <1>2, <1>3, BloqueoForma

LEMMA RecuperacionPedir ==
  ASSUME InvAcceso, InvRecuperacion, Serie, NEW p \in Peticiones, PedirCuenta(p)
  PROVE  InvRecuperacion'
<1>1. PICK pc \in PcInicial, u \in Usuarios, k \in Claves \cup {Nulo}, c \in Codigo :
        Empieza(p, pc, u, k, c) /\ Leida(pc, u) /\ UNCHANGED <<usuarios, reloj, erroneos>>
  BY PedirForma
<1> DEFINE r == [Libre EXCEPT !.pc = pc, !.u = u, !.clave = k, !.codigo = c]
<1>2. Sigue(p, r) /\ r.pc = pc /\ r.u = u
  BY <1>1 DEF Empieza, Libre
<1> HIDE DEF r
<1>3. TransaccionTrasRecuperacion'
  BY <1>1 DEF InvRecuperacion, TransaccionTrasRecuperacion
<1>4. QED
  BY <1>1, <1>2, <1>3, RecuperacionSigue DEF Leida

LEMMA RecuperacionCuenta ==
  ASSUME InvAcceso, InvRecuperacion, Serie, NEW p \in Peticiones, ContinuarCuenta(p)
  PROVE  InvRecuperacion'
<1> DEFINE h == peticiones[p]
<1>1. EnCurso(p) /\ EscrituraCuenta(p)
  BY CuentaForma
<1>2. PICK r : Avanza(p, r)
  BY CuentaForma
<1>3. Sigue(p, r) /\ r.pc # "validar"
  BY <1>2 DEF Avanza, PcInicial
<1>4. /\ usuarios \in [Usuarios -> Fila] /\ h.u \in Usuarios
      /\ En(p, "recuperar") => h.codigo # Nulo
      /\ En(p, "validar") => usuarios[h.u].codigoRecuperacion # Nulo
      /\ TransaccionTrasRecuperacion
  BY <1>1, NuloSupuesto DEF InvAcceso, InvIntentos, Tipos, Bien, ConCodigo, PcConCodigo,
     InvRecuperacion, En
<1>5. TransaccionTrasRecuperacion'
  <2>1. CASE UNCHANGED <<usuarios, erroneos>>
    BY <1>4, <2>1 DEF TransaccionTrasRecuperacion
  <2>2. CASE ~ UNCHANGED <<usuarios, erroneos>>
    BY <1>1, <1>4, <2>2, EscrituraRecuperacion DEF EscrituraCuenta
  <2>3. QED
    BY <2>1, <2>2
<1>6. \A u \in Usuarios : usuarios'[u] # usuarios[u] => u = h.u
  BY <1>1, CuentaFilas
<1>7. QED
  BY <1>1, <1>3, <1>5, <1>6, RecuperacionSigue

LEMMA RecuperacionPaso ==
  InvAcceso /\ InvRecuperacion /\ Serie /\ [NextAcceso]_vars => InvRecuperacion'
<1> SUFFICES ASSUME InvAcceso, InvRecuperacion, Serie, [NextAcceso]_vars
             PROVE  InvRecuperacion'
  OBVIOUS
<1>1. CASE Tick \/ UNCHANGED vars
  BY <1>1 DEF Tick, vars, InvRecuperacion, TransaccionTrasRecuperacion, En
<1>2. ASSUME NEW p \in Peticiones, Abortar(p) PROVE InvRecuperacion'
  <2>1. Sigue(p, Libre) /\ usuarios' = usuarios /\ Libre.pc = "libre"
    BY <1>2 DEF Abortar, Termina, Libre
  <2>2. TransaccionTrasRecuperacion'
    BY <2>1 DEF InvRecuperacion, TransaccionTrasRecuperacion
  <2>3. QED
    BY <2>1, <2>2, RecuperacionSigue
<1>3. ASSUME NEW p \in Peticiones, PedirBloqueo(p, Conocidas) \/ ContinuarBloqueo(p)
      PROVE  InvRecuperacion'
  BY <1>3, RecuperacionBloqueo
<1>4. ASSUME NEW p \in Peticiones, PedirCuenta(p) PROVE InvRecuperacion'
  BY <1>4, RecuperacionPedir
<1>5. ASSUME NEW p \in Peticiones, ContinuarCuenta(p) PROVE InvRecuperacion'
  BY <1>5, RecuperacionCuenta
<1>6. QED
  BY <1>1, <1>2, <1>3, <1>4, <1>5, Zenon DEF NextAcceso, PedirAcceso, ContinuarAcceso

LEMMA RecuperacionInicial == InitAcceso => InvRecuperacion
<1> SUFFICES ASSUME InitAcceso PROVE InvRecuperacion
  OBVIOUS
<1>1. \A p \in Peticiones : peticiones[p].pc = "libre"
  BY DEF InitAcceso, Init, Libre
<1>2. ASSUME NEW u \in Usuarios PROVE usuarios[u].codigoTransaccion = Nulo
  <2>1. PICK e \in Estados, k \in Claves \cup {Nulo} : usuarios[u] = FilaNueva(e, k)
    BY DEF InitAcceso, Init, Estados
  <2>2. QED
    BY <2>1 DEF FilaNueva
<1>3. QED
  BY <1>1, <1>2 DEF InvRecuperacion, TransaccionTrasRecuperacion, En

\* Served one at a time per account, whatever fails in between, validarRecuperar and
\* nuevaContrasenaTransaccion never leave a second code in a row that has lost the first:
\* a code that sets a password is always the continuation of a recovery still open.
THEOREM TransaccionSiempreTrasRecuperacion == SpecAccesoSerie => []TransaccionTrasRecuperacion
<1>1. InvRecuperacion => TransaccionTrasRecuperacion
  BY DEF InvRecuperacion
<1>2. InvAcceso /\ InvRecuperacion /\ Serie /\ [NextAcceso]_vars => InvRecuperacion'
  BY RecuperacionPaso
<1>3. InvSerie(PcAcceso) => Serie
  BY DEF InvSerie
<1>4. QED
  BY <1>1, <1>2, <1>3, SerieAccesoSiempre, EnSerieEsAcceso, RecuperacionInicial, PTL
     DEF SpecAcceso
=============================================================================
