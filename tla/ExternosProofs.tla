---------------------------- MODULE ExternosProofs ---------------------------
(***************************************************************************)
(* Theorems about Externos: a request that depends on another service or    *)
(* on a handler of this one, however the call ends and whatever is thrown.  *)
(***************************************************************************)
EXTENDS Externos, TLAPS

-----------------------------------------------------------------------------
\* The answer that what was thrown gets

\* FiltroFiel of one thing thrown and the answer to it
Fiel(e, produccion, r) ==
  LET http == e.clase \in DOMAIN Status IN
  /\ (r.codigo >= 500) <=> r.mensaje = Interno
  /\ produccion => r.errores = "ninguno"
  /\ http =>
       LET partes == e.respuesta.mensaje.partes IN
       /\ r.codigo = Status[e.clase]
       /\ r.mensaje = "propio" <=> partes = <<"propio">>
       /\ ~ produccion =>
            (r.errores = "lista" <=> \E i \in DOMAIN partes : partes[i] = "objeto")

Clases == {"BadRequest", "Unauthorized", "Forbidden", "NotFound", "Conflict",
           "PreconditionFailed", "EntityUnauthorized", "EntityForbidden", "EntityNotFound"}

\* Each class of exception has a status of its own, none of them that of an internal error.
LEMMA EstadosHttp ==
  /\ DOMAIN Status = Clases
  /\ \A c \in Clases : Status[c] \in Nat /\ Status[c] < 500
  BY DEF Status, Clases

\* The answer to an exception of Nest has its status, and the message and the details
\* that the rule gives it.
LEMMA AtraparHttp ==
  ASSUME NEW e, e.clase \in Clases, NEW produccion \in BOOLEAN
  PROVE  /\ Atrapar(e, produccion).codigo = Status[e.clase]
         /\ Atrapar(e, produccion).mensaje = GetMensaje(e)
         /\ Atrapar(e, produccion).errores = IF produccion THEN "ninguno" ELSE GetErrores(e)
<1>1. /\ e.clase \in DOMAIN Status
      /\ e.clase \notin {"AxiosError", "ExternalServiceException", "ExceptionError"}
  BY EstadosHttp DEF Clases
<1>2. ExceptionError(e) = ErrorDe(Status[e.clase], GetMensaje(e), GetErrores(e))
  BY <1>1 DEF ExceptionError
<1>3. QED
  BY <1>2 DEF Atrapar, ErrorDe

\* Such an exception is answered faithfully if the rule is right about its message, which is
\* not that of an internal error, and about its details.
LEMMA FielHttp ==
  ASSUME NEW e, e.clase \in Clases, NEW produccion \in BOOLEAN,
         GetMensaje(e) # Interno,
         GetMensaje(e) = "propio" <=> e.respuesta.mensaje.partes = <<"propio">>,
         GetErrores(e) = "lista"
           <=> \E i \in DOMAIN e.respuesta.mensaje.partes :
                 e.respuesta.mensaje.partes[i] = "objeto"
  PROVE  Fiel(e, produccion, Atrapar(e, produccion))
<1> DEFINE r == Atrapar(e, produccion)
<1>1. r.codigo = Status[e.clase] /\ r.mensaje = GetMensaje(e)
  BY AtraparHttp
<1>2. r.errores = IF produccion THEN "ninguno" ELSE GetErrores(e)
  BY AtraparHttp
<1>3. Status[e.clase] \in Nat /\ Status[e.clase] < 500
  BY EstadosHttp
<1>4. ~ (r.codigo >= 500) /\ r.mensaje # Interno
  BY <1>1, <1>3
<1> HIDE DEF r
<1>5. Fiel(e, produccion, r)
  BY <1>1, <1>2, <1>4 DEF Fiel
<1>6. QED
  BY <1>5 DEF r

LEMMA UnaParte ==
  ASSUME NEW x PROVE DOMAIN <<x>> = {1} /\ <<x>>[1] = x
<1>1. DOMAIN <<x>> = 1..1 /\ <<x>>[1] = x
  OBVIOUS
<1>2. 1..1 = {1}
  OBVIOUS
<1>3. QED
  BY <1>1, <1>2

\* An exception with one text: of whoever threw it, or of Nest
LEMMA FielTexto ==
  ASSUME NEW c \in Clases, NEW texto \in {"propio", "status", "Forbidden resource"},
         NEW objeto \in BOOLEAN, NEW error \in BOOLEAN, NEW produccion \in BOOLEAN,
         error => objeto,
         texto = "propio" => error = objeto,
         texto = "status" => objeto /\ ~ error /\ c \in {"Unauthorized", "Forbidden"},
         texto = "Forbidden resource" => error,
         NEW e,
         e = [clase |-> c,
              respuesta |-> Respuesta(objeto, Mensaje(FALSE, <<texto>>), error, objeto)]
  PROVE  Fiel(e, produccion, Atrapar(e, produccion))
<1> DEFINE m == Mensaje(FALSE, <<texto>>)
<1>1. e.clase = c /\ e.respuesta = Respuesta(objeto, m, error, objeto)
  OBVIOUS
<1>2. /\ e.respuesta.objeto = objeto /\ e.respuesta.error = error
      /\ e.respuesta.statusCode = objeto /\ e.respuesta.mensaje = m
  BY <1>1 DEF Respuesta
<1>3. m.partes = <<texto>> /\ m.lista = FALSE
  BY DEF Mensaje
<1>4. m # Ausente
  BY <1>3 DEF Ausente, Mensaje
<1>5. UnTexto(m)
  <2>1. Len(<<texto>>) = 1 /\ <<texto>>[1] = texto /\ texto # "objeto"
    OBVIOUS
  <2>2. QED
    BY <1>3, <2>1 DEF UnTexto
<1> HIDE DEF m
<1>6. GetMensaje(e) = IF ~ objeto \/ error THEN TraducirMensaje(texto) ELSE PorClase(c)
  <2>1. <<texto>>[1] = texto
    OBVIOUS
  <2>2. m.partes[1] = texto
    BY <1>3, <2>1, Zenon
  <2>3. QED
    BY <1>1, <1>2, <1>5, <2>2, Zenon DEF GetMensaje
<1>7. GetMensaje(e) # Interno /\ (GetMensaje(e) = "propio" <=> texto = "propio")
  BY <1>6 DEF TraducirMensaje, PorClase, Interno
<1>8. GetErrores(e) = "ninguno"
  BY <1>2, <1>3, <1>4 DEF GetErrores
<1>9. /\ m.partes = <<"propio">> <=> texto = "propio"
      /\ \A i \in DOMAIN m.partes : m.partes[i] # "objeto"
  <2>1. <<texto>> = <<"propio">> <=> texto = "propio"
    OBVIOUS
  <2>2. \A i \in DOMAIN <<texto>> : <<texto>>[i] # "objeto"
    <3>1. DOMAIN <<texto>> = {1} /\ <<texto>>[1] = texto
      BY UnaParte
    <3>2. texto # "objeto"
      OBVIOUS
    <3>3. QED
      BY <3>1, <3>2, Zenon
  <2>3. QED
    BY <1>3, <2>1, <2>2, Zenon
<1>10. QED
  BY <1>1, <1>2, <1>7, <1>8, <1>9, FielHttp

\* An exception with the list of what the pipe of validation found
LEMMA FielLista ==
  ASSUME NEW m \in Listas, NEW produccion \in BOOLEAN
  PROVE  Fiel(Http("BadRequest", m), produccion, Atrapar(Http("BadRequest", m), produccion))
<1> DEFINE e == Http("BadRequest", m)
<1>1. PICK s \in {<<"propio">>, <<"objeto">>, <<"propio", "objeto">>} : m = Mensaje(TRUE, s)
  BY DEF Listas
<1>2. m.lista = TRUE /\ m.partes = s
  BY <1>1 DEF Mensaje
<1>3. m # Ausente
  BY <1>2 DEF Ausente, Mensaje
<1>4. e.clase = "BadRequest" /\ e.respuesta = Respuesta(TRUE, m, TRUE, TRUE)
  BY <1>3 DEF Http
<1>5. /\ e.respuesta.objeto = TRUE /\ e.respuesta.error = TRUE
      /\ e.respuesta.statusCode = TRUE /\ e.respuesta.mensaje = m
  BY <1>4 DEF Respuesta
<1>6. UnTexto(m) <=> s = <<"propio">>
  BY <1>2 DEF UnTexto
<1> HIDE DEF e
<1>7. GetMensaje(e) = IF UnTexto(m) THEN "propio" ELSE "EXCEPTION_BAD_REQUEST"
  <2>1. UnTexto(m) => m.partes[1] = "propio"
    BY <1>2, <1>6
  <2>2. TraducirMensaje("propio") = "propio" /\ PorClase("BadRequest") = "EXCEPTION_BAD_REQUEST"
    BY DEF TraducirMensaje, PorClase
  <2>3. GetMensaje(e) = IF UnTexto(m) THEN TraducirMensaje(m.partes[1]) ELSE PorClase(e.clase)
    BY <1>5, Zenon DEF GetMensaje
  <2>4. QED
    BY <1>4, <2>1, <2>2, <2>3, Zenon
<1>8. GetErrores(e) = IF UnTexto(m) THEN "ninguno" ELSE "lista"
  BY <1>2, <1>3, <1>5 DEF GetErrores
<1>9. (\E i \in DOMAIN s : s[i] = "objeto") <=> s # <<"propio">>
  <2>1. CASE s = <<"propio">>
    BY <2>1
  <2>2. CASE s = <<"objeto">>
    <3>1. 1 \in DOMAIN s /\ s[1] = "objeto"
      BY <2>2
    <3>2. QED
      BY <2>2, <3>1
  <2>3. CASE s = <<"propio", "objeto">>
    <3>1. 2 \in DOMAIN s /\ s[2] = "objeto"
      BY <2>3
    <3>2. QED
      BY <2>3, <3>1
  <2>4. QED
    BY <2>1, <2>2, <2>3
<1>10. GetMensaje(e) # Interno /\ (GetMensaje(e) = "propio" <=> s = <<"propio">>)
  BY <1>6, <1>7 DEF Interno
<1>11. GetErrores(e) = "lista" <=> s # <<"propio">>
  BY <1>6, <1>8
<1>12. e.respuesta.mensaje.partes = s
  BY <1>2, <1>5
<1>13. e.clase \in Clases
  BY <1>4 DEF Clases
<1>14. Fiel(e, produccion, Atrapar(e, produccion))
  BY <1>9, <1>10, <1>11, <1>12, <1>13, FielHttp
<1>15. QED
  BY <1>14 DEF e

\* What is no exception of Nest: an internal error that says nothing, but for the one of
\* the external services, which brings its text.
LEMMA FielOtra ==
  ASSUME NEW c \in {"AxiosError", "ExternalServiceException", "Error", "valor"},
         NEW produccion \in BOOLEAN
  PROVE  Fiel(Otra(c), produccion, Atrapar(Otra(c), produccion))
<1> DEFINE e == Otra(c)
           r == Atrapar(e, produccion)
<1>1. e.clase = c /\ c \notin DOMAIN Status /\ c # "ExceptionError"
  BY EstadosHttp DEF Otra, Clases
<1>2. ExceptionError(e) = IF c = "ExternalServiceException"
                          THEN ErrorDe(400, "propio", "error") ELSE ErrorDe(500, Interno, "error")
  BY <1>1 DEF ExceptionError
<1>3. /\ r.codigo = IF c = "ExternalServiceException" THEN 400 ELSE 500
      /\ r.mensaje = IF c = "ExternalServiceException" THEN "propio" ELSE Interno
      /\ produccion => r.errores = "ninguno"
  BY <1>2 DEF Atrapar, ErrorDe
<1>4. (r.codigo >= 500) <=> r.mensaje = Interno
  BY <1>3 DEF Interno
<1>5. QED
  BY <1>1, <1>3, <1>4 DEF Fiel

\* Whatever the code throws, the answer is faithful to it.
LEMMA AtraparFiel ==
  ASSUME NEW e \in Lanzadas, NEW produccion \in BOOLEAN
  PROVE  Fiel(e, produccion, Atrapar(e, produccion))
<1>1. CASE \E c \in {"BadRequest", "Unauthorized", "Forbidden", "NotFound", "Conflict",
                     "PreconditionFailed"} : e = Lanza(c)
  <2>1. PICK c \in Clases : e = Lanza(c)
    BY <1>1 DEF Clases
  <2>2. Texto # Ausente
    BY DEF Texto, Ausente, Mensaje
  <2>3. e = [clase |-> c, respuesta |-> Respuesta(TRUE, Mensaje(FALSE, <<"propio">>), TRUE, TRUE)]
    BY <2>1, <2>2 DEF Lanza, Http, Texto
  <2>4. QED
    BY <2>3, FielTexto
<1>2. CASE \E c \in {"Unauthorized", "Forbidden"} : e = SinMensaje(c)
  <2>1. PICK c \in {"Unauthorized", "Forbidden"} : e = SinMensaje(c)
    BY <1>2
  <2>2. c \in Clases
    BY <2>1 DEF Clases
  <2>3. QED
    BY <2>1, <2>2, FielTexto DEF SinMensaje
<1>3. CASE e = Http("Forbidden", Mensaje(FALSE, <<"Forbidden resource">>))
  <2>1. Mensaje(FALSE, <<"Forbidden resource">>) # Ausente
    BY DEF Mensaje, Ausente
  <2>2. e = [clase |-> "Forbidden",
             respuesta |-> Respuesta(TRUE, Mensaje(FALSE, <<"Forbidden resource">>), TRUE, TRUE)]
    BY <1>3, <2>1 DEF Http
  <2>3. "Forbidden" \in Clases
    BY DEF Clases
  <2>4. QED
    BY <2>2, <2>3, FielTexto
<1>4. CASE \E c \in {"EntityUnauthorized", "EntityForbidden", "EntityNotFound"} :
             e = HttpTexto(c, "propio")
  <2>1. PICK c \in Clases : e = HttpTexto(c, "propio")
    BY <1>4 DEF Clases
  <2>2. QED
    BY <2>1, FielTexto DEF HttpTexto
<1>5. CASE \E m \in Listas : e = Http("BadRequest", m)
  BY <1>5, FielLista
<1>6. CASE \E c \in {"AxiosError", "ExternalServiceException", "Error", "valor"} : e = Otra(c)
  BY <1>6, FielOtra
<1>7. QED
  BY <1>1, <1>2, <1>3, <1>4, <1>5, <1>6 DEF Lanzadas

-----------------------------------------------------------------------------
\* What a request waits for and what came of it

\* Where the result of a call came from: what the method of each service makes of the
\* answer to the call, or one of the things a handler throws.
Origen(t) ==
  /\ t.servicio # "propio" => t.llamada \in Llamadas
  /\ t.servicio = "sin" => t.resultado = Login(t.llamada)
  /\ t.servicio = "aviso" =>
       \E envio \in {SendEmail(t.llamada), EnviarCorreoContrasenia(t.llamada)} :
         t.resultado = Avisar(envio)
  /\ t.servicio = "bloqueo" => t.resultado = Bloquear(SendEmail(t.llamada))
  /\ t.servicio = "omdb" =>
       \E response \in {"True", "False"} : t.resultado = Buscar(t.llamada, response)
  /\ t.servicio = "propio" => t.resultado \in Lanzadas

\* What the client is told of a result
Contestada(t) ==
  /\ t.servicio # "sin" /\ t.produccion \in BOOLEAN
  /\ t.respuesta = IF t.resultado.clase = "devuelto"
                   THEN [codigo |-> 200, mensaje |-> "SUCCESS_DEFAULT", errores |-> "ninguno"]
                   ELSE Atrapar(t.resultado, t.produccion)

InvTarea ==
  /\ tarea = [fase |-> tarea.fase, servicio |-> tarea.servicio, llamada |-> tarea.llamada,
              resultado |-> tarea.resultado, produccion |-> tarea.produccion,
              respuesta |-> tarea.respuesta]
  /\ tarea.fase \in {"no", "espera", "hecha", "fin"}
  /\ tarea.fase # "no" => tarea.servicio \in Servicios
  /\ tarea.fase \in {"hecha", "fin"} => Origen(tarea)
  /\ tarea.fase = "fin" => Contestada(tarea)

\* The end of a call leaves what the service makes of it.
LEMMA TareaTerminar ==
  ASSUME InvTarea, tarea.fase = "espera", NEW llamada, NEW resultado,
         Terminar(llamada, resultado),
         tarea.servicio # "propio" => llamada \in Llamadas,
         tarea.servicio = "sin" => resultado = Login(llamada),
         tarea.servicio = "aviso" =>
           \E envio \in {SendEmail(llamada), EnviarCorreoContrasenia(llamada)} :
             resultado = Avisar(envio),
         tarea.servicio = "bloqueo" => resultado = Bloquear(SendEmail(llamada)),
         tarea.servicio = "omdb" =>
           \E response \in {"True", "False"} : resultado = Buscar(llamada, response),
         tarea.servicio = "propio" => resultado \in Lanzadas
  PROVE  InvTarea'
<1>1. tarea' = [fase |-> "hecha", servicio |-> tarea.servicio, llamada |-> llamada,
                resultado |-> resultado, produccion |-> tarea.produccion,
                respuesta |-> tarea.respuesta]
  BY DEF InvTarea, Terminar
<1>2. /\ tarea'.fase = "hecha" /\ tarea'.servicio = tarea.servicio
      /\ tarea'.llamada = llamada /\ tarea'.resultado = resultado
      /\ tarea'.produccion = tarea.produccion /\ tarea'.respuesta = tarea.respuesta
  BY <1>1
<1>3. Origen(tarea)'
  BY <1>2 DEF Origen
<1>4. tarea'.servicio \in Servicios
  BY <1>2 DEF InvTarea
<1>5. QED
  BY <1>1, <1>2, <1>3, <1>4 DEF InvTarea

LEMMA TareaSiguiente ==
  ASSUME InvTarea, [NextExternos]_tarea PROVE InvTarea'
<1>1. CASE Llamar
  <2>1. PICK servicio \in Servicios :
          tarea' = [tarea EXCEPT !.fase = "espera", !.servicio = servicio]
    BY <1>1 DEF Llamar
  <2>2. tarea' = [fase |-> "espera", servicio |-> servicio, llamada |-> tarea.llamada,
                  resultado |-> tarea.resultado, produccion |-> tarea.produccion,
                  respuesta |-> tarea.respuesta]
    BY <2>1 DEF InvTarea
  <2>3. QED
    BY <2>2 DEF InvTarea
<1>2. CASE TerminarLogin
  BY <1>2, TareaTerminar DEF TerminarLogin, EnServicio
<1>3. CASE TerminarAviso
  BY <1>3, TareaTerminar DEF TerminarAviso, EnServicio
<1>4. CASE TerminarBloqueo
  BY <1>4, TareaTerminar DEF TerminarBloqueo, EnServicio
<1>5. CASE TerminarBusqueda
  BY <1>5, TareaTerminar DEF TerminarBusqueda, EnServicio
<1>6. CASE TerminarPropio
  BY <1>6, TareaTerminar DEF TerminarPropio, EnServicio
<1>7. CASE AtenderTarea
  <2> DEFINE Cuerpo(produccion) ==
        IF tarea.resultado.clase = "devuelto"
        THEN [codigo |-> 200, mensaje |-> "SUCCESS_DEFAULT", errores |-> "ninguno"]
        ELSE Atrapar(tarea.resultado, produccion)
  <2>1. PICK produccion \in BOOLEAN : Responde(produccion, Cuerpo(produccion))
    BY <1>7 DEF AtenderTarea
  <2>2. tarea' = [fase |-> "fin", servicio |-> tarea.servicio, llamada |-> tarea.llamada,
                  resultado |-> tarea.resultado, produccion |-> produccion,
                  respuesta |-> Cuerpo(produccion)]
    BY <2>1 DEF InvTarea, Responde
  <2> HIDE DEF Cuerpo
  <2>3. /\ tarea'.fase = "fin" /\ tarea'.servicio = tarea.servicio
        /\ tarea'.llamada = tarea.llamada /\ tarea'.resultado = tarea.resultado
        /\ tarea'.produccion = produccion /\ tarea'.respuesta = Cuerpo(produccion)
    BY <2>2
  <2>4. /\ tarea.fase = "hecha" /\ tarea.servicio # "sin" /\ Origen(tarea)
        /\ tarea.servicio \in Servicios
    BY <1>7 DEF AtenderTarea, InvTarea
  <2>5. Origen(tarea)'
    BY <2>3, <2>4 DEF Origen
  <2>6. Contestada(tarea)'
    BY <2>3, <2>4 DEF Contestada, Cuerpo
  <2>7. QED
    BY <2>2, <2>3, <2>4, <2>5, <2>6 DEF InvTarea
<1>8. CASE Olvidar
  BY <1>8 DEF Olvidar, SinTarea, InvTarea
<1>9. CASE UNCHANGED tarea
  BY <1>9 DEF InvTarea, Origen, Contestada
<1>10. QED
  BY <1>1, <1>2, <1>3, <1>4, <1>5, <1>6, <1>7, <1>8, <1>9 DEF NextExternos

LEMMA TareaSiempre == SpecExternos => []InvTarea
<1>1. InitExternos => InvTarea
  BY DEF InitExternos, SinTarea, InvTarea
<1>2. InvTarea /\ [NextExternos]_tarea => InvTarea'
  BY TareaSiguiente
<1>3. QED
  BY <1>1, <1>2, PTL DEF SpecExternos

-----------------------------------------------------------------------------
\* What comes of a call to another service

LEMMA DevuelveCampos ==
  ASSUME NEW mensaje
  PROVE  /\ Devuelve(TRUE, mensaje).clase = "devuelto"
         /\ Devuelve(TRUE, mensaje).finalizado
         /\ ~ Devuelve(FALSE, mensaje).finalizado
         /\ Devuelve(FALSE, mensaje).mensaje = mensaje
  BY DEF Devuelve

\* The login of SIN succeeds only with an answer that says so, and tells why when it does
\* not: the message is one of its own, or that of a request that failed.
LEMMA LoginDice ==
  ASSUME NEW llamada \in Llamadas
  PROVE  IF Login(llamada).finalizado
         THEN /\ llamada.fallo = "ninguno" /\ llamada.cuerpo.forma = "login"
              /\ llamada.cuerpo.Autenticado
         ELSE Login(llamada).mensaje # "ninguno"
<1> DEFINE r == Request(llamada, TRUE)
           cuerpo == llamada.cuerpo
<1>1. llamada.fallo \in Fallas /\ cuerpo \in Cuerpos
  BY DEF Llamadas
<1>2. /\ r.error \in BOOLEAN /\ r.respuesta \in BOOLEAN
      /\ r.error => r.errorMessage # "ninguno"
      /\ (~ r.error /\ r.respuesta) => llamada.fallo = "ninguno"
  BY <1>1 DEF Request, Resultado, ErrorHttp, Fallas
<1>3. cuerpo.Estado \in BOOLEAN /\ cuerpo.Autenticado \in BOOLEAN
  BY <1>1 DEF Cuerpos
<1> HIDE DEF r
<1>4. CASE r.error
  <2>1. Login(llamada) = Devuelve(FALSE, r.errorMessage)
    BY <1>4 DEF Login, r
  <2>2. ~ Login(llamada).finalizado /\ Login(llamada).mensaje = r.errorMessage
    BY <2>1, DevuelveCampos, Zenon
  <2>3. QED
    BY <1>2, <1>4, <2>2
<1>5. CASE ~ r.error /\ (~ r.respuesta \/ cuerpo.forma = "null")
  <2>1. Login(llamada) = Devuelve(FALSE, "Error interno")
    BY <1>2, <1>5 DEF Login, r
  <2>2. ~ Login(llamada).finalizado /\ Login(llamada).mensaje = "Error interno"
    BY <2>1, DevuelveCampos, Zenon
  <2>3. QED
    BY <2>2
<1>6. CASE ~ r.error /\ r.respuesta /\ cuerpo.forma # "null"
  <2> DEFINE es == cuerpo.forma = "login"
             niega == ~ (es /\ cuerpo.Estado)
             Dice(mensaje) == es /\ cuerpo.Mensaje = mensaje
  <2>1. Login(llamada) =
          IF niega /\ Dice("You cannot consume this service")
          THEN Devuelve(FALSE, "No tiene permisos")
          ELSE IF niega /\ Dice("no API found") THEN Devuelve(FALSE, "No se encontro")
          ELSE IF es /\ cuerpo.Autenticado THEN Devuelve(TRUE, "Estado")
          ELSE IF es /\ ~ Dice("ninguno") THEN Devuelve(FALSE, cuerpo.Mensaje)
          ELSE Devuelve(FALSE, "Error desconocido")
    BY <1>6 DEF Login, r
  <2> HIDE DEF niega, Dice
  <2>2. CASE niega /\ (Dice("You cannot consume this service") \/ Dice("no API found"))
    <3>1. /\ ~ Login(llamada).finalizado
          /\ Login(llamada).mensaje \in {"No tiene permisos", "No se encontro"}
      BY <2>1, <2>2, DevuelveCampos
    <3>2. QED
      BY <3>1
  <2>3. CASE /\ ~ (niega /\ (Dice("You cannot consume this service") \/ Dice("no API found")))
             /\ es /\ cuerpo.Autenticado
    <3>1. Login(llamada).finalizado
      BY <2>1, <2>3, DevuelveCampos
    <3>2. QED
      BY <1>2, <1>6, <2>3, <3>1
  <2>4. CASE /\ ~ (niega /\ (Dice("You cannot consume this service") \/ Dice("no API found")))
             /\ ~ (es /\ cuerpo.Autenticado)
    <3>1. /\ ~ Login(llamada).finalizado
          /\ \/ es /\ ~ Dice("ninguno") /\ Login(llamada).mensaje = cuerpo.Mensaje
             \/ Login(llamada).mensaje = "Error desconocido"
      BY <2>1, <2>4, DevuelveCampos, Zenon
    <3>2. Login(llamada).mensaje # "ninguno"
      BY <3>1 DEF Dice
    <3>3. QED
      BY <3>1, <3>2
  <2>5. QED
    BY <2>2, <2>3, <2>4
<1>7. QED
  BY <1>2, <1>4, <1>5, <1>6

\* What a handler is left with after an await that returned, or threw.
LEMMA TrasEspera ==
  ASSUME NEW espera, NEW resultado
  PROVE  /\ espera.clase = "devuelto" => Tras(espera, resultado) = resultado
         /\ espera.clase # "devuelto" => Tras(espera, resultado) = espera
  BY DEF Tras

\* A mail that could not be sent throws; one that was sent does not.
LEMMA CorreoTermina ==
  ASSUME NEW llamada
  PROVE  IF llamada.fallo = "ninguno"
         THEN SendEmail(llamada).clase = "devuelto"
         ELSE SendEmail(llamada) = Otra("AxiosError") /\ SendEmail(llamada).clase = "AxiosError"
  BY DEF SendEmail, Devuelve, Otra

\* A handler that catches what becomes of its mail returns, always.
LEMMA AvisarDevuelve ==
  ASSUME NEW envio PROVE Avisar(envio).clase = "devuelto"
<1>1. Atajar(envio).clase = "devuelto"
  BY DevuelveCampos DEF Atajar
<1>2. Avisar(envio) = Devuelve(TRUE, "del manejador")
  BY <1>1, TrasEspera DEF Avisar
<1>3. QED
  BY <1>2, DevuelveCampos

\* A login that locks the account throws, always: that it is locked, or what kept the mail
\* from being sent.
LEMMA BloquearLanza ==
  ASSUME NEW llamada
  PROVE  IF llamada.fallo = "ninguno"
         THEN Bloquear(SendEmail(llamada)) = Lanza("Unauthorized")
         ELSE Bloquear(SendEmail(llamada)) = Otra("AxiosError")
<1>1. CASE llamada.fallo = "ninguno"
  BY <1>1, CorreoTermina, TrasEspera DEF Bloquear
<1>2. CASE llamada.fallo # "ninguno"
  <2>1. SendEmail(llamada) = Otra("AxiosError") /\ SendEmail(llamada).clase # "devuelto"
    BY <1>2, CorreoTermina
  <2>2. QED
    BY <1>2, <2>1, TrasEspera DEF Bloquear
<1>3. QED
  BY <1>1, <1>2

\* A search without a body whose fields can be read throws; any other is returned.
LEMMA BuscarTermina ==
  ASSUME NEW llamada, NEW response
  PROVE  IF llamada.fallo = "ninguno" /\ llamada.cuerpo.forma # "null"
         THEN Buscar(llamada, response).clase = "devuelto"
         ELSE Buscar(llamada, response) = Otra("Error")
  BY DEF Buscar, Devuelve

\* The status of the answers that those ways to fail get
LEMMA CodigoLanzado ==
  ASSUME NEW produccion \in BOOLEAN
  PROVE  /\ \A c \in {"AxiosError", "Error"} :
              Otra(c).clase # "devuelto" /\ Atrapar(Otra(c), produccion).codigo = 500
         /\ Lanza("Unauthorized").clase # "devuelto"
         /\ Atrapar(Lanza("Unauthorized"), produccion).codigo = 401
<1>1. ASSUME NEW c \in {"AxiosError", "Error"}
      PROVE  Otra(c).clase # "devuelto" /\ Atrapar(Otra(c), produccion).codigo = 500
  <2>1. Otra(c).clase = c
    BY DEF Otra
  <2>2. ExceptionError(Otra(c)) = ErrorDe(500, Interno, "error")
    BY <2>1, EstadosHttp DEF ExceptionError, Clases
  <2>3. QED
    BY <2>1, <2>2 DEF Atrapar, ErrorDe
<1>2. Lanza("Unauthorized").clase = "Unauthorized"
  BY DEF Lanza, Http
<1>3. Status["Unauthorized"] = 401
  BY DEF Status
<1>4. Atrapar(Lanza("Unauthorized"), produccion).codigo = 401
  BY <1>2, <1>3, AtraparHttp DEF Clases
<1>5. QED
  BY <1>1, <1>2, <1>4

-----------------------------------------------------------------------------
\* Whatever a handler throws, and however a call to another service ends, the client is told
\* what whoever threw it meant, and nobody sees in production what an internal error was.
THEOREM SiempreFiltroFiel == SpecExternos => []FiltroFiel
<1>1. InvTarea => FiltroFiel
  <2> SUFFICES ASSUME InvTarea, tarea.fase = "fin", tarea.resultado.clase # "devuelto"
               PROVE  Fiel(tarea.resultado, tarea.produccion, tarea.respuesta)
    BY DEF FiltroFiel, Fiel
  <2>1. /\ Origen(tarea) /\ tarea.servicio \in Servicios \ {"sin"}
        /\ tarea.produccion \in BOOLEAN
        /\ tarea.respuesta = Atrapar(tarea.resultado, tarea.produccion)
    BY DEF InvTarea, Contestada
  <2>2. tarea.resultado \in Lanzadas
    <3>1. CASE tarea.servicio = "propio"
      BY <2>1, <3>1 DEF Origen
    <3>2. ASSUME tarea.servicio = "aviso" PROVE FALSE
      BY <2>1, <3>2, AvisarDevuelve DEF Origen
    <3>3. CASE tarea.servicio = "bloqueo"
      BY <2>1, <3>3, BloquearLanza DEF Origen, Lanzadas
    <3>4. CASE tarea.servicio = "omdb"
      <4>1. PICK response \in {"True", "False"} :
              tarea.resultado = Buscar(tarea.llamada, response)
        BY <2>1, <3>4 DEF Origen
      <4>2. tarea.resultado = Otra("Error")
        BY <4>1, BuscarTermina
      <4>3. QED
        BY <4>2 DEF Lanzadas
    <3>5. QED
      BY <2>1, <3>1, <3>2, <3>3, <3>4 DEF Servicios
  <2>3. QED
    BY <2>1, <2>2, AtraparFiel
<1>2. QED
  BY <1>1, TareaSiempre, PTL

\* Each caller of another service tells its client what its own code makes of the call,
\* however it ends: a mail that fails is never the failure of the handler that sends it, but
\* it is that of the login that locks the account, which lets nobody in either way; and a
\* search that succeeds had a body.
THEOREM SiempreExternoFiel == SpecExternos => []ExternoFiel
<1>1. InvTarea => ExternoFiel
  <2> SUFFICES ASSUME InvTarea, tarea.fase \in {"hecha", "fin"} PROVE ExternoFiel
    BY DEF ExternoFiel
  <2> DEFINE codigo == tarea.respuesta.codigo
  <2>1. Origen(tarea)
    BY DEF InvTarea
  <2>2. ASSUME tarea.servicio = "sin"
        PROVE  IF tarea.resultado.finalizado
               THEN /\ tarea.llamada.fallo = "ninguno" /\ tarea.llamada.cuerpo.forma = "login"
                    /\ tarea.llamada.cuerpo.Autenticado
               ELSE tarea.resultado.mensaje # "ninguno"
    BY <2>1, <2>2, LoginDice DEF Origen
  <2>3. ASSUME tarea.fase = "fin"
        PROVE  /\ tarea.produccion \in BOOLEAN
               /\ tarea.resultado.clase = "devuelto" => codigo = 200
               /\ tarea.resultado.clase # "devuelto" =>
                    codigo = Atrapar(tarea.resultado, tarea.produccion).codigo
    BY <2>3 DEF InvTarea, Contestada
  <2> HIDE DEF codigo
  <2>4. ASSUME tarea.fase = "fin", tarea.servicio = "aviso" PROVE codigo < 400
    <3>1. tarea.resultado.clase = "devuelto"
      BY <2>1, <2>4, AvisarDevuelve DEF Origen
    <3>2. QED
      BY <2>3, <2>4, <3>1
  <2>5. ASSUME tarea.fase = "fin", tarea.servicio = "bloqueo"
        PROVE  codigo = IF tarea.llamada.fallo = "ninguno" THEN 401 ELSE 500
    <3>1. tarea.resultado = Bloquear(SendEmail(tarea.llamada))
      BY <2>1, <2>5 DEF Origen
    <3>2. CASE tarea.llamada.fallo = "ninguno"
      <4>1. tarea.resultado = Lanza("Unauthorized")
        BY <3>1, <3>2, BloquearLanza
      <4>2. codigo = 401
        BY <2>3, <2>5, <4>1, CodigoLanzado
      <4>3. QED
        BY <3>2, <4>2
    <3>3. CASE tarea.llamada.fallo # "ninguno"
      <4>1. tarea.resultado = Otra("AxiosError")
        BY <3>1, <3>3, BloquearLanza
      <4>2. codigo = 500
        BY <2>3, <2>5, <4>1, CodigoLanzado
      <4>3. QED
        BY <3>3, <4>2
    <3>4. QED
      BY <3>2, <3>3
  <2>6. ASSUME tarea.fase = "fin", tarea.servicio = "omdb"
        PROVE  codigo < 400
                 <=> tarea.llamada.fallo = "ninguno" /\ tarea.llamada.cuerpo.forma # "null"
    <3>1. PICK response \in {"True", "False"} :
            tarea.resultado = Buscar(tarea.llamada, response)
      BY <2>1, <2>6 DEF Origen
    <3>2. CASE tarea.llamada.fallo = "ninguno" /\ tarea.llamada.cuerpo.forma # "null"
      <4>1. tarea.resultado.clase = "devuelto"
        BY <3>1, <3>2, BuscarTermina
      <4>2. codigo = 200
        BY <2>3, <2>6, <4>1
      <4>3. QED
        BY <3>2, <4>2
    <3>3. CASE ~ (tarea.llamada.fallo = "ninguno" /\ tarea.llamada.cuerpo.forma # "null")
      <4>1. tarea.resultado = Otra("Error")
        BY <3>1, <3>3, BuscarTermina
      <4>2. codigo = 500
        BY <2>3, <2>6, <4>1, CodigoLanzado
      <4>3. QED
        BY <3>3, <4>2
    <3>4. QED
      BY <3>2, <3>3
  <2>7. QED
    BY <2>2, <2>4, <2>5, <2>6 DEF ExternoFiel, codigo
<1>2. QED
  BY <1>1, TareaSiempre, PTL
=============================================================================
