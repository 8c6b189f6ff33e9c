------------------------------- MODULE Externos ------------------------------
(***************************************************************************)
(* A request of a client that depends on another service - the login of SIN *)
(* (SinService on BaseExternalService), a handler that mails something on   *)
(* its way, the login that locks the account and mails the code, a search   *)
(* in OMDb - or on a handler of this one, from the call to the answer, with *)
(* every way a call may end and everything a handler may throw.             *)
(***************************************************************************)
EXTENDS Respuestas

VARIABLE tarea   \* the request: what it waits for, what came of it

-----------------------------------------------------------------------------
\* Faulty variants of definitions below, each the slip that one property of the runs
\* is there to catch.

AtajarNada(espera) == espera   \* the .catch forgotten, as verificarBloqueo has none

-----------------------------------------------------------------------------
\* Calls to other services: how a call failed, and the body that came with its answer, or
\* with its refusal ("http"): a LoginResponse or one of the others that request looks for.

Fallas == {"ninguno", "undefined", "valor", "conexion", "sin respuesta", "http"}

Cuerpos ==
  [forma : {"login", "null", "message", "data", "upstream", "otro"},
   Estado : BOOLEAN, Autenticado : BOOLEAN,
   Mensaje : {"ninguno", "propio", "no API found", "You cannot consume this service"}]

Llamadas == [fallo : Fallas, cuerpo : Cuerpos]

Devuelve(finalizado, mensaje) ==
  [clase |-> "devuelto", finalizado |-> finalizado, mensaje |-> mensaje]

\* BaseExternalService.request
Resultado(error, respuesta, errorMessage) ==
  [error |-> error, respuesta |-> respuesta, errorMessage |-> errorMessage]

ErrorHttp(forma, validarIOP) ==
  CASE validarIOP /\ forma \in {"message", "data"} -> "interoperabilidad"
    [] forma = "upstream" -> "no esta disponible"
    [] OTHER -> "AxiosError"

Request(llamada, validarIOP) ==
  CASE llamada.fallo = "ninguno" -> Resultado(FALSE, TRUE, "ninguno")
    [] llamada.fallo = "undefined" -> Resultado(FALSE, FALSE, "Error desconocido")
    [] llamada.fallo = "conexion" -> Resultado(TRUE, FALSE, "No es posible conectarse")
    [] llamada.fallo \in {"valor", "sin respuesta"} -> Resultado(TRUE, FALSE, "Error desconocido")
    [] llamada.fallo = "http" ->
         Resultado(TRUE, TRUE, ErrorHttp(llamada.cuerpo.forma, validarIOP))

\* SinService.login: to read a field of no body, or of "null", throws; the fields of other
\* bodies are undefined.
Login(llamada) ==
  LET r == Request(llamada, TRUE)
      cuerpo == llamada.cuerpo
      es == cuerpo.forma = "login"
      niega == ~ (es /\ cuerpo.Estado)
      Dice(mensaje) == es /\ cuerpo.Mensaje = mensaje IN
  CASE r.error -> Devuelve(FALSE, r.errorMessage)
    [] ~ r.error /\ (~ r.respuesta \/ cuerpo.forma = "null") -> Devuelve(FALSE, "Error interno")
    [] OTHER ->
         IF niega /\ Dice("You cannot consume this service")
         THEN Devuelve(FALSE, "No tiene permisos")
         ELSE IF niega /\ Dice("no API found") THEN Devuelve(FALSE, "No se encontro")
         ELSE IF es /\ cuerpo.Autenticado THEN Devuelve(TRUE, "Estado")
         ELSE IF es /\ ~ Dice("ninguno") THEN Devuelve(FALSE, cuerpo.Mensaje)
         ELSE Devuelve(FALSE, "Error desconocido")

\* MensajeriaService.sendEmail: "return firstValueFrom" without await, so that its catch
\* never sees the call fail and ExternalServiceException is not thrown.
SendEmail(llamada) ==
  IF llamada.fallo = "ninguno" THEN Devuelve(TRUE, "res.data") ELSE Otra("AxiosError")

\* An await: what it throws ends the method, which otherwise goes on to its own result.
Tras(espera, resultado) == IF espera.clase = "devuelto" THEN resultado ELSE espera

\* .catch((err) => this.logger.error(err))
Atajar(espera) ==
  IF espera.clase = "devuelto" THEN espera ELSE Devuelve(TRUE, "undefined")

\* UsuarioService.enviarCorreoContrasenia: reads result.finalizado, also of "null".
EnviarCorreoContrasenia(llamada) ==
  Tras(SendEmail(llamada),
       IF llamada.cuerpo.forma = "null" THEN Otra("Error") ELSE Devuelve(TRUE, "finalizado"))

\* The six handlers of UsuarioService that mail: they return their own result, whatever
\* became of the mail.
Avisar(envio) == Tras(Atajar(envio), Devuelve(TRUE, "del manejador"))

\* verificarBloqueo, when it locks the account: the mail is not caught, and after it
\* validarUsuario throws USER_BLOCKED.
Bloquear(envio) == Tras(envio, Lanza("Unauthorized"))

\* PeliculaService.listarPeliculas and detallePelicula: whatever fails is an Error, to read
\* response.data['Response'] of "null" too.
Buscar(llamada, response) ==
  IF llamada.fallo = "ninguno" /\ llamada.cuerpo.forma # "null"
  THEN Devuelve(TRUE, IF response = "False" THEN "sin filas" ELSE "filas") ELSE Otra("Error")

-----------------------------------------------------------------------------
\* From the request to the answer

Nada == "nada"

SinTarea == [fase |-> "no", servicio |-> Nada, llamada |-> Nada, resultado |-> Nada,
             produccion |-> FALSE, respuesta |-> Nada]

\* What the request does: the login of SIN, a handler that mails, the login that locks an
\* account, a search, or any other handler.
Servicios == {"sin", "aviso", "bloqueo", "omdb", "propio"}

Llamar ==
  /\ tarea.fase = "no"
  /\ \E servicio \in Servicios :
       tarea' = [tarea EXCEPT !.fase = "espera", !.servicio = servicio]

EnServicio(servicio) == tarea.fase = "espera" /\ tarea.servicio = servicio

\* What the method returns, or throws
Terminar(llamada, resultado) ==
  tarea' = [tarea EXCEPT !.fase = "hecha", !.llamada = llamada, !.resultado = resultado]

TerminarLogin ==
  EnServicio("sin") /\ \E llamada \in Llamadas : Terminar(llamada, Login(llamada))

TerminarAviso ==
  /\ EnServicio("aviso")
  /\ \E llamada \in Llamadas :
       \E envio \in {SendEmail(llamada), EnviarCorreoContrasenia(llamada)} :
         Terminar(llamada, Avisar(envio))

TerminarBloqueo ==
  /\ EnServicio("bloqueo")
  /\ \E llamada \in Llamadas : Terminar(llamada, Bloquear(SendEmail(llamada)))

TerminarBusqueda ==
  /\ EnServicio("omdb")
  /\ \E llamada \in Llamadas, response \in {"True", "False"} :
       Terminar(llamada, Buscar(llamada, response))

\* A handler of this service throws.
TerminarPropio ==
  EnServicio("propio") /\ \E e \in Lanzadas : Terminar(Nada, e)

Responde(produccion, respuesta) ==
  tarea' = [tarea EXCEPT !.fase = "fin", !.produccion = produccion, !.respuesta = respuesta]

\* The controller answers (with 200, or 201 to a POST), or HttpExceptionFilter; nobody in src/ calls SinService.
AtenderTarea ==
  /\ tarea.fase = "hecha" /\ tarea.servicio # "sin"
  /\ \E produccion \in BOOLEAN :
       Responde(produccion,
                IF tarea.resultado.clase = "devuelto"
                THEN [codigo |-> 200, mensaje |-> "SUCCESS_DEFAULT", errores |-> "ninguno"]
                ELSE Atrapar(tarea.resultado, produccion))

Olvidar ==
  /\ tarea.fase = "fin" \/ (tarea.fase = "hecha" /\ tarea.servicio = "sin")
  /\ tarea' = SinTarea

InitExternos == tarea = SinTarea

NextExternos ==
  \/ Llamar
  \/ TerminarLogin \/ TerminarAviso \/ TerminarBloqueo \/ TerminarBusqueda
  \/ TerminarPropio
  \/ AtenderTarea \/ Olvidar

SpecExternos == InitExternos /\ [][NextExternos]_tarea

-----------------------------------------------------------------------------
\* Properties

\* Whatever is thrown, the client is told what whoever threw it meant: a refusal keeps its
\* status and its own text, or a generic one of that status, never that of an internal
\* error; several validation messages all arrive; what nobody foresaw is a 500 that says
\* nothing, and in production nobody gets details (ExceptionError, catch).
FiltroFiel ==
  tarea.fase = "fin" /\ tarea.resultado.clase # "devuelto" =>
    LET e == tarea.resultado
        r == tarea.respuesta
        http == e.clase \in DOMAIN Status IN
    /\ (r.codigo >= 500) <=> r.mensaje = Interno
    /\ tarea.produccion => r.errores = "ninguno"
    /\ http =>
         LET partes == e.respuesta.mensaje.partes IN
         /\ r.codigo = Status[e.clase]
         /\ r.mensaje = "propio" <=> partes = <<"propio">>
         /\ ~ tarea.produccion =>
              (r.errores = "lista" <=> \E i \in DOMAIN partes : partes[i] = "objeto")

\* What the client is told of a call to another service depends on who made it.  The login
\* of SIN succeeds only with an answer that says so, and explains every failure.  A handler
\* that mails has done its work and says so, however the mail ends.  A login that locks the
\* account is never let in: it is told that the account is locked, or, if the mail with the
\* code could not be sent, gets the 500 of any internal error.  A search succeeds exactly
\* when a body came whose fields can be read (login, sendEmail and who calls it,
\* listarPeliculas).
ExternoFiel ==
  tarea.fase \in {"hecha", "fin"} =>
    LET llamada == tarea.llamada
        resultado == tarea.resultado
        codigo == tarea.respuesta.codigo
        fin == tarea.fase = "fin" IN
    /\ tarea.servicio = "sin" =>
         IF resultado.finalizado
         THEN llamada.fallo = "ninguno" /\ llamada.cuerpo.forma = "login"
              /\ llamada.cuerpo.Autenticado
         ELSE resultado.mensaje # "ninguno"
    /\ fin /\ tarea.servicio = "aviso" => codigo < 400
    /\ fin /\ tarea.servicio = "bloqueo" =>
         codigo = IF llamada.fallo = "ninguno" THEN 401 ELSE 500
    /\ fin /\ tarea.servicio = "omdb" =>
         (codigo < 400 <=> llamada.fallo = "ninguno" /\ llamada.cuerpo.forma # "null")
=============================================================================
