------------------------------ MODULE Respuestas ------------------------------
(***************************************************************************)
(* What the client is told when a handler throws: ExceptionError, the rule  *)
(* that gives anything thrown a status and a message, and the filter that   *)
(* answers with it (HttpExceptionFilter).  Texts are the names of messages,  *)
(* "propio" for one that whoever threw it wrote.                            *)
(***************************************************************************)
EXTENDS Naturals, Sequences

-----------------------------------------------------------------------------
\* What may be thrown

Interno == "EXCEPTION_INTERNAL_SERVER_ERROR"

\* The subclasses of HttpException that the code or Nest throws, with their status; the
\* last three are those of common/exceptions.
Status == [BadRequest |-> 400, Unauthorized |-> 401, Forbidden |-> 403, NotFound |-> 404,
           Conflict |-> 409, PreconditionFailed |-> 412,
           EntityUnauthorized |-> 401, EntityForbidden |-> 403, EntityNotFound |-> 404]

\* response.message: absent, a text, an object, or a list of them
Mensaje(lista, partes) == [lista |-> lista, partes |-> partes]
Ausente == Mensaje(FALSE, <<>>)
Texto == Mensaje(FALSE, <<"propio">>)
Listas == {Mensaje(TRUE, s) : s \in {<<"propio">>, <<"objeto">>, <<"propio", "objeto">>}}

\* getResponse(): a string, or an object with some of message, error and statusCode
Respuesta(objeto, mensaje, error, statusCode) ==
  [objeto |-> objeto, mensaje |-> mensaje, error |-> error, statusCode |-> statusCode]

\* new XException(mensaje): createBody leaves "error" out when there is no message
Http(clase, mensaje) ==
  [clase |-> clase, respuesta |-> Respuesta(TRUE, mensaje, mensaje # Ausente, TRUE)]
Lanza(clase) == Http(clase, Texto)
\* new EntityXException(texto): the response is the text.
HttpTexto(clase, texto) ==
  [clase |-> clase, respuesta |-> Respuesta(FALSE, Mensaje(FALSE, <<texto>>), FALSE, FALSE)]

\* Without message Nest puts the name of the status in its place.
SinMensaje(clase) ==
  [clase |-> clase, respuesta |-> Respuesta(TRUE, Mensaje(FALSE, <<"status">>), FALSE, TRUE)]

\* AxiosError, ExternalServiceException, another Error (as QueryFailedError of TypeORM), or
\* a value that is no Error
Otra(clase) == [clase |-> clase]

-----------------------------------------------------------------------------
\* Faulty variants of definitions below, each the slip that one property of the runs
\* is there to catch.

UnTextoPrimero(mensaje) == mensaje.partes[1] # "objeto"   \* the length forgotten

-----------------------------------------------------------------------------
\* ExceptionError

TraducirMensaje(texto) ==
  IF texto = "Forbidden resource" THEN "EXCEPTION_FORBIDDEN" ELSE texto

UnTexto(mensaje) == Len(mensaje.partes) = 1 /\ mensaje.partes[1] # "objeto"

PorClase(clase) ==
  CASE clase = "BadRequest" -> "EXCEPTION_BAD_REQUEST"
    [] clase = "Unauthorized" -> "EXCEPTION_UNAUTHORIZED"
    [] clase = "NotFound" -> "EXCEPTION_NOT_FOUND"
    [] clase = "PreconditionFailed" -> "EXCEPTION_PRECONDITION_FAILED"
    [] clase = "Forbidden" -> "EXCEPTION_FORBIDDEN"
    [] OTHER -> Interno

GetMensaje(e) ==
  LET r == e.respuesta IN
  IF ~ r.objeto \/ (r.error /\ UnTexto(r.mensaje))
  THEN TraducirMensaje(r.mensaje.partes[1]) ELSE PorClase(e.clase)

\* "respuesta" is the whole body, "lista" is response.message.
GetErrores(e) ==
  LET r == e.respuesta IN
  IF ~ r.objeto THEN "ninguno"
  ELSE IF ~ r.statusCode \/ r.mensaje = Ausente THEN "respuesta"
  ELSE IF ~ r.mensaje.lista \/ UnTexto(r.mensaje) THEN "ninguno" ELSE "lista"

ErrorDe(codigo, mensaje, errores) ==
  [clase |-> "ExceptionError", codigo |-> codigo, mensaje |-> mensaje, errores |-> errores]

ExceptionError(e) ==
  CASE e.clase \in DOMAIN Status -> ErrorDe(Status[e.clase], GetMensaje(e), GetErrores(e))
    [] e.clase = "AxiosError" -> ErrorDe(500, Interno, "error")
    [] e.clase = "ExternalServiceException" -> ErrorDe(400, "propio", "error")
    [] e.clase = "ExceptionError" -> e
    [] OTHER -> ErrorDe(500, Interno, "error")

\* HttpExceptionFilter.catch
Atrapar(e, produccion) ==
  LET error == ExceptionError(e) IN
  [codigo |-> error.codigo, mensaje |-> error.mensaje,
   errores |-> IF produccion THEN "ninguno" ELSE error.errores]

-----------------------------------------------------------------------------
\* Everything that the code throws, and Nest on its behalf
Lanzadas ==
  {Lanza(c) : c \in {"BadRequest", "Unauthorized", "Forbidden", "NotFound", "Conflict",
                         "PreconditionFailed"}}
  \cup {SinMensaje(c) : c \in {"Unauthorized", "Forbidden"}}
  \cup {Http("Forbidden", Mensaje(FALSE, <<"Forbidden resource">>))}
  \cup {HttpTexto(c, "propio") : c \in {"EntityUnauthorized", "EntityForbidden", "EntityNotFound"}}
  \cup {Http("BadRequest", m) : m \in Listas}
  \cup {Otra(c) : c \in {"AxiosError", "ExternalServiceException", "Error", "valor"}}
===============================================================================
