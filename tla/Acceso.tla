-------------------------------- MODULE Acceso --------------------------------
(***************************************************************************)
(* Everything that happens to the row of an account at the same time:       *)
(* local login and its lockout (Bloqueo) composed with registration,        *)
(* activation, recovery and the administration of the account (Cuenta),     *)
(* over the same table, clock and mail.                                     *)
(***************************************************************************)
EXTENDS Bloqueo, Cuenta

PcAcceso == PcBloqueo \cup PcCuenta

\* What people type: passwords of their own and, when it came by mail, the
\* random one an account has now.  A random password that was replaced is one
\* more wrong password, and Claves has those.
Conocidas == Claves \cup (entregados \cap {usuarios[u].contrasena : u \in Usuarios})

ContinuarAcceso(p) == ContinuarBloqueo(p) \/ ContinuarCuenta(p)

PedirAcceso(p) == PedirBloqueo(p, Conocidas) \/ PedirCuenta(p)

NextAcceso ==
  \/ Tick
  \/ \E p \in Peticiones : PedirAcceso(p) \/ ContinuarAcceso(p) \/ Abortar(p)

\* Rows of the seeds, and accounts that nobody has registered yet.  PENDIENTE
\* rows come from crearCuenta only.
InitAcceso ==
  /\ Init
  /\ \A u \in Usuarios : usuarios[u].estado # "PENDIENTE"

SpecAcceso == InitAcceso /\ [][NextAcceso]_vars

\* One request at a time per account.
SpecAccesoSerie == InitAcceso /\ [][NextAcceso /\ Serie']_vars

-----------------------------------------------------------------------------
TypeOKAcceso == Tipos(PcAcceso)

EnCamino(c, pcs) == \E p \in Peticiones : peticiones[p].pc \in pcs /\ peticiones[p].codigo = c

\* When no await fails, every secret a row holds was mailed to its owner or its
\* handler is about to do so, however the requests that write them overlap:
\* nobody is left with a password or a link that only the database knows.
SecretoEntregable ==
  \A u \in Usuarios :
    LET llega(c, pcs) == c \in Aleatorios => c \in entregados \/ EnCamino(c, pcs) IN
      /\ llega(usuarios[u].contrasena, {"correoActivar"})
      /\ llega(usuarios[u].codigoDesbloqueo, {"correoBloqueo"})
      /\ llega(usuarios[u].codigoRecuperacion, {"correoRecuperar"})
      /\ llega(usuarios[u].codigoActivacion, {})

\* When no await fails, an account that waits for its activation has the link
\* in the mail, although activarCuenta and reenviarCorreoActivacion may be
\* writing its code at the same time.
PendienteConSalida ==
  \A u \in Usuarios :
    usuarios[u].estado = "PENDIENTE" => usuarios[u].codigoActivacion \in entregados

\* The second code of a recovery never outlives the first: setting the new
\* password spends both.
TransaccionTrasRecuperacion ==
  \A u \in Usuarios :
    usuarios[u].codigoTransaccion # Nulo => usuarios[u].codigoRecuperacion # Nulo

\* Only the handler an administrator calls turns an INACTIVO account ACTIVO.
InactivoFirme ==
  [][\A u \in Usuarios :
       usuarios[u].estado = "INACTIVO" /\ usuarios'[u].estado = "ACTIVO"
         => EnPaso(u, "activar")]_vars
=============================================================================
