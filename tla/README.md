# Formal model of peliculas-backend

TLA+ modules, TLC configurations and TLAPS proofs for the NestJS backend in
`src/`. The part that carries the program's own logic is the management of
accounts: login and lockout, the life of an account, its roles, its sessions. Around it
stand the authorization policies, the catalogues and the way failures are answered.
Definitions keep the identifiers of the source, in Spanish; comments are in
English. `PROJECT.json` maps each definition to the lines it models.

## 1. Inventory

| Component | State it keeps | Operations | Hard behaviour | What makes it correct |
|---|---|---|---|---|
| Local login and lockout (`authentication.service.ts`) | `usuarios.intentos`, `fecha_bloqueo`, `codigo_desbloqueo` | `validarUsuario` (`verificarBloqueo`, `generarIntentoBloqueo`), `desbloquearCuenta` | decides from a row read several awaits earlier; two UPDATEs without a transaction; mails | the counter stays within the limit; a lock in force keeps everybody out; it is deserved, is not prolonged and has a way out |
| Account life cycle (`usuario.service.ts`) | `usuarios.estado`, `contrasena`, three more codes | `crearCuenta`, `activarCuenta`, `recuperarCuenta`, `validarRecuperar`, `nuevaContrasenaTransaccion`, `activar`, `inactivar`, `actualizarContrasena`, `restaurarContrasena`, `reenviarCorreoActivacion` | write-then-mail in some handlers, mail-then-commit in others; all of them overlap on one row | every secret stored is one its owner gets; codes are spent; an account inactivated stays so |
| Roles and e-mail (`usuario.service.ts`, `usuario-rol.repository.ts`) | `usuarios_roles`, `usuarios.correo_electronico` | `actualizarDatos`, `actualizarRoles`, `verificarUsuarioRoles`, and the OIDC login that calls them | four statements without a transaction; check-then-write; repeated roles | exactly the roles asked for; no role lost on the way |
| Sessions (`refreshTokens.*.ts`, `authentication.controller.ts`) | `refresh_tokens`, the cookie `jid` | login, `createAccessToken` with rotation, `removeByid` (logout, `DELETE /:id`), cron `eliminarCaducos` | tabs share a cookie, answers arrive in any order, the cron job runs in between | a session in use does not end by itself |
| Registration and OIDC login (`crear`, `crearCuenta`, `crearConCiudadania`, `validarOCrearUsuarioOidc`, `crearConPersonaExistente`, `crearConCiudadaniaV2`) | `personas`, `usuarios`, `usuarios_roles` | find or create person and user, bring names and e-mail up to date | document and e-mail looked for in one statement and inserted in another; only the user name is UNIQUE; the role to give is looked for by its name | nobody is registered twice or half-way; an account without roles has a reason; a login ends in the account of its document |
| Authorization (`authorization.service.ts`, `casbin.guard.ts`, `modulo.*.ts`) | policies in the casbin enforcer and in `casbin_rule`; `modulos` | create, update (remove, then add), delete, enforce, menus; create, activate, inactivate modules | each policy is in two places, written by different steps; the guard asks role by role while policies change; menus mix two reads | memory and table agree; administrators get what they are answered; nobody is refused or shown a menu item without reason |
| Catalogues (`parametro`, `rol`, `modulo`, `pelicula`) | a table each, with its sequence of ids | `crear`, `actualizar`, `activar`, `inactivar`, `eliminar` | `codigo` looked for in one statement and inserted in another; transactions that wait for each other's keys; an answer that is lost; an UPDATE of a row that is not there | keys are unique; each order is done once and whole or refused with its reason; every request is answered |
| Pages of the catalogues (`listarTodos`, `listar`, `PaginacionQueryDto`) | none | a page, then the count | rows appear between pages and out of the order of their ids | whoever reads all the pages has seen every row that was there |
| Calls to other services (`BaseExternalService`, `SinService`, `MensajeriaService`, the searches of OMDb) | none | HTTP calls | fail in several ways, with several bodies, or without one; some callers catch the failure and others do not | the login of SIN takes no failure for a success; each of the others tells its client what it made of the call |
| Answers to failures (`ExceptionError`, `HttpExceptionFilter`) | none | anything thrown becomes a status and a message | classes, shapes and messages of exceptions mix | a refusal keeps its status and its text; nothing internal is shown |
| SEGIP and state services, persona service, reports | none | HTTP calls and queries that nobody or hardly anybody calls | – | – |
| Validation, templates, helpers, logger, configuration, start-up, seeds | none that the rest depends on | – | – | – |

Interaction: controllers call services, services call repositories and each
other (`AuthenticationService` → `UsuarioService`, `RefreshTokensService` →
`UsuarioService`, `UsuarioService` → `AuthorizationService` and
`MensajeriaService`, everybody → `HttpExceptionFilter` when something is thrown). The components meet in the rows of PostgreSQL; the only shared
memory that matters is the enforcer's copy of the policies. Node runs one stretch of JavaScript at a time, so a
handler is atomic between two awaits and interleaves with all the others at each
of them.

## 2. Modules

| Module | Models |
|---|---|
| `TablaUsuarios` | what login and account handlers share: rows of `usuarios`, clock, delivered mails, one record per request (its `pc` is the await it is at, its other fields the locals it still needs), failures, row locks |
| `Bloqueo` | `validarUsuario`, `verificarBloqueo`, `generarIntentoBloqueo`, `desbloquearCuenta` |
| `BloqueoAbs` | the lockout as promised: no requests, statements or mails |
| `Cuenta` | the ten handlers of the account life cycle |
| `Acceso` | `Bloqueo` and `Cuenta` composed over the same row |
| `UsuarioRoles` | e-mail and roles of an account |
| `Registro` | `crear`, `crearCuenta`, `crearConCiudadania` and `validarOCrearUsuarioOidc` with `crearConCiudadaniaV2`, `crearConPersonaExistente` and the e-mail part of `actualizarDatos`, for several people |
| `Sesion` | refresh tokens, cookie, logout, `DELETE /:id`, cron job |
| `Politicas` | the casbin enforcer (memory and table), `CasbinGuard`, the handlers of `AuthorizationService`, menus and modules |
| `Catalogo` | the requests on parametros, roles, modulos and peliculas, statement by statement |
| `CatalogoAbs` | the same as promised: an order takes effect at one moment or is refused with a reason |
| `Recorrido` | somebody reads a catalogue page by page while it grows |
| `Respuestas` | operators: what is thrown, and what the client is told of it |
| `Externos` | a request that depends on SIN, the mails or OMDb, from the call through the method that makes it to the answer |
| `BloqueoProofs`, `AccesoProofs`, `UsuarioRolesProofs`, `RegistroProofs`, `SesionProofs`, `PoliticasProofs`, `CatalogoProofs`, `ExternosProofs` | theorems about the module each is named after (`CatalogoProofs` also about `Recorrido`) |
| `MCBloqueo`, `MCAcceso`, `MCUsuarioRoles`, `MCRegistro`, `MCSesion`, `MCPoliticas`, `MCCatalogo` | instances for TLC |

How the code becomes actions:

* One action per stretch between two awaits that matters: reading the row is one
  step, each UPDATE another, each mail another. Stretches that only compute
  (bcrypt, templates) belong to the step that uses their result; reads whose
  result is not used for a decision (`buscarPorId` after an UPDATE) are left out.
* `crearCuenta`, `restaurarContrasena` and `reenviarCorreoActivacion` run inside
  `runTransaction`: their writes become visible in the `Confirmar...` action, and
  between the first UPDATE and that the row is locked (`SinCandado`): the other
  UPDATEs of that row wait, reads do not (PostgreSQL, read committed).
* `.catch((err) => this.logger.error(err))` after a mail is `EnviarOSeguir`; a mail
  without it (`verificarBloqueo`) ends the request when it fails.
* `Abortar` is any await that rejects, or the end of the process: statements
  executed stay, an open transaction is rolled back, the request is forgotten. The
  constant `Fallos` turns it on.
* Requests that change nothing (bad code, wrong estado, weak password, unknown
  user) either are a stuttering step (`RechazarUsuario`) or do not appear.
* `erroneos` (Bloqueo), `reactivados`, `antes` (UsuarioRoles),
  `salidas`, `firmado` (Sesion), `falto` (Registro) are history: no guard reads them.
* Random values (`generateUuid`, `generateShortRandomText`, nanoid) come from a pool;
  `Nuevo` takes one that no row and no request holds. A value nobody holds matches
  no row, so it may stand for a fresh one; the pools are large enough for every
  value alive at a time (`PozoSuficiente`), so no handler waits for one.
* A password typed is a member of `Claves`; encoding (`decodeBase64`) and
  hashing are abstracted to equality with the one stored. zxcvbn's verdict is not
  modelled: refused passwords write nothing.
* Times are ticks. `dayjs().isAfter(null)` is false (`Vencida`).
* `usuarios_roles` is a pair of counts per account and role (rows ACTIVO, rows
  INACTIVO), because nothing in the table keeps a role from having several rows.
  The arrays of the requests are bags for the same reason.

* In `Registro` a document is abstract, and so is an e-mail, which stands also for the
  uuid that `textToUuid` makes of it: `crearCuenta` stores it as document, under the
  e-mail as user name. `personas` counts the rows with each document. `datos` says
  whether the names in the row all differ from those of Ciudadania Digital, which is
  what `validarOCrearUsuarioOidc` tests with `&&`. The transaction of
  `UsuarioRepository.crear` is one action (`Transaccion`): the second of two insertions
  of one user name waits for the first and then fails, so nothing is seen half-way.
  `crearConPersonaExistente` saves the account with a relation that has no cascade:
  `FilaExistente` has no roles, whatever role was found.
* The role that `crearCuenta` and `crearConCiudadaniaV2` give is the one named `USUARIO` when
  they look for it (`RolHallado`); an administrator may take the name from it or give it to
  another role between any two awaits (`RenombrarRol`: `RolService.crear` and `actualizar`,
  of which only the name matters here; the requests themselves are in `Catalogo`). Without
  it `crearCuenta` ends with an error (`CuentaPorRol`) and `crearConCiudadaniaV2` saves an
  account without roles (`NuevaPorRol`). `falto` remembers that it was missing since the
  login arrived and before it looked.
* `Cuenta` follows one identity through `crearCuenta`, mails and transaction included;
  `Registro` has several identities and looks only at what is found and inserted.
  `UsuarioRoles` has the roles of `actualizarDatos`, `Registro` its e-mail.
* In `Politicas` a policy is its subject, object and app; the action is part of what the
  pairs of `Coincide` say of objects and resources (`keyMatch2`, `regexMatch` of
  `model.conf`). `removePolicy` and `addPolicy` of casbin are three steps each, as the
  library does them when a policy adapter is set: look in memory, execute the statement,
  change the memory. Bodies and queries are chosen when the guard lets the request in,
  because the guard never reads them. The guard may take the roles of a token in any order.
  A request for a profile makes the menu of one role; the code makes one per role, each
  with its own two reads. Menus compare subjects for equality, so `*` gives none.
  Modules are written in one step: the row found before the UPDATE cannot be gone, since
  `DELETE /autorizacion/modulos` has no `:id` and deletes nothing. Their own requests are
  not counted among `peticiones`.
  `limpias` is history: the policies whose writers did not overlap, and whose statements
  were all answered, since the start of the server. So are `antes` and `visto`.
* `Catalogo` is one module for four services because their routes have the same shape;
  what differs is data: `ParametroService`, `RolService`, `ModuloService` and
  `PeliculaService` give each method its first await and what it writes,
  `ParametroController`... the routes there are, `Unica` the constraints. `tabla` chooses
  one of them in the initial state. `save()` of TypeORM is BEGIN, INSERT, COMMIT: the row
  exists for its own transaction after `Insertar` and for everybody after `Confirmar`;
  whoever needs a key that is between the two waits (`EnEspera`), as PostgreSQL does
  inside the statement. An `update()` is one statement, committed by itself, and nobody
  looks at the number of rows it changed. An `Abortar` loses what was not committed; an
  answer may be lost after the statement was done (`Contestada`): the row changed and the
  client gets a 500.
* The body of a catalogue request is its key, its estado and one Boolean for all the other
  constraints of the table (lengths, CHECK, foreign keys). The answers are the status
  codes that `Atrapar` of `Respuestas` gives for what the handler throws, so that
  `CatalogoAbs` speaks of what the client sees.
* In `Recorrido` a row is its id and a page a set of rows, because the answer is used as one.
  `getManyAndCount` of the TypeORM in `package.json` runs the SELECT and then the count.
  Rows appear, with ids taken before, and never go away: no statement of the four services
  deletes one (the DELETE of modulos has no id, that of peliculas writes an estado). `parametros` and `peliculas` are listed without ORDER BY: any page of the right
  size may come, and nothing is claimed of them. `previas` is history.
* In `Respuestas` the texts are names ("propio" is the text of whoever threw); what is kept
  of an exception is its class and the shape of its response, which is all that
  `getMensaje` and `getErrores` test.
* In `Externos` what a call brings goes through the method that made it before the client
  hears of it. `Avisar` is a handler that mails with `.catch` (`Atajar`): it answers with its
  own result whatever became of the mail. `Bloquear` is the login that locks the account,
  whose mail nobody catches: a 401 after a mail that was sent, a 500 after one that failed.
  `Buscar` is a search: it reads a field of the body, so that an answer without one (`null`)
  ends as a failure does. `Login` catches everything; it has no caller, so no client.

Every module has a section of faulty variants: the slip that each property is
there to catch. Replacing the definition by its variant makes the property fail;
`PROJECT.json` pairs them ("mutants").

## 3. Runs

| Run | Instance | What it shows |
|---|---|---|
| `bloqueo_concurrente` | 1 account, 2 requests, limit 2, lock 0 ticks, clock 0..1, no failures, `SpecJusta` | whatever the interleaving of logins and unlockings, the counter stays within the limit; every unlocking code stored is mailed, replaced or erased (liveness) |
| `bloqueo_serie` | 2 accounts, 2 requests on different accounts, limit 3, lock 1, clock 0..3, no failures | the handlers implement `BloqueoAbs`; no more than `WRONG_LOGIN_LIMIT` wrong passwords; locks are deserved |
| `bloqueo_solape` (violation) | 1 account, 2 overlapping requests, limit 3 | `LimiteErroneos` fails: lost update of the counter |
| `acceso_serie` | 1 account, 1 request, limit 2, lock 1, clock 0..3, failures | a lock in force keeps everybody out and is not prolonged, whatever handler dies half-way; a recovery is spent whole |
| `acceso_concurrente` | 1 account, 2 requests, limit 1, lock 0, clock 0..1, no failures | every secret in the row reached its owner or is about to; a pending or locked account has a way out |
| `acceso_inactivo` (violation) | 1 request | an INACTIVO account is made ACTIVO by its owner |
| `roles_serie` | 2 accounts, 2 roles, 3 addresses, 2 requests that share neither account nor address, failures | the roles asked for, no cut on the way, rows that agree, unique addresses |
| `roles_oidc` (violation) | 1 account, 1 request | a login with Ciudadania Digital reactivates roles |
| `registro_solape` | 2 documents (one with a persona and no account), 2 e-mails, 1 role that may lose its name and get it back, 2 requests, failures | overlapping registrations leave a new document with one persona and one account; an account that has no role could not get one; a login ends in its own account |
| `politicas_guardia` | 2 roles and `*`, 3 policies of which administrators send 2, 1 section with 1 module, 2 requests, failures and restarts | memory and table agree; an answered change is there; an update that stops half-way grants less and not more; no 403 and no menu item without reason |
| `sesion_pestanas` | 1 browser, 2 requests (tabs), 4 ids, life 2, rotation window 2, clock 0..3, failures | a session in use lasts; the cookie dies only by expiry or because somebody asked |
| `catalogo_solape` | each of the 4 catalogues: 2 keys, 2 requests, 2 ids, failures and lost answers; pages of 2 rows of a table that grows to 4; every way a call ends and everything a handler throws | the handlers implement `CatalogoAbs`; keys are unique; every request ends (liveness); who reads all the pages misses no row; no refusal loses its status and every client of a call is told what its handler made of it |

Bounds and why they are enough:

* Accounts do not interact through the handlers of `Bloqueo` and `Cuenta` (each
  statement has a `WHERE id`), so one account shows everything; `bloqueo_serie` has two
  to show that they do not: both may log in, be locked and be unlocked at once. `CorreoUnico` needs two accounts and a free address.
* Two requests are the smallest overlap. A lost update, a stale reset and an
  overwritten code all happen with two.
* `MaxReloj` reaches past the end of a lock that started after the count was
  exhausted, and past the expiry of a token; `MINUTES_LOGIN_LOCK = 0` with one tick
  keeps before and after the end of a lock, which is all `Vencida` tells apart.
* `MaxPersonas` (2) is never reached from above: a document of `Previas` starts with one
  row and gets at most one more, with its account. `ConNombre = FALSE` keeps to the body
  that `docs/openapi.yaml` documents; with a `usuario` of its own in the body (nothing
  strips it: the `ValidationPipe` has no `whitelist`) two overlapping `crear` register a
  document twice. The theorems say where this matters. `Inactivas` is empty in the run:
  a persona that is INACTIVO only ends the login.
* `politicas_guardia` has what the properties can tell apart: the policy that lets
  administrators change policies (and may be removed by one of them while another is at
  work), a menu item of the other role, a policy of `*`, and modules either all there or
  none yet. `MaxFilas` (2) of `Politicas` admits the duplicate that two overlapping
  creations leave. The theorems have no such bounds, except `MaxFilas`, which is any
  positive number.
* `catalogo_solape` explores three modules that share no variable. `parte` says which of them
  moves, the others stay where they start: the state space is the sum and not the product.
  Two requests are what a check-then-insert, a wait and an UPDATE on a row being inserted
  need; a third would only wait longer. `MaxFilas` (2) bounds the ids taken by requests
  (`Creadoras` counts those on their way, so that no request ever stops at the bound), and
  two rows are what a duplicate needs. `MaxIds` (4) with `Limite` (2) is a second page
  that is full and a row that arrives before the first. The theorems have none of these
  bounds but `MaxFilas` and `MaxIds`, which are any number.
* `VIEW Vista` of `MCRegistro` forgets what no later step and no property reads: the estado of
  accounts registered with an e-mail (nobody's document is a uuid), the roles of accounts
  with a document unless the login that inserted one is about to read it again, the roles
  that other logins only answer with, and `falto` of whom it says nothing (`Previas`).
* `MaxFilas` (2) admits the array with a repeated role, which leaves two rows.
* `erroneos` stops at one past the limit (`Sumar`): only exceeding matters.
* `VIEW Vista` of `MCAcceso` identifies states that differ by a permutation of the
  random values: it keeps, of each value, the places that hold it and whether it was
  delivered. `VIEW Vista` of `MCSesion` forgets deleted rows that nobody names. No
  property and no guard tells such states apart.
* Symmetry sets are used in runs of safety only. `bloqueo_concurrente` has none; it
  starts from one of the two passwords instead (`SpecJustaFija`).

`SpecSerie` keeps the requests on one account from overlapping; the runs with one
slot do the same for the whole service. They are there because some promises hold
only then: `bloqueo_solape` shows one of them failing under `Spec`.
`BloqueoEfectivo`, `TransaccionTrasRecuperacion`, `CorreoUnico`, `FilasDeAcuerdo` and
`RolesPedidos` fail under overlap as well (the hazards of `PROJECT.json` say how), and
`BloqueoMerecido` with failures.

Fairness: `WF_vars(ContinuarBloqueo(p))` for each request slot: Node resumes every
handler whose await settled. Nothing is assumed of people, of the clock or of the
number of attempts. It is stated with `Fallos = FALSE`: with failures nothing must
ever be mailed. For the catalogues, `SF_varsCatalogo(Atender(g))` for each slot: every statement is
answered in the end, and PostgreSQL queues those who wait for a key, so that a request that
can go on again and again goes on. Strong because the key may be taken again by the other
request between two moments in which it is free. It holds with failures too: a request that
fails is answered.

No run sets `CHECK_DEADLOCK`: there is always a request that somebody may make.

## 4. Disagreements with the repository's own words

1. The counter of wrong logins is a read-modify-write across awaits (`bloqueo_solape`).
2. Three handlers that the owner reaches write `estado: ACTIVO` whatever it was (`acceso_inactivo`).
3. An OIDC login whose e-mail changed activates inactivated roles (`roles_oidc`).

Seen while modelling, without a run of their own:

* `POST /usuarios/cuenta/ciudadania` cannot create an account: its body has no persona,
  and `usuario.repository.ts:172` dereferences it.
* `DELETE /autorizacion/modulos` never gets its id (`modulo.controller.ts:57`).
* `PATCH /usuarios/:id` without `roles` writes the e-mail and then throws (`usuario.service.ts:709`).
* OIDC logins sign INACTIVE roles into the token (`authentication.service.ts:280`).
* An OIDC login of a persona without account leaves an account without roles that never
  enters (`usuario.repository.ts:250`).
* A rotated refresh token stays usable until it expires (`refreshTokens.service.ts:101`).
* A session of an account that was inactivated meanwhile is still refreshed: `POST /token`
  does not look at `estado` (`refreshTokens.service.ts:70`).
* `sendEmail` returns the promise without awaiting it, so that its `catch` never runs and
  nobody ever sees `ExternalServiceException` (`mensajeria.service.ts`). Only the login that
  locks an account (`verificarBloqueo`) lets a failed mail reach the client, as a 500 and
  not as a 400; the six handlers of `UsuarioService` that mail log it and answer success.
* A registration with Ciudadania Digital while no role is called `USUARIO` saves an account
  without roles, which never enters; `crearCuenta` refuses in the same situation, with the
  message about weak passwords (`usuario.service.ts:403`, `:140`).
* A search of films that OMDb answers with a `null` body is a 500 (`pelicula.service.ts`).
* `PATCH /autorizacion/modulos` of a row that is not there is answered 200
  (`modulo.service.ts`).
* A film that was deleted comes back as INACTIVO by `inactivar`, which looks at the row and
  not at its estado (`pelicula.service.ts`).
* Parametros and peliculas are paged without ORDER BY, and the listing of users
  (`usuario.repository.ts:47`) selects by active roles, so that a row may leave it between
  two pages: what `RecorridoCompleto` says of roles and modulos does not hold of them.

## 5. Proofs

`BloqueoProofs` proves, for any accounts, any number of requests, any limit,
any lock time and any pool:

| Theorem | Statement |
|---|---|
| `TipoCorrecto` | `Spec => []TypeOK` |
| `ContadorAcotado` | `Spec => []IntentosAcotados` |
| `BloqueoEfectivoEnSerie` | `SpecSerie => []BloqueoEfectivo`, failures included |
| `LimiteEnSerie` | `SpecSerie => []LimiteErroneos`, if `~Fallos` |
| `BloqueoMerecidoEnSerie` | `SpecSerie => []BloqueoMerecido`, if `~Fallos` |
| `BloqueoNoSeExtiendeEnSerie` | `SpecSerie => BloqueoNoSeExtiende`, failures included |
| `BloqueoImplementa` | `SpecSerie => ImplementaBloqueo`, the refinement of `BloqueoAbs`, if `~Fallos` |

`AccesoProofs` proves of the composition, for any number of overlapping requests:

| Theorem | Statement |
|---|---|
| `TipoCorrectoAcceso` | `SpecAcceso => []TypeOKAcceso`, failures included |
| `ContadorAcotadoAcceso` | `SpecAcceso => []IntentosAcotados`, failures included |
| `SecretoSiempreEntregable` | `SpecAcceso => []SecretoEntregable`, if `~Fallos` |
| `PendienteSiempreConSalida` | `SpecAcceso => []PendienteConSalida`, if `~Fallos` |
| `BloqueoSiempreConSalida` | `SpecAcceso => []BloqueoConSalida`, if `~Fallos` |
| `AltaNoPisa` | `SpecAcceso => [][...]_vars`: the COMMIT of `crearCuenta` fills an empty row and never replaces an account; failures included |
| `BloqueoEfectivoEnAcceso` | `SpecAccesoSerie => []BloqueoEfectivo`, failures included |
| `BloqueoNoSeExtiendeEnAcceso` | `SpecAccesoSerie => BloqueoNoSeExtiende`, failures included |
| `LimiteEnAcceso` | `SpecAccesoSerie => []LimiteErroneos`, if `~Fallos` |
| `BloqueoMerecidoEnAcceso` | `SpecAccesoSerie => []BloqueoMerecido`, if `~Fallos` |
| `TransaccionSiempreTrasRecuperacion` | `SpecAccesoSerie => []TransaccionTrasRecuperacion`, failures included |

`SpecAccesoSerie` is `SpecAcceso` with no two requests at once on one account. The refinement
of `BloqueoAbs` is not among them because it does not hold of the composition:
`nuevaContrasenaTransaccion` sets the counter to 0 also when it is at the limit and no lock
has been written, which no step of the lockout as promised does.

`UsuarioRolesProofs` proves, for any accounts, roles, addresses, arrays and number of
requests, failures included:

| Theorem | Statement |
|---|---|
| `TipoCorrectoRoles` | `SpecRoles => []TypeOKRoles` |
| `RolesSiemprePedidos` | `SpecRolesSerie => []RolesPedidos` |
| `NuncaCortes` | `SpecRolesSerie => []SinCortes` |
| `FilasSiempreDeAcuerdo` | `SpecRolesSerie => []FilasDeAcuerdo` |
| `CorreoSiempreUnico` | `SpecCorreosSerie => []CorreoUnico` |

In `SpecRolesSerie` no two requests at once are on one account; in `SpecCorreosSerie` no two
at once ask for one address, and they may be on one account.

`RegistroProofs` proves, for any people, e-mails, roles and number of requests, failures
included:

| Theorem | Statement |
|---|---|
| `TipoCorrectoRegistro` | `SpecRegistro => []TypeOKRegistro` |
| `UnaSolaPersona` | `SpecRegistro => []PersonaUnica`, if `~ConNombre` |
| `EntradaSiemprePropia` | `SpecRegistro => []EntradaPropia`, if `~ConNombre` |
| `SinRolesSiempreConRazon` | `SpecRegistro => []SinRolesConRazon`, if `~ConNombre` |

`SesionProofs` proves, for any accounts, browsers, ids, number of requests, life of a token
and rotation window, with failures and the cron job at any time:

| Theorem | Statement |
|---|---|
| `TipoCorrectoSesion` | `SpecSesion => []TypeOKSesion` |
| `SesionSiempreConservada` | `SpecSesion => []SesionConservada` |
| `CookieSiempreViva` | `SpecSesion => []CookieViva` |

`PoliticasProofs` proves, for any roles, policies, modules and number of requests, with
failures and restarts:

| Theorem | Statement |
|---|---|
| `TipoCorrectoPoliticas` | `SpecPoliticas => []TypeOKPoliticas` |
| `MemoriaSiempreFiel` | `SpecPoliticas => []MemoriaFiel` |
| `CambioSiempreCumplido` | `SpecPoliticas => CambioCumplido` |
| `NuncaJamasAmbas` | `SpecPoliticas => []NuncaAmbas` |
| `SiempreNegadaConRazon` | `SpecPoliticas => NegadaConRazon` |
| `MenuSiempreFiel` | `SpecPoliticas => MenuFiel` |

`CatalogoProofs` proves, for any keys, number of rows and number of requests, with failures
and lost answers:

| Theorem | Statement |
|---|---|
| `TipoCorrectoCatalogo` | `SpecCatalogo => []TypeOKCatalogo` |
| `ClaveSiempreUnica` | `SpecCatalogo => []ClaveUnica` |
| `CatalogoImplementa` | `SpecCatalogo => ImplementaCatalogo`, the refinement of `CatalogoAbs` |

and, for any size of page and any number of rows:

| Theorem | Statement |
|---|---|
| `TipoCorrectoRecorrido` | `SpecRecorrido => []TypeOKRecorrido` |
| `NadaSeSalta` | `SpecRecorrido => []LoQueFalta` |
| `SiempreCompleto` | `SpecRecorrido => []RecorridoCompleto` |

`ExternosProofs` proves, for every exception the code throws and every way a call ends:

| Theorem | Statement |
|---|---|
| `SiempreFiltroFiel` | `SpecExternos => []FiltroFiel` |
| `SiempreExternoFiel` | `SpecExternos => []ExternoFiel` |

Assumptions: the named `ASSUME`s of the modules, which TLC evaluates on every run. They say
that limits, times and bounds are numbers (the limit of wrong logins and the size of a page
positive), that `Nulo` is no value of a column, that typed passwords are not random values,
that documents are not e-mails, that the seeds and what administrators send are policies,
and that the slots of `Catalogo` are finitely many. What a theorem needs beyond them (`~Fallos`,
`~ConNombre`, requests that do not overlap) is in its statement, and section 3 says why it is
needed.

The arguments:

* `InvIntentos(pcs)`: types, the bound on the rows, and the bound on the copies:
  a handler that may still write the counter holds a number within the limit,
  because it passed `verificarBloqueo` below the limit, or because the lock it read
  had run out, in which case it writes 1. `IntentosAcotados` alone is not inductive:
  the UPDATE of `contar` writes the handler's copy. It is parameterised by the set of
  `pc` values and stated with lemmas per kind of step (`PasoBloqueo`, `PedirInv`,
  `RestoInv`) so that the composed specification `Acceso` can reuse it.
* `InvSerie` adds what no overlap means: the request in progress of an account has
  a snapshot that is still what the row holds (`Vista`), and a lock with time left
  has its counter at the limit. A request on its way to lock found no lock in the row
  and still finds none, which is why a lock is not prolonged.
* `CuentaExacta` relates the history to the row: with no request half-way, the wrong
  passwords since the last fresh start are the stored counter; half-way, they are
  the copy about to be written (`PorContar`). It needs `~Fallos`, because a failure
  between comparing and writing loses a count.
* `InvPromesa` and `InvCumple` carry the refinement of `BloqueoAbs`. The abstract lock is the
  one of the row, or the one a request has computed and not yet written; the abstract
  count is the history. They say that the two agree: a lock in the row stands for a
  count at the limit, or is what is left of one that ended, after a right password or with the
  UPDATE that erases it still to come (`FechaSaldada`), and whatever a request decided to write is still due. Then each await
  is one step of `BloqueoAbs` or a stutter (`PasoCumple`), one lemma per await.

* `InvAcceso` is `InvIntentos(PcAcceso)` and `ConCodigo`: a handler of `Cuenta` that
  will mail a random value holds one. Without it a mail could deliver `Nulo`.
* `InvSecretos` joins the three properties about secrets with `Custodia`: between
  the mail and the commit (`crearCuenta`, `restaurarContrasena`,
  `reenviarCorreoActivacion`) the value to be stored has been delivered, and a password
  that `nuevaContrasenaTransaccion` or `actualizarContrasena` will store is one that
  was typed. The three are proved together because one handler's write decides the
  other handlers' cases: a code about to be mailed stops being in the row when another
  request overwrites it. `~Fallos` is needed: a mail that fails after its UPDATE leaves a
  stored code nobody received, and `Abortar` forgets the handler that would mail it.
* The lock in the composition. `InvSerie(PcAcceso)` is the invariant of `Bloqueo` over the
  `pc` values of all the handlers: a handler of `Cuenta` writes the counter and the lock in
  the one form `EscribirRecuperada` (both reset) or leaves both alone (`BloqueoFilas`), and it
  is alone on its account. What `crearCuenta` inserts is a row with the counter at 0, and
  one that was there must not be lost under it: `InvAlta` says that an absent row is empty,
  that between INSERT and COMMIT it stays absent and nobody else is there for it (a second
  INSERT of the user name waits), and that no other handler works on an absent row.
  `AltaNoPisa` is its consequence. `SaldoCuenta` is `CuentaExacta` for all of them: each
  write keeps count and history in step, because a fresh start (`erroneos` at 0) comes
  exactly with the UPDATE that resets the counter.
* `InvRecuperacion`: between the read of `validarRecuperar` and its UPDATE the first code
  is still in the row. That is what a second request on the account may break; those on
  other accounts do not touch the row.

* `UsuarioRolesProofs` has three layers. `Tipos` is inductive whatever overlaps: the two
  UPDATEs of `usuarios_roles` only move rows between ACTIVO and INACTIVO, so the sum of both
  is what has to be bounded (`Acotadas`), not each. `InvRoles` says that at each statement what is
  left of the plan is what the rows still lack (`Forma`): after `activar` no role asked for
  is inactive, after `inactivar` no other is active, and the roles to create have no row.
  `FilasDeAcuerdo` is part of it, because a failure anywhere must leave rows from which the
  next plan is right. It speaks of the rows of one account, so that requests on other
  accounts keep it (`PasoDeFilas`); two requests on one account break it, because each
  plans from rows the other changes. `InvCorreos` says that an address looked for and
  found free still is when it is written. Only a request for the same address breaks that,
  whatever account it is on.

* `InvSesion` of `SesionProofs`: `Formas` says what a request holds at each await, and
  `Propios` that a token on its way to the browser is known to nobody else, so that no
  logout deletes it, no other answer takes it and no fresh id equals it. `CookieViva` alone
  is not inductive: the answer that sets the cookie needs its token alive. The window of
  `SesionConservada` comes from the test of the rotation: a token kept had the whole window left
  when the answer was signed, a new one has its whole life.

* `InvRegistro`: a row is of the document that is its name; a document that nobody knew
  has a persona exactly when it has an account (`Registrada`); and for each request what
  it may rely on after its searches (`Ordenada`). A search that found nothing may be
  stale, and is harmless because the insertion fails; one that found something is not,
  because nothing is undone (`Avanza`), which is also all that the requests that do not
  move need (`OtraOrdenada`). `PersonaUnica` alone is not inductive: it does not know that
  the handler on its way to `crearConPersonaExistente` saw a row of `personas`, and so
  that for a new document there is an account that makes its insertion fail.
* `InvRoles` of `RegistroProofs` adds why an account has no roles (`ConRazon`): a login that has yet to look
  for the role and finds it missing now is one that knows so (`falto`), and that knowledge
  goes with it through the insertion and the second reading. `SinRolesConRazon` alone is
  not inductive: it speaks of the login about to enter, and the account is inserted two
  awaits before.

* `InvForma` of `PoliticasProofs`: types, what a writer holds at each stage (`Forma`) and
  what the history of a request is worth (`Historia`): while the guard asks, every policy
  in favour that has been there all along is of a role still to be asked about. That is
  the whole of `NegadaConRazon`.
* `InvPoliticas` adds three facts of each policy in `limpias`: it has at most one writer
  (`UnEscritor`); memory and table agree unless its statement is executed and not yet seen
  by the enforcer (`DeAcuerdo`); and its writer at work knows what it will find
  (`EnMarcha`): no row after the DELETE, one after the INSERT, not in memory before it, and
  the replaced policy gone while the new one is added. `MemoriaFiel` alone is not
  inductive: it says nothing while somebody writes. `CambioCumplido` follows from the same
  invariant, because the last step of a writer finds memory and table as `EnMarcha` says, and
  `NuncaAmbas` because at no step of adding is the replaced policy in either. `MenuFiel`
  follows from `Historia`: the policies read are between those there all along and those
  there at some moment.

* `InvCatalogo`: two rows with a key, or a row and an INSERT about to be committed, or two
  of these, cannot be (`SinRepetir`; `Nuevas` says it of ids). `ClaveUnica` speaks of the rows
  alone and is not inductive: the COMMIT makes a row of what an INSERT had put aside. The
  refinement maps each await to the abstract order at its moment, or to a stutter: the order is
  done at the COMMIT, or at the UPDATE, and refused where the handler throws.
* `Recorrido`: a row counts for the pages by its rank, the number of rows before it.
  A row there from the beginning and not seen has a rank beyond the pages read
  (`LoQueFalta`), and its rank only grows, because rows appear and never go away. The count is
  made after the page, so that a reader who stops has seen as many as there were.

* `InvTarea` of `ExternosProofs`: what a call has left behind is what the method that made it,
  one of five, makes of some way a call ends (`Origen`), and an answer given is the one the filter makes of that
  (`Contestada`). The two properties then are about `Atrapar`, case by case of what
  was thrown.

Only model-checked: liveness (`CodigoLlega`, `TodaPeticionResponde`; fairness and ENABLED
are beyond the prover).

## 6. Not modelled, and assumptions

* Every account has an e-mail (the column is nullable); mails are not lost after
  `sendEmail` resolved.
* Administrators act on accounts that are not their own (`verificarPermisos`).
* The browser drops a cookie when it expires; the model lets it stay, which is the
  harder case. A refresh answered after the logout of another tab sets a live cookie
  again; nothing in the code promises otherwise.
* The express session of OIDC, the exchange with its issuer and the URL of `end_session`:
  a library's state machine of which `src/` keeps nothing but the redirect.
* The guard of access tokens (`jwt.strategy.ts`): it checks a signature and copies claims, and
  keeps no state; what is signed into the claims is in `UsuarioRoles` and `Sesion`.
* `SegipService`: its calls in `usuario.service.ts` are commented out. `sendSms` and the reports
  have no caller; as calls they have the shape that `Externos` gives to `sendEmail`.
* Listings that read and change nothing, except the pages of catalogues (`Recorrido`) and
  the menus (`Politicas`).
* Validation of DTOs (re-exports of class-validator), helpers (bcrypt, uuid, zxcvbn), templates
  of mails, logger, configuration, start-up, Swagger, seeds: text, wiring and data, nothing
  that two steps could order differently. The initial states come from the seeds.

## 7. Plan

Done, in this order: `TablaUsuarios`, `Bloqueo`, `BloqueoAbs`; `Cuenta`, `Acceso`;
`UsuarioRoles`; `Sesion`; `Registro`; `Politicas`; `Catalogo` with `CatalogoAbs`; `Recorrido`;
`Respuestas`, `Externos`; and the proofs of all safety properties that the passing runs check,
refinements included.

Left:

1. In `Politicas`, `actualizar` of a module (its url and section are constants there; the
   statement itself is in `Catalogo`), and an abstract specification, a set of policies
   changed atomically, that it implements when writers do not overlap.
2. Overlapping updates of one account in `UsuarioRoles`: what can still be said of two plans
   made from the same rows.
3. `Registro` and `Acceso` composed: a registration that is mailed while a login with Ciudadania
   Digital brings the same account up to date.
