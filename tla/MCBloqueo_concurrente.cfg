\* Two requests on one account, any interleaving, every handler goes on.
SPECIFICATION SpecJustaFija
CONSTANTS
  u1 = u1  u2 = u2  p1 = p1  p2 = p2  buena = buena  mala = mala
  c1 = c1  c2 = c2  c3 = c3  c4 = c4
  Nulo = Nulo
  Usuarios <- UnUsuario
  ConRol <- UnUsuario
  Peticiones <- DosPeticiones
  Claves <- DosClaves
  Aleatorios <- TresAleatorios
  WRONG_LOGIN_LIMIT = 2
  MINUTES_LOGIN_LOCK = 0
  MaxReloj = 1
  Fallos = FALSE
INVARIANTS
  TypeOK
  IntentosAcotados
PROPERTIES
  CodigoLlega
