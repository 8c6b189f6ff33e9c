\* Two registrations at once, of two people with two e-mails; any await may fail.
SPECIFICATION SpecRegistro
CONSTANTS
  d1 = d1  d2 = d2  c1 = c1  c2 = c2  r1 = r1  p1 = p1  p2 = p2
  Nulo = Nulo
  Documentos <- DosDocumentos
  Correos <- DosCorreos
  Roles <- UnRol
  RolUsuario = r1
  Peticiones <- DosPeticiones
  Previas <- Previa
  Inactivas <- Ninguna
  MaxPersonas = 2
  ConNombre = FALSE
  Fallos = TRUE
SYMMETRY Simetria
VIEW Vista
INVARIANTS
  TypeOKRegistro
  PersonaUnica
  SinRolesConRazon
  EntradaPropia
