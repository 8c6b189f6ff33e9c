\* Two requests at a time, statements that fail or are not answered, restarts.
SPECIFICATION SpecPoliticas
CONSTANTS
  p1 = p1  p2 = p2  r1 = r1  r2 = r2  seccion = seccion  item = item
  Nulo = Nulo
  Todos = Todos
  Roles <- DosRoles
  Objetos <- LosObjetos
  Recursos <- LosRecursos
  Coincide <- CoincideDe
  Administracion = "politicas"
  Perfil = "perfil"
  Politicas <- LasPoliticas
  Semilla <- LaSemilla
  Enviadas <- LasEnviadas
  Modulos <- DosModulos
  Seccion <- SeccionDe
  Url <- UrlDe
  Peticiones <- DosPeticiones
  MaxFilas = 2
  Fallos = TRUE
SYMMETRY Simetria
INVARIANTS
  TypeOKPoliticas
  MemoriaFiel
  NuncaAmbas
PROPERTIES
  CambioCumplido
  NegadaConRazon
  MenuFiel
