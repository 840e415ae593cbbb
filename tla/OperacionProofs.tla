--------------------------- MODULE OperacionProofs ---------------------------
(***************************************************************************)
(* Theorems about the parts of Operacion other than the stock, of which    *)
(* InventarioProofs is: any number of connections, and any files, agents,  *)
(* devices, areas, groups of options and products.  Each part has its      *)
(* inductive invariant; the properties of the run follow at the end.       *)
(***************************************************************************)
EXTENDS Operacion, InventarioProofs

-----------------------------------------------------------------------------
(* Migraciones                                                             *)

\* The next file of a run is the first of those that were missing.
LEMMA PrimeraEs ==
    ASSUME NEW S \in SUBSET Nat, S # {}
    PROVE  Mi!Primera(S) \in S /\ \A n \in S : Mi!Primera(S) <= n
BY PrimeroEs DEF Primero, Mi!Primera

\* Once the runner has taken away the BEGIN and the COMMIT of a file, its text
\* commits nothing by itself.
LEMMA NadaConfirmaSolo == \A f : ~Mi!ConfirmaSolo(f)
<1> SUFFICES ASSUME NEW f PROVE "COMMIT" \notin Mi!ToSet(Mi!Normalizar(Mi!Sentencias(f)))
  BY DEF Mi!ConfirmaSolo
<1>1. CASE f \in ConTransaccion
  <2> DEFINE s == <<"BEGIN", "cambios", "COMMIT">>
             t == <<"cambios", "COMMIT">>
  <2>1. Mi!Sentencias(f) = s
    BY <1>1 DEF Mi!Sentencias
  <2>2. s[1] = "BEGIN" /\ Tail(s) = t
    OBVIOUS
  <2>3. Mi!Last(t) = "COMMIT"
    BY DEF Mi!Last
  <2>4. Mi!Front(t) = <<"cambios">>
    <3> DEFINE Palabras == {"cambios", "COMMIT"}
               u == <<"cambios">>
    <3>1. t \in Seq(Palabras) /\ Len(t) = 2
      OBVIOUS
    <3>2. t[1] = "cambios"
      OBVIOUS
    <3>3. u \in Seq(Palabras) /\ Len(u) = 1
      OBVIOUS
    <3>4. u[1] = "cambios"
      OBVIOUS
    <3>5. Mi!Front(t) = SubSeq(t, 1, 1)
      BY <3>1 DEF Mi!Front
    <3> HIDE DEF t, u, Palabras
    <3>6. \A i \in 1..1 : t[i] \in Palabras
      BY <3>1
    <3>7. SubSeq(t, 1, 1) \in Seq(Palabras) /\ Len(SubSeq(t, 1, 1)) = 1
          /\ SubSeq(t, 1, 1)[1] = t[1]
      BY <3>6, SubSeqProperties
    <3>8. SubSeq(t, 1, 1) = u
      BY <3>2, <3>3, <3>4, <3>7, SeqEqual
    <3> QED
      BY <3>5, <3>8 DEF u
  <2>5. Mi!Normalizar(s) = <<"cambios">>
    BY <2>2, <2>3, <2>4 DEF Mi!Normalizar
  <2> QED
    BY <2>1, <2>5 DEF Mi!ToSet
<1>2. CASE f \notin ConTransaccion
  <2>1. Mi!Sentencias(f) = <<"cambios">>
    BY <1>2 DEF Mi!Sentencias
  <2>2. Mi!Normalizar(<<"cambios">>) = <<"cambios">>
    BY DEF Mi!Normalizar, Mi!Last
  <2> QED
    BY <2>1, <2>2 DEF Mi!ToSet
<1> QED
  BY <1>1, <1>2
Archivo == Mi!ToSet(Archivos)
TipoCorre ==
    [paso : {"fuera", "leer", "sql", "registrar", "commit"}, pend : SUBSET DOMAIN Archivos,
     fila : BOOLEAN]
Toca(t) == Archivos[Mi!Primera(t.pend)]

\* A run holds the row of a file between writing it and its COMMIT, when the
\* row is not there; and every file it does not have ahead is in the table.
CorreBien(t) ==
    /\ t.fila <=> t.paso = "commit"
    /\ t.fila => Toca(t) \notin filas
    /\ t.paso \in {"sql", "registrar", "commit"} =>
          /\ t.pend # {}
          /\ \A n \in DOMAIN Archivos \ t.pend : Archivos[n] \in filas

MiInv ==
    /\ marcadas \subseteq filas /\ filas \subseteq Archivo
    /\ DOMAIN efecto = Archivo
    /\ Mi!AplicadaUnaVez
    /\ Mi!EnOrden
    /\ corre \in [Conexiones -> TipoCorre]
    /\ \A r \in Conexiones : CorreBien(corre[r])
    /\ \A r, s \in Conexiones :
          corre[r].fila /\ corre[s].fila /\ Toca(corre[r]) = Toca(corre[s]) => r = s

\* Nothing has been applied at the start.
LEMMA MiInicio == Mi!Init => MiInv
BY DEF Mi!Init, Mi!Fuera, MiInv, Archivo, TipoCorre, CorreBien, Mi!AplicadaUnaVez, Mi!EnOrden,
       Mi!ToSet

\* The file that a run has next is one of those it has ahead.
LEMMA TocaEs ==
    ASSUME NEW t \in TipoCorre, t.pend # {}
    PROVE  /\ Mi!Primera(t.pend) \in t.pend
           /\ \A n \in t.pend : Mi!Primera(t.pend) <= n
           /\ Mi!Primera(t.pend) \in DOMAIN Archivos
           /\ Toca(t) \in Archivo
<1>1. DOMAIN Archivos \subseteq Nat
  BY MigracionesAssumption
<1>2. t.pend \subseteq DOMAIN Archivos
  BY DEF TipoCorre
<1> QED
  BY <1>1, <1>2, PrimeraEs DEF Toca, Archivo, Mi!ToSet

\* A run goes on without touching the tables.
LEMMA MiCambia ==
    ASSUME MiInv, NEW r \in Conexiones, NEW t \in TipoCorre,
           corre' = [corre EXCEPT ![r] = t], UNCHANGED <<filas, marcadas, efecto>>,
           CorreBien(t),
           \A s \in Conexiones \ {r} : t.fila /\ corre[s].fila => Toca(t) # Toca(corre[s])
    PROVE  MiInv'
<1>1. corre' \in [Conexiones -> TipoCorre]
  BY DEF MiInv
<1>2. \A s \in Conexiones : corre'[s] = IF s = r THEN t ELSE corre[s]
  BY DEF MiInv
<1>3. \A s \in Conexiones : CorreBien(corre[s])'
  BY <1>2 DEF MiInv, CorreBien, Toca
<1>4. Mi!AplicadaUnaVez' /\ Mi!EnOrden'
  BY DEF MiInv, Mi!AplicadaUnaVez, Mi!EnOrden
<1>5. \A s, u \in Conexiones :
          corre'[s].fila /\ corre'[u].fila /\ Toca(corre'[s]) = Toca(corre'[u]) => s = u
  BY <1>2 DEF MiInv
<1> QED
  BY <1>1, <1>3, <1>4, <1>5 DEF MiInv, Toca
\* Starting, or going on to the row of the file.
LEMMA MiPasa ==
    ASSUME MiInv, NEW r \in Conexiones, NEW a \in {"leer", "registrar"},
           Mi!Pasa(r, a), UNCHANGED <<filas, marcadas, efecto>>,
           a = "leer" => corre[r].paso = "fuera", a = "registrar" => corre[r].paso = "sql"
    PROVE  MiInv'
<1> DEFINE t == [corre[r] EXCEPT !.paso = a]
<1>1. corre[r] \in TipoCorre /\ CorreBien(corre[r])
  BY DEF MiInv
<1>2. t \in TipoCorre /\ t.pend = corre[r].pend /\ t.fila = corre[r].fila /\ t.paso = a
  BY <1>1 DEF TipoCorre
<1>3. corre' = [corre EXCEPT ![r] = t]
  BY DEF Mi!Pasa
<1>4. CorreBien(t) /\ ~t.fila
  BY <1>1, <1>2 DEF CorreBien
<1> HIDE DEF t
<1> QED
  BY <1>2, <1>3, <1>4, MiCambia

\* The list of what is missing.
LEMMA MiLee ==
    ASSUME MiInv, NEW r \in Conexiones, Mi!LeerPendientes(r)
    PROVE  MiInv'
<1> DEFINE pend == {n \in DOMAIN Archivos : Archivos[n] \notin filas}
           t == IF pend = {} THEN Mi!Fuera ELSE [paso |-> "sql", pend |-> pend, fila |-> FALSE]
<1>1. corre' = [corre EXCEPT ![r] = t] /\ UNCHANGED <<filas, marcadas, efecto>>
  BY DEF Mi!LeerPendientes
<1>2. t \in TipoCorre /\ ~t.fila /\ CorreBien(t)
  <2>1. CASE pend = {}
    BY <2>1 DEF Mi!Fuera, TipoCorre, CorreBien
  <2>2. CASE pend # {}
    BY <2>2 DEF TipoCorre, CorreBien
  <2> QED
    BY <2>1, <2>2
<1> HIDE DEF t
<1> QED
  BY <1>1, <1>2, MiCambia

\* The row of the file, if nobody has written it.
LEMMA MiRegistra ==
    ASSUME MiInv, NEW r \in Conexiones, Mi!Registrar(r)
    PROVE  MiInv'
<1> DEFINE t == IF Mi!Actual(r) \in filas THEN Mi!Fuera
                ELSE [corre[r] EXCEPT !.fila = TRUE, !.paso = "commit"]
<1>1. corre' = [corre EXCEPT ![r] = t] /\ UNCHANGED <<filas, marcadas, efecto>>
  BY DEF Mi!Registrar
<1>2. /\ corre[r].paso = "registrar" /\ corre[r] \in TipoCorre /\ CorreBien(corre[r])
      /\ ~Mi!FilaEnVilo(Mi!Actual(r))
  BY DEF MiInv, Mi!Registrar
<1>3. CASE Mi!Actual(r) \in filas
  <2>1. t = Mi!Fuera
    BY <1>3
  <2>2. t \in TipoCorre /\ ~t.fila /\ CorreBien(t)
    BY <2>1 DEF Mi!Fuera, TipoCorre, CorreBien
  <2> HIDE DEF t
  <2> QED
    BY <1>1, <2>2, MiCambia
<1>4. CASE Mi!Actual(r) \notin filas
  <2>1. t = [corre[r] EXCEPT !.fila = TRUE, !.paso = "commit"]
    BY <1>4
  <2>2. t \in TipoCorre /\ t.fila /\ t.paso = "commit" /\ t.pend = corre[r].pend
    BY <1>2, <2>1 DEF TipoCorre
  <2> HIDE DEF t
  <2>3. Toca(t) = Mi!Actual(r)
    BY <2>2 DEF Toca, Mi!Actual
  <2>4. CorreBien(t)
    BY <1>2, <1>4, <2>2, <2>3 DEF CorreBien
  <2>5. \A s \in Conexiones : corre[s].fila => Toca(corre[s]) # Mi!Actual(r)
    BY <1>2 DEF Mi!FilaEnVilo, Toca, Mi!Actual
  <2> QED
    BY <1>1, <2>2, <2>3, <2>4, <2>5, MiCambia
<1> QED
  BY <1>3, <1>4

\* The COMMIT: what the file does and its row, at once.
LEMMA MiConfirma ==
    ASSUME MiInv, NEW r \in Conexiones, Mi!Confirmar(r)
    PROVE  MiInv'
<1> DEFINE f == Mi!Actual(r)
           n == Mi!Primera(corre[r].pend)
           pend == corre[r].pend \ {n}
<1>0. PICK t : t = IF pend = {} THEN Mi!Fuera ELSE [paso |-> "sql", pend |-> pend, fila |-> FALSE]
  OBVIOUS
<1>1. /\ corre[r].paso = "commit" /\ corre[r] \in TipoCorre /\ CorreBien(corre[r])
      /\ \A s \in Conexiones : corre[s] \in TipoCorre /\ CorreBien(corre[s])
  BY DEF MiInv, Mi!Confirmar
<1>2. corre[r].fila /\ f \notin filas /\ corre[r].pend # {} /\ f = Toca(corre[r])
  BY <1>1 DEF CorreBien, Toca, Mi!Actual
<1>3. /\ n \in corre[r].pend /\ n \in DOMAIN Archivos /\ f = Archivos[n] /\ f \in Archivo
      /\ \A m \in corre[r].pend : n <= m
  BY <1>1, <1>2, TocaEs DEF Toca
<1>4. /\ corre' = [corre EXCEPT ![r] = t] /\ filas' = filas \cup {f} /\ marcadas' = marcadas
      /\ efecto' = [efecto EXCEPT ![f] = @ + 1]
  BY <1>0, NadaConfirmaSolo DEF Mi!Confirmar
<1>5. ~t.fila /\ t.paso \in {"fuera", "sql"} /\ t \in TipoCorre /\ (t.paso = "sql" => t.pend = pend /\ pend # {})
  <2>1. CASE pend = {}
    BY <1>0, <2>1 DEF Mi!Fuera, TipoCorre
  <2>2. CASE pend # {}
    BY <1>0, <1>1, <2>2 DEF TipoCorre
  <2> QED
    BY <2>1, <2>2
<1>6. corre' \in [Conexiones -> TipoCorre] /\ \A s \in Conexiones : corre'[s] = IF s = r THEN t ELSE corre[s]
  BY <1>4, <1>5 DEF MiInv
<1>7. CorreBien(t)'
  <2>1. \A m \in DOMAIN Archivos \ pend : Archivos[m] \in filas'
    BY <1>1, <1>3, <1>4 DEF CorreBien
  <2> QED
    BY <1>5, <2>1 DEF CorreBien
<1>8. ASSUME NEW s \in Conexiones \ {r}
      PROVE  CorreBien(corre[s])'
  <2>1. corre'[s] = corre[s] /\ CorreBien(corre[s])
    BY <1>1, <1>6
  <2>2. corre[s].fila => Toca(corre[s]) # f
    BY <1>2 DEF MiInv
  <2> QED
    BY <1>4, <2>1, <2>2 DEF CorreBien, Toca
<1>9. Mi!AplicadaUnaVez'
  BY <1>2, <1>3, <1>4 DEF MiInv, Mi!AplicadaUnaVez, Archivo
<1>10. Mi!EnOrden'
  <2> SUFFICES ASSUME NEW k \in DOMAIN Archivos, NEW m \in DOMAIN Archivos,
                      m < k, efecto'[Archivos[k]] > 0
               PROVE  Archivos[m] \in filas'
    BY DEF Mi!EnOrden
  <2>1. CASE Archivos[k] = f
    <3>1. k = n /\ m \in Nat /\ n \in Nat
      BY <1>3, <2>1, MigracionesAssumption
    <3>2. m \notin corre[r].pend
      BY <1>3, <3>1
    <3> QED
      BY <1>1, <1>4, <3>2 DEF CorreBien
  <2>2. CASE Archivos[k] # f
    <3>1. Archivos[k] \in Archivo
      BY DEF Archivo, Mi!ToSet
    <3>2. efecto'[Archivos[k]] = efecto[Archivos[k]]
      BY <1>4, <2>2, <3>1 DEF MiInv
    <3> QED
      BY <1>4, <3>2 DEF MiInv, Mi!EnOrden
  <2> QED
    BY <2>1, <2>2
<1>11. \A s, u \in Conexiones :
          corre'[s].fila /\ corre'[u].fila /\ Toca(corre'[s]) = Toca(corre'[u]) => s = u
  BY <1>5, <1>6 DEF MiInv
<1>12. /\ marcadas' \subseteq filas' /\ filas' \subseteq Archivo
       /\ DOMAIN efecto' = Archivo
  BY <1>3, <1>4 DEF MiInv
<1>13. \A s \in Conexiones : CorreBien(corre[s])'
  BY <1>6, <1>7, <1>8 DEF CorreBien, Toca
<1> QED
  BY <1>6, <1>9, <1>10, <1>11, <1>12, <1>13 DEF MiInv, Toca

\* A file that is marked: nobody is writing its row.
LEMMA MiMarca ==
    ASSUME MiInv, NEW f \in Archivo, Mi!Marcar(f)
    PROVE  MiInv'
<1>1. /\ filas' = filas \cup {f} /\ UNCHANGED <<efecto, corre>>
      /\ marcadas' = IF f \in filas THEN marcadas ELSE marcadas \cup {f}
      /\ \A s \in Conexiones : corre[s].fila => Toca(corre[s]) # f
  BY DEF Mi!Marcar, Mi!FilaEnVilo, Toca, Mi!Actual
<1>2. \A s \in Conexiones : CorreBien(corre[s])'
  BY <1>1 DEF MiInv, CorreBien, Toca
<1>3. filas' \ marcadas' = filas \ marcadas
  BY <1>1 DEF MiInv
<1>4. Mi!AplicadaUnaVez' /\ Mi!EnOrden'
  BY <1>1, <1>3 DEF MiInv, Mi!AplicadaUnaVez, Mi!EnOrden
<1> QED
  BY <1>1, <1>2, <1>4 DEF MiInv, Toca

\* Whatever runs overlap and wherever they stop.
LEMMA MiPaso == MiInv /\ [Mi!Next]_deMigraciones => MiInv'
<1> SUFFICES ASSUME MiInv, [Mi!Next]_deMigraciones PROVE MiInv'
  OBVIOUS
<1>1. CASE UNCHANGED deMigraciones
  BY <1>1 DEF deMigraciones, MiInv, CorreBien, Toca, Mi!AplicadaUnaVez, Mi!EnOrden
<1>2. ASSUME NEW r \in Conexiones, Mi!Arrancar(r)
      PROVE  MiInv'
  BY <1>2, MiPasa DEF Mi!Arrancar
<1>3. ASSUME NEW r \in Conexiones, Mi!EjecutarSql(r)
      PROVE  MiInv'
  BY <1>3, MiPasa, NadaConfirmaSolo DEF Mi!EjecutarSql
<1>4. ASSUME NEW r \in Conexiones, Mi!Fallar(r)
      PROVE  MiInv'
  <2>1. Mi!Fuera \in TipoCorre /\ ~Mi!Fuera.fila /\ CorreBien(Mi!Fuera)
    BY DEF Mi!Fuera, TipoCorre, CorreBien
  <2> QED
    BY <1>4, <2>1, MiCambia DEF Mi!Fallar
<1> QED
  BY <1>1, <1>2, <1>3, <1>4, MiLee, MiRegistra, MiConfirma, MiMarca DEF Mi!Next, Archivo
-----------------------------------------------------------------------------
(* Opciones                                                                *)

Precio == {0} \cup UNION {{d.ofrece[x] : x \in DOMAIN d.ofrece} : d \in Contenidos}
TipoGrupo ==
    [existe : BOOLEAN, activo : BOOLEAN, minimo : Nat, maximo : Nat, articulo : Ligas \cup {FALSE}]
TipoOpcion == [grupo : Grupos \cup {SinGrupo}, activo : BOOLEAN, precio : Precio]
TipoCopia == [id : Opcion, grupo : Grupos \cup {SinGrupo}, precio : Precio]
TipoTomado ==
    [paso : {"nada", "grupos", "validar", "tomado"}, elige : Elecciones \cup {{}},
     limites : SUBSET [grupo : Grupos, minimo : Nat, maximo : Nat], faltan : SUBSET Grupos,
     opciones : SUBSET TipoCopia]

\* What a line has read was in one menu since it read the groups; before it reads
\* the options, the menu of now is one of those.
LeeDeUnMenu(r) ==
    LET t == renglon[r]
    IN /\ t.paso = "grupos" => t.opciones = {} /\ Op!Copia(opciones, Grupos) \in menus[r]
       /\ t.paso \in {"validar", "tomado"} => \E menu \in menus[r] : t.opciones \subseteq menu

OpInv ==
    /\ grupos \in [Grupos -> TipoGrupo]
    /\ opciones \in [Opcion -> TipoOpcion]
    /\ renglon \in [{i1} -> TipoTomado]
    /\ menus \in [{i1} -> SUBSET (SUBSET TipoCopia)]
    /\ Op!GruposSirven
    /\ LeeDeUnMenu(i1)

\* Nobody has taken anything at the start.
LEMMA OpInicio == Op!Init => OpInv
<1> SUFFICES ASSUME Op!Init PROVE OpInv
  OBVIOUS
<1>1. grupos \in [Grupos -> TipoGrupo] /\ opciones \in [Opcion -> TipoOpcion]
  BY DEF Op!Init, Op!NoExiste, TipoGrupo, TipoOpcion, Precio
<1>2. renglon \in [{i1} -> TipoTomado] /\ menus \in [{i1} -> SUBSET (SUBSET TipoCopia)]
  BY DEF Op!Init, Op!Libre, TipoTomado
<1>3. Op!GruposSirven /\ LeeDeUnMenu(i1)
  BY DEF Op!Init, Op!NoExiste, Op!Libre, Op!GruposSirven, LeeDeUnMenu
<1> QED
  BY <1>1, <1>2, <1>3 DEF OpInv

\* A menu is made of copies of options.
LEMMA CopiaTipo ==
    ASSUME NEW o \in [Opcion -> TipoOpcion], NEW gs
    PROVE  Op!Copia(o, gs) \subseteq TipoCopia
BY DEF Op!Copia, Op!Activas, TipoOpcion, TipoCopia

\* A group that is written offers what came, and takes nothing from the others.
LEMMA OpGuarda ==
    ASSUME OpInv, NEW g \in Grupos, NEW d \in Contenidos, NEW si \in Ligas, Op!Guardar(g, d, si)
    PROVE  OpInv'
<1> DEFINE of == Op!Ofrecidas(d)
<1>1. /\ grupos' = [grupos EXCEPT ![g] = [existe |-> TRUE, activo |-> TRUE, minimo |-> d.minimo,
                                          maximo |-> d.maximo, articulo |-> si]]
      /\ opciones' = Op!GuardarHijos(g, d) /\ renglon' = renglon
      /\ menus' = [r \in {i1} |-> IF renglon[r].paso \in {"nada", "tomado"} THEN menus[r]
                                  ELSE menus[r] \cup {Op!Copia(opciones', Grupos)}]
      /\ Op!Valido(d) /\ Op!DeEsteGrupo(g, d)
      /\ repetidos' = IF Op!Repite(d) THEN repetidos \cup {g} ELSE repetidos \ {g}
  BY DEF Op!Guardar
<1>2. d.minimo \in Nat /\ d.maximo \in Nat /\ of \subseteq Opcion
  BY OpcionesAssumption DEF Op!Ofrecidas
<1>3. grupos' \in [Grupos -> TipoGrupo]
  BY <1>1, <1>2 DEF OpInv, TipoGrupo
<1>4. ASSUME NEW x \in Opcion
      PROVE  /\ opciones'[x] = IF x \in of THEN [grupo |-> g, activo |-> TRUE, precio |-> d.ofrece[x]]
                               ELSE IF opciones[x].grupo = g THEN [opciones[x] EXCEPT !.activo = FALSE]
                               ELSE opciones[x]
             /\ opciones'[x] \in TipoOpcion
  <2>1. opciones'[x] = IF x \in of THEN [grupo |-> g, activo |-> TRUE, precio |-> d.ofrece[x]]
                       ELSE IF opciones[x].grupo = g THEN [opciones[x] EXCEPT !.activo = FALSE]
                       ELSE opciones[x]
    BY <1>1 DEF Op!GuardarHijos
  <2>2. opciones[x] \in TipoOpcion
    BY DEF OpInv
  <2>3. CASE x \in of
    <3>1. d.ofrece[x] \in Precio
      BY <2>3 DEF Op!Ofrecidas, Precio
    <3>2. opciones'[x] = [grupo |-> g, activo |-> TRUE, precio |-> d.ofrece[x]]
      BY <2>1, <2>3
    <3> QED
      BY <2>1, <3>1, <3>2 DEF TipoOpcion
  <2>4. CASE x \notin of /\ opciones[x].grupo = g
    <3>1. opciones'[x] = [opciones[x] EXCEPT !.activo = FALSE]
      BY <2>1, <2>4
    <3> QED
      BY <2>1, <2>2, <3>1 DEF TipoOpcion
  <2>5. CASE x \notin of /\ opciones[x].grupo # g
    BY <2>1, <2>2, <2>5
  <2> QED
    BY <2>3, <2>4, <2>5
<1>5. opciones' \in [Opcion -> TipoOpcion]
  BY <1>1, <1>4 DEF Op!GuardarHijos
<1> HIDE DEF of
<1>6. Op!Activas(opciones', {g}) = of
  <2>1. ASSUME NEW x \in of
        PROVE  x \in Opcion /\ opciones'[x].grupo = g /\ opciones'[x].activo
    <3>1. x \in Opcion
      BY <1>2, <2>1
    <3>2. opciones'[x] = [grupo |-> g, activo |-> TRUE, precio |-> d.ofrece[x]]
      BY <1>4, <2>1, <3>1
    <3> QED
      BY <3>1, <3>2
  <2>2. ASSUME NEW x \in Opcion \ of, opciones'[x].grupo = g
        PROVE  ~opciones'[x].activo
    <3>1. opciones[x] \in TipoOpcion
      BY DEF OpInv
    <3>2. CASE opciones[x].grupo = g
      BY <1>4, <3>1, <3>2 DEF TipoOpcion
    <3>3. CASE opciones[x].grupo # g
      BY <1>4, <2>2, <3>3
    <3> QED
      BY <3>2, <3>3
  <2> QED
    BY <2>1, <2>2 DEF Op!Activas
<1>7. ASSUME NEW h \in Grupos \ {g}
      PROVE  Op!Activas(opciones', {h}) = Op!Activas(opciones, {h})
  <2>1. \A x \in of : opciones[x].grupo # h
    BY <1>1, OpcionesAssumption DEF Op!DeEsteGrupo, of
  <2>2. ASSUME NEW x \in Opcion
        PROVE  \/ opciones'[x] = opciones[x]
               \/ opciones'[x].grupo # h /\ opciones[x].grupo # h
    <3>1. opciones[x] \in TipoOpcion
      BY DEF OpInv
    <3>2. CASE x \in of
      <4>1. opciones'[x] = [grupo |-> g, activo |-> TRUE, precio |-> d.ofrece[x]]
        BY <1>4, <3>2
      <4> QED
        BY <2>1, <3>2, <4>1
    <3>3. CASE x \notin of /\ opciones[x].grupo = g
      BY <1>4, <3>1, <3>3 DEF TipoOpcion
    <3>4. CASE x \notin of /\ opciones[x].grupo # g
      BY <1>4, <3>4
    <3> QED
      BY <3>2, <3>3, <3>4
  <2> QED
    BY <2>2 DEF Op!Activas
<1>8. Op!GruposSirven'
  <2> SUFFICES ASSUME NEW h \in Grupos, grupos'[h].activo
               PROVE  /\ grupos'[h].minimo <= grupos'[h].maximo
                      /\ Op!Activas(opciones', {h}) # {}
                      /\ h \notin repetidos' =>
                            grupos'[h].maximo <= Op!Cardinality(Op!Activas(opciones', {h}))
    BY DEF Op!GruposSirven
  <2>1. CASE h = g
    <3>1. d.minimo <= d.maximo /\ of # {} /\ d.maximo <= d.entradas
      BY <1>1 DEF Op!Valido, of
    <3>2. grupos'[h].minimo = d.minimo /\ grupos'[h].maximo = d.maximo
      BY <1>1, <2>1 DEF OpInv
    <3>3. ASSUME h \notin repetidos' PROVE d.maximo <= Op!Cardinality(of)
      <4>1. ~(d.entradas > Op!Cardinality(of))
        BY <1>1, <2>1, <3>3 DEF Op!Repite, of
      <4>2. Op!Cardinality(of) \in Nat
        <5>1. Op!Cardinality(of) = Cardinality(of)
          BY DEF Op!Cardinality, Cardinality
        <5> QED
          BY <1>2, <5>1, OpcionesAssumption, FS_Subset, FS_CardinalityType
      <4>3. d.maximo \in Nat /\ d.entradas \in Nat
        BY OpcionesAssumption
      <4> QED
        BY <3>1, <4>1, <4>2, <4>3
    <3> QED
      BY <1>6, <2>1, <3>1, <3>2, <3>3
  <2>2. CASE h # g
    <3>1. grupos'[h] = grupos[h] /\ grupos[h].activo
      BY <1>1, <2>2 DEF OpInv
    <3>2. Op!Activas(opciones', {h}) = Op!Activas(opciones, {h})
      BY <1>7, <2>2
    <3>3. h \notin repetidos' => h \notin repetidos
      BY <1>1, <2>2
    <3> QED
      BY <3>1, <3>2, <3>3 DEF Op!GruposSirven, OpInv
  <2> QED
    BY <2>1, <2>2
<1>9. Op!Copia(opciones', Grupos) \in SUBSET TipoCopia
  BY <1>5, CopiaTipo
<1>10. menus' \in [{i1} -> SUBSET (SUBSET TipoCopia)]
  BY <1>1, <1>9 DEF OpInv
<1>11. LeeDeUnMenu(i1)'
  <2>1. menus'[i1] = IF renglon[i1].paso \in {"nada", "tomado"} THEN menus[i1]
                     ELSE menus[i1] \cup {Op!Copia(opciones', Grupos)}
    BY <1>1
  <2> QED
    BY <1>1, <2>1 DEF OpInv, LeeDeUnMenu
<1> QED
  BY <1>1, <1>3, <1>5, <1>8, <1>10, <1>11 DEF OpInv
\* A group that is taken off the menu is offered no more.
LEMMA OpDesactiva ==
    ASSUME OpInv, NEW g \in Grupos, Op!Desactivar(g)
    PROVE  OpInv'
<1>1. /\ grupos' = [grupos EXCEPT ![g].activo = FALSE]
      /\ opciones' = opciones /\ renglon' = renglon /\ menus' = menus /\ repetidos' = repetidos
  BY DEF Op!Desactivar
<1>2. grupos' \in [Grupos -> TipoGrupo]
  BY <1>1 DEF OpInv, TipoGrupo
<1>3. \A h \in Grupos : grupos'[h].activo => h # g /\ grupos'[h] = grupos[h]
  BY <1>1 DEF OpInv, TipoGrupo
<1>4. Op!GruposSirven'
  BY <1>1, <1>3 DEF OpInv, Op!GruposSirven
<1>5. LeeDeUnMenu(i1)'
  BY <1>1 DEF OpInv, LeeDeUnMenu
<1> QED
  BY <1>1, <1>2, <1>4, <1>5 DEF OpInv

\* A line goes on while the catalogue stays.
LEMMA OpCambia ==
    ASSUME OpInv, NEW r \in {i1}, NEW t \in TipoTomado, NEW m \in SUBSET (SUBSET TipoCopia),
           renglon' = [renglon EXCEPT ![r] = t], menus' = [menus EXCEPT ![r] = m],
           UNCHANGED <<grupos, opciones, repetidos>>,
           t.paso = "grupos" => t.opciones = {} /\ Op!Copia(opciones, Grupos) \in m,
           t.paso \in {"validar", "tomado"} => \E menu \in m : t.opciones \subseteq menu
    PROVE  OpInv'
<1>1. r = i1
  OBVIOUS
<1>2. renglon' \in [{i1} -> TipoTomado] /\ renglon'[i1] = t
  BY <1>1 DEF OpInv
<1>3. menus' \in [{i1} -> SUBSET (SUBSET TipoCopia)] /\ menus'[i1] = m
  BY <1>1 DEF OpInv
<1>4. LeeDeUnMenu(i1)'
  BY <1>2, <1>3 DEF LeeDeUnMenu
<1>5. Op!GruposSirven'
  BY DEF OpInv, Op!GruposSirven
<1> QED
  BY <1>2, <1>3, <1>4, <1>5 DEF OpInv

\* The groups are read: the menu of this moment is the first of those the line
\* may take from.
LEMMA OpLeeGrupos ==
    ASSUME OpInv, NEW r \in {i1}, NEW e \in Elecciones, Op!LeerGrupos(r, e)
    PROVE  OpInv'
<1> DEFINE gs == {g \in Grupos : grupos[g].activo /\ grupos[g].articulo}
           ls == {[grupo |-> g, minimo |-> grupos[g].minimo, maximo |-> grupos[g].maximo] : g \in gs}
           t == [Op!Libre EXCEPT !.paso = "grupos", !.elige = e, !.faltan = gs, !.limites = ls]
<1>1. /\ renglon' = [renglon EXCEPT ![r] = t] /\ UNCHANGED <<grupos, opciones, repetidos>>
      /\ menus' = [menus EXCEPT ![r] = {Op!Copia(opciones, Grupos)}]
  BY DEF Op!LeerGrupos
<1>2. ls \in SUBSET [grupo : Grupos, minimo : Nat, maximo : Nat]
  <2>1. \A g \in gs : grupos[g].minimo \in Nat /\ grupos[g].maximo \in Nat
    BY DEF OpInv, TipoGrupo
  <2> QED
    BY <2>1
<1>3. gs \in SUBSET Grupos
  OBVIOUS
<1> HIDE DEF gs, ls
<1>4. Op!Libre \in TipoTomado /\ Op!Libre.opciones = {}
  BY DEF Op!Libre, TipoTomado
<1>5. t \in TipoTomado /\ t.paso = "grupos" /\ t.opciones = {}
  BY <1>2, <1>3, <1>4 DEF TipoTomado
<1>6. {Op!Copia(opciones, Grupos)} \in SUBSET (SUBSET TipoCopia)
  BY CopiaTipo DEF OpInv
<1> HIDE DEF t
<1> QED
  BY <1>1, <1>5, <1>6, OpCambia

\* The options are read at once, and are of the menu of this moment.
LEMMA OpLeeOpciones ==
    ASSUME OpInv, NEW r \in {i1}, Op!LeerOpciones(r)
    PROVE  OpInv'
<1> DEFINE gs == renglon[r].faltan
           t == [renglon[r] EXCEPT !.faltan = {}, !.opciones = Op!Copia(opciones, gs), !.paso = "validar"]
<1>1. renglon[r] \in TipoTomado /\ renglon[r].paso = "grupos" /\ renglon[r].opciones = {}
      /\ Op!Copia(opciones, Grupos) \in menus[r]
  BY DEF OpInv, Op!LeerOpciones, LeeDeUnMenu
<1>2. renglon' = [renglon EXCEPT ![r].faltan = @ \ gs, ![r].opciones = @ \cup Op!Copia(opciones, gs),
                     ![r].paso = IF renglon[r].faltan \ gs = {} THEN "validar" ELSE @]
      /\ UNCHANGED <<grupos, opciones, menus, repetidos>>
  BY DEF Op!LeerOpciones, Op!Lecturas
<1>3. renglon[r].opciones \cup Op!Copia(opciones, gs) = Op!Copia(opciones, gs) /\ gs \ gs = {}
  BY <1>1
<1>4. renglon' = [renglon EXCEPT ![r] = t]
  BY <1>1, <1>2, <1>3 DEF OpInv, TipoTomado
<1>5. gs \subseteq Grupos /\ Op!Copia(opciones, gs) \subseteq TipoCopia
      /\ Op!Copia(opciones, gs) \subseteq Op!Copia(opciones, Grupos)
  <2>1. gs \subseteq Grupos
    BY <1>1 DEF TipoTomado
  <2>2. Op!Copia(opciones, gs) \subseteq Op!Copia(opciones, Grupos)
    BY <2>1 DEF Op!Copia, Op!Activas
  <2> QED
    BY <2>1, <2>2, CopiaTipo DEF OpInv
<1>6. t \in TipoTomado /\ t.paso = "validar" /\ t.opciones = Op!Copia(opciones, gs)
  BY <1>1, <1>5 DEF TipoTomado
<1>7. menus' = [menus EXCEPT ![r] = menus[r]] /\ menus[r] \in SUBSET (SUBSET TipoCopia)
  BY <1>2 DEF OpInv
<1>8. \E menu \in menus[r] : t.opciones \subseteq menu
  BY <1>1, <1>5, <1>6
<1>9. UNCHANGED <<grupos, opciones, repetidos>>
  BY <1>2
<1> HIDE DEF t, gs
<1>10. t.paso # "grupos"
  BY <1>6
<1> QED
  BY <1>4, <1>6, <1>7, <1>8, <1>9, <1>10, OpCambia

\* The line keeps what was chosen, or begins again.
LEMMA OpToma ==
    ASSUME OpInv, NEW r \in {i1}, Op!Tomar(r)
    PROVE  OpInv'
<1> DEFINE t == renglon[r]
           elegidas == {o \in t.opciones : o.id \in t.elige}
           u == [t EXCEPT !.paso = "tomado", !.opciones = elegidas]
<1>1. /\ t.paso = "validar" /\ UNCHANGED <<grupos, opciones, repetidos>>
      /\ renglon' = [renglon EXCEPT ![r] = IF Op!Seleccionable(t) THEN u ELSE Op!Libre]
      /\ menus' = IF Op!Seleccionable(t) THEN menus ELSE [menus EXCEPT ![r] = {}]
  BY DEF Op!Tomar
<1>2. t \in TipoTomado
  BY DEF OpInv
<1>3. menus = [menus EXCEPT ![r] = menus[r]] /\ menus[r] \in SUBSET (SUBSET TipoCopia)
  BY DEF OpInv
<1>4. u \in TipoTomado /\ u.paso = "tomado" /\ u.opciones = elegidas /\ elegidas \subseteq t.opciones
  BY <1>2 DEF TipoTomado
<1>5. \E menu \in menus[r] : t.opciones \subseteq menu
  BY <1>1 DEF OpInv, LeeDeUnMenu
<1>6. Op!Libre \in TipoTomado /\ Op!Libre.paso = "nada"
  BY DEF Op!Libre, TipoTomado
<1> HIDE DEF u, elegidas
<1>7. CASE Op!Seleccionable(t)
  <2>1. renglon' = [renglon EXCEPT ![r] = u] /\ menus' = [menus EXCEPT ![r] = menus[r]]
    BY <1>1, <1>3, <1>7
  <2>2. \E menu \in menus[r] : u.opciones \subseteq menu
    BY <1>4, <1>5
  <2>3. /\ u.paso = "grupos" => u.opciones = {} /\ Op!Copia(opciones, Grupos) \in menus[r]
        /\ u.paso \in {"validar", "tomado"} => \E menu \in menus[r] : u.opciones \subseteq menu
    BY <1>4, <2>2
  <2>4. u \in TipoTomado /\ menus[r] \in SUBSET (SUBSET TipoCopia) /\ UNCHANGED <<grupos, opciones, repetidos>>
    BY <1>1, <1>3, <1>4
  <2> QED
    BY <2>1, <2>3, <2>4, OpCambia
<1>8. CASE ~Op!Seleccionable(t)
  <2>1. renglon' = [renglon EXCEPT ![r] = Op!Libre] /\ menus' = [menus EXCEPT ![r] = {}]
    BY <1>1, <1>8
  <2>2. {} \in SUBSET (SUBSET TipoCopia) /\ UNCHANGED <<grupos, opciones, repetidos>>
    BY <1>1
  <2>3. Op!Libre.paso \notin {"grupos", "validar", "tomado"}
    BY <1>6
  <2> QED
    BY <1>6, <2>1, <2>2, <2>3, OpCambia
<1> QED
  BY <1>7, <1>8

\* Whatever edits fall between the two reads of an order.
LEMMA OpPaso == OpInv /\ [Op!Next]_deOpciones => OpInv'
<1> SUFFICES ASSUME OpInv, [Op!Next]_deOpciones PROVE OpInv'
  OBVIOUS
<1>1. CASE UNCHANGED deOpciones
  BY <1>1 DEF deOpciones, OpInv, LeeDeUnMenu, Op!GruposSirven
<1>2. CASE Op!Next
  BY <1>2, OpGuarda, OpDesactiva, OpLeeGrupos, OpLeeOpciones, OpToma
     DEF Op!Next, Op!Crear, Op!Actualizar
<1> QED
  BY <1>1, <1>2

\* What is offered can be chosen, and a line is of one menu.
LEMMA OpCumple == OpInv => Op!GruposSirven /\ Op!TomadoDeUnMenu
BY DEF OpInv, LeeDeUnMenu, Op!TomadoDeUnMenu
-----------------------------------------------------------------------------
(* Canjes                                                                  *)

TipoEquipo ==
    [existe : BOOLEAN, activo : BOOLEAN, token : BOOLEAN, codigo : Nat, vigente : BOOLEAN]
TipoAcepta == [paso : {"fuera", "invitar", "clave"}, enlace : Nat]
Usados == {i \in DOMAIN enlaces : enlaces[i]}

\* A code is in one row at most and in none once it was accepted, and a device
\* that was revoked has none.
CodigosBien ==
    /\ equipo \in [Cj!Equipos -> TipoEquipo]
    /\ emitidos \in 0..MaxCodigos
    /\ canjeados \in [1..MaxCodigos -> Nat]
    /\ \A e \in Cj!Equipos : equipo[e].codigo <= emitidos
    /\ \A e, f \in Cj!Equipos : equipo[e].codigo = equipo[f].codigo /\ equipo[e].codigo # 0 => e = f
    /\ \A k \in 1..MaxCodigos :
          /\ canjeados[k] <= 1
          /\ canjeados[k] # 0 => k <= emitidos /\ \A e \in Cj!Equipos : equipo[e].codigo # k
    /\ \A e \in Dispositivos : ~equipo[e].activo => ~equipo[e].token /\ equipo[e].codigo = 0
    /\ \A c \in Conexiones : canje[c].paso = "fila" =>
          canje[c].fila \in Cj!Equipos /\ canje[c].codigo \in 1..MaxCodigos

\* A link that is being accepted is there, not used, and one request has it.
EnlacesBien ==
    /\ emitidos \in 0..MaxCodigos
    /\ DOMAIN enlaces \subseteq 1..emitidos
    /\ enlaces \in [DOMAIN enlaces -> BOOLEAN]
    /\ usuario \in [activo : BOOLEAN, claves : Nat]
    /\ acepta \in [Conexiones -> TipoAcepta]
    /\ \A c \in Conexiones : acepta[c].paso = "clave" => acepta[c].enlace \in DOMAIN enlaces \ Usados
    /\ \A c, o \in Conexiones :
          acepta[c].paso = "clave" /\ acepta[o].paso = "clave" /\ acepta[c].enlace = acepta[o].enlace
          => c = o
    /\ usuario.claves = Cardinality(Usados)

CjInv ==
    /\ canje \in [Conexiones -> [paso : {"fuera", "fila"}, codigo : Nat,
                                 fila : Cj!Equipos \cup {Cj!Libre.fila}]]
    /\ CodigosBien
    /\ EnlacesBien

\* How many is the same to the instance of Canjes as it is outside.
LEMMA CjCuenta == \A S : Cj!Cardinality(S) = Cardinality(S)
BY Zenon DEF Cardinality, Cj!Cardinality

\* Nothing has been handed out at the start.
LEMMA CjInicio == Cj!Init => CjInv
<1> SUFFICES ASSUME Cj!Init PROVE CjInv
  OBVIOUS
<1>1. Usados = {} /\ DOMAIN enlaces = {} /\ Cardinality(Usados) = 0
  BY FS_EmptySet DEF Cj!Init, Usados
<1>2. CodigosBien
  <2>1. Cj!Sin \in TipoEquipo /\ Cj!Sin.codigo = 0 /\ ~Cj!Sin.token /\ Cj!Libre.paso = "fuera"
    BY DEF Cj!Sin, TipoEquipo, Cj!Libre
  <2>2. /\ equipo = [e \in Cj!Equipos |-> Cj!Sin] /\ canje = [c \in Conexiones |-> Cj!Libre]
        /\ emitidos = 0 /\ canjeados = [k \in 1..MaxCodigos |-> 0]
    BY DEF Cj!Init
  <2>3. Dispositivos \subseteq Cj!Equipos
    BY DEF Cj!Equipos
  <2> QED
    BY <2>1, <2>2, <2>3, CanjesAssumption DEF CodigosBien
<1>3. EnlacesBien
  BY <1>1, CanjesAssumption DEF Cj!Init, EnlacesBien, TipoAcepta
<1>4. canje \in [Conexiones -> [paso : {"fuera", "fila"}, codigo : Nat,
                                fila : Cj!Equipos \cup {Cj!Libre.fila}]]
  BY DEF Cj!Init, Cj!Libre
<1> QED
  BY <1>2, <1>3, <1>4 DEF CjInv

\* A row of a device or an agent changes: it keeps the code it had, has none,
\* or has the one that is handed out with it.
LEMMA CjEscribe ==
    ASSUME CodigosBien, NEW e \in Cj!Equipos, NEW f \in TipoEquipo,
           equipo' = [equipo EXCEPT ![e] = f], canje' = canje, canjeados' = canjeados,
           emitidos' \in 0..MaxCodigos, emitidos <= emitidos',
           \/ f.codigo = equipo[e].codigo \/ f.codigo = 0
           \/ f.codigo = emitidos' /\ emitidos < emitidos',
           e \in Dispositivos /\ ~f.activo => ~f.token /\ f.codigo = 0
    PROVE  CodigosBien'
<1>1. \A g \in Cj!Equipos : equipo'[g] = IF g = e THEN f ELSE equipo[g]
  BY DEF CodigosBien
<1>2. equipo' \in [Cj!Equipos -> TipoEquipo]
  BY DEF CodigosBien
<1>3. emitidos \in Nat /\ emitidos' \in 0..MaxCodigos
  BY CanjesAssumption DEF CodigosBien
<1>4. \A g \in Cj!Equipos : equipo[g].codigo \in Nat /\ equipo[g].codigo <= emitidos
  BY DEF CodigosBien, TipoEquipo
<1>5. f.codigo \in Nat
  BY DEF TipoEquipo
<1>6. \A g \in Cj!Equipos : equipo'[g].codigo <= emitidos'
  BY <1>1, <1>3, <1>4, <1>5
<1>7. \A g, h \in Cj!Equipos : equipo'[g].codigo = equipo'[h].codigo /\ equipo'[g].codigo # 0 => g = h
  BY <1>1, <1>3, <1>4, <1>5 DEF CodigosBien
<1>8. ASSUME NEW k \in 1..MaxCodigos
      PROVE  /\ canjeados'[k] <= 1
             /\ canjeados'[k] # 0 => k <= emitidos' /\ \A g \in Cj!Equipos : equipo'[g].codigo # k
  <2>1. /\ canjeados[k] <= 1
        /\ canjeados[k] # 0 => k <= emitidos /\ \A g \in Cj!Equipos : equipo[g].codigo # k
    BY DEF CodigosBien
  <2>2. canjeados' = canjeados /\ k \in Nat /\ k # 0
    BY CanjesAssumption
  <2>3. canjeados[k] # 0 => f.codigo # k
    BY <1>3, <1>5, <2>1, <2>2
  <2> QED
    BY <1>1, <1>3, <2>1, <2>2, <2>3
<1>9. \A g \in Dispositivos : ~equipo'[g].activo => ~equipo'[g].token /\ equipo'[g].codigo = 0
  BY <1>1 DEF CodigosBien, Cj!Equipos
<1>10. \A c \in Conexiones : canje'[c].paso = "fila" =>
          canje'[c].fila \in Cj!Equipos /\ canje'[c].codigo \in 1..MaxCodigos
  BY DEF CodigosBien
<1>11. canjeados' \in [1..MaxCodigos -> Nat]
  BY DEF CodigosBien
<1> HIDE DEF CodigosBien
<1> QED
  BY <1>2, <1>3, <1>6, <1>7, <1>8, <1>9, <1>10, <1>11 DEF CodigosBien

\* A code is redeemed by whoever finds it still in its row.
LEMMA CjCanjea ==
    ASSUME CodigosBien, NEW c \in Conexiones, Cj!Canjear(c)
    PROVE  CodigosBien'
<1> DEFINE e == canje[c].fila
           k == canje[c].codigo
<1>1. /\ canje[c].paso = "fila" /\ canje' = [canje EXCEPT ![c] = Cj!Libre] /\ emitidos' = emitidos
      /\ e \in Cj!Equipos /\ k \in 1..MaxCodigos /\ k \in Nat /\ k # 0
  BY CanjesAssumption DEF Cj!Canjear, CodigosBien
<1>2. Cj!Libre.paso = "fuera"
  BY DEF Cj!Libre
<1>3. \A o \in Conexiones : canje'[o].paso = "fila" =>
          canje'[o].fila \in Cj!Equipos /\ canje'[o].codigo \in 1..MaxCodigos
  BY <1>1, <1>2 DEF CodigosBien
<1>4. CASE UNCHANGED <<equipo, canjeados>>
  BY <1>1, <1>3, <1>4 DEF CodigosBien
<1>5. CASE /\ Cj!SigueSirviendo(e, k)
           /\ equipo' = [equipo EXCEPT ![e].token = TRUE, ![e].codigo = 0, ![e].vigente = FALSE]
           /\ canjeados' = [canjeados EXCEPT ![k] = @ + 1]
  <2> DEFINE f == [equipo[e] EXCEPT !.token = TRUE, !.codigo = 0, !.vigente = FALSE]
  <2>1. equipo[e] \in TipoEquipo /\ equipo[e].codigo = k /\ equipo[e].activo
    BY <1>1, <1>5 DEF CodigosBien, Cj!SigueSirviendo
  <2>2. equipo' = [equipo EXCEPT ![e] = f]
    BY <1>1, <1>5 DEF CodigosBien
  <2>3. f \in TipoEquipo /\ f.codigo = 0 /\ f.activo
    BY <2>1 DEF TipoEquipo
  <2> HIDE DEF f
  <2>4. equipo' \in [Cj!Equipos -> TipoEquipo]
        /\ \A g \in Cj!Equipos : equipo'[g] = IF g = e THEN f ELSE equipo[g]
    BY <2>2, <2>3 DEF CodigosBien
  <2>5. k <= emitidos /\ emitidos \in Nat /\ \A g \in Cj!Equipos : equipo[g].codigo \in Nat
    BY <1>1, <2>1, CanjesAssumption DEF CodigosBien, TipoEquipo
  <2>6. \A g \in Cj!Equipos \ {e} : equipo[g].codigo # k
    BY <1>1, <2>1 DEF CodigosBien
  <2>7. canjeados[k] = 0
    BY <1>1, <2>1 DEF CodigosBien
  <2>8. canjeados' \in [1..MaxCodigos -> Nat]
        /\ \A j \in 1..MaxCodigos : canjeados'[j] = IF j = k THEN 1 ELSE canjeados[j]
    BY <1>1, <1>5, <2>7 DEF CodigosBien
  <2>9. ASSUME NEW j \in 1..MaxCodigos
        PROVE  /\ canjeados'[j] <= 1
               /\ canjeados'[j] # 0 => j <= emitidos' /\ \A g \in Cj!Equipos : equipo'[g].codigo # j
    <3>1. CASE j = k
      BY <1>1, <2>3, <2>4, <2>5, <2>6, <2>8, <3>1
    <3>2. CASE j # k
      <4>1. canjeados'[j] = canjeados[j] /\ j # 0
        BY <2>8, <3>2, CanjesAssumption
      <4> QED
        BY <1>1, <2>3, <2>4, <4>1 DEF CodigosBien
    <3> QED
      BY <3>1, <3>2
  <2>10. \A g \in Cj!Equipos : equipo'[g].codigo <= emitidos'
    BY <1>1, <2>3, <2>4, <2>5 DEF CodigosBien
  <2>11. \A g, h \in Cj!Equipos : equipo'[g].codigo = equipo'[h].codigo /\ equipo'[g].codigo # 0 => g = h
    BY <2>3, <2>4 DEF CodigosBien
  <2>12. \A g \in Dispositivos : ~equipo'[g].activo => ~equipo'[g].token /\ equipo'[g].codigo = 0
    BY <2>3, <2>4 DEF CodigosBien, Cj!Equipos
  <2>13. emitidos' \in 0..MaxCodigos
    BY <1>1 DEF CodigosBien
  <2> QED
    BY <1>3, <2>4, <2>8, <2>9, <2>10, <2>11, <2>12, <2>13 DEF CodigosBien
<1> QED
  BY <1>4, <1>5 DEF Cj!Canjear
\* A link that is used was there and nobody else has it.
LEMMA CjPoneClave ==
    ASSUME EnlacesBien, NEW c \in Conexiones, Cj!PonerClave(c)
    PROVE  EnlacesBien'
<1> DEFINE i == acepta[c].enlace
           a == [acepta[c] EXCEPT !.paso = "fuera"]
<1>1. /\ acepta[c].paso = "clave" /\ acepta[c] \in TipoAcepta /\ emitidos' = emitidos
      /\ acepta' = [acepta EXCEPT ![c] = a] /\ i \in DOMAIN enlaces \ Usados
  BY DEF Cj!PonerClave, EnlacesBien
<1>2. a \in TipoAcepta /\ a.paso = "fuera"
  BY <1>1 DEF TipoAcepta
<1> HIDE DEF a
<1>3. acepta' \in [Conexiones -> TipoAcepta]
      /\ \A o \in Conexiones : acepta'[o] = IF o = c THEN a ELSE acepta[o]
  BY <1>1, <1>2 DEF EnlacesBien
<1>4. CASE UNCHANGED <<enlaces, usuario>>
  <2>1. Usados' = Usados
    BY <1>4 DEF Usados
  <2> QED
    BY <1>1, <1>2, <1>3, <1>4, <2>1 DEF EnlacesBien
<1>5. CASE enlaces' = [enlaces EXCEPT ![i] = TRUE] /\ usuario' = [usuario EXCEPT !.claves = @ + 1]
  <2>1. /\ DOMAIN enlaces' = DOMAIN enlaces /\ enlaces' \in [DOMAIN enlaces -> BOOLEAN]
        /\ \A j \in DOMAIN enlaces : enlaces'[j] = IF j = i THEN TRUE ELSE enlaces[j]
    BY <1>5 DEF EnlacesBien
  <2>2. Usados' = Usados \cup {i} /\ i \notin Usados
    BY <1>1, <2>1 DEF Usados
  <2>3. IsFiniteSet(Usados)
    <3>1. emitidos \in Int /\ Usados \subseteq 1..emitidos
      BY CanjesAssumption DEF EnlacesBien, Usados
    <3>2. IsFiniteSet(1..emitidos)
      BY <3>1, FS_Interval
    <3> QED
      BY <3>1, <3>2, FS_Subset
  <2>4. Cardinality(Usados') = Cardinality(Usados) + 1
    BY <2>2, <2>3, FS_AddElement
  <2>5. usuario' \in [activo : BOOLEAN, claves : Nat] /\ usuario'.claves = usuario.claves + 1
    BY <1>5 DEF EnlacesBien
  <2>6. \A o \in Conexiones : acepta'[o].paso = "clave" =>
            o # c /\ acepta'[o] = acepta[o] /\ acepta[o].enlace # i
    BY <1>1, <1>2, <1>3 DEF EnlacesBien
  <2>7. \A o \in Conexiones : acepta'[o].paso = "clave" => acepta'[o].enlace \in DOMAIN enlaces' \ Usados'
    BY <2>1, <2>2, <2>6 DEF EnlacesBien
  <2>8. \A o, u \in Conexiones :
          acepta'[o].paso = "clave" /\ acepta'[u].paso = "clave" /\ acepta'[o].enlace = acepta'[u].enlace
          => o = u
    BY <2>6 DEF EnlacesBien
  <2>9. usuario'.claves = Cardinality(Usados')
    BY <2>4, <2>5 DEF EnlacesBien
  <2>10. emitidos' \in 0..MaxCodigos /\ DOMAIN enlaces' \subseteq 1..emitidos'
    BY <1>1, <2>1 DEF EnlacesBien
  <2> QED
    BY <1>3, <2>1, <2>5, <2>7, <2>8, <2>9, <2>10 DEF EnlacesBien
<1> QED
  BY <1>4, <1>5 DEF Cj!PonerClave

\* A request goes on with the links, whose used ones stay; those in somebody's
\* hands stay too.
LEMMA CjEnlaza ==
    ASSUME EnlacesBien, NEW c \in Conexiones, NEW a \in TipoAcepta,
           acepta' = [acepta EXCEPT ![c] = a], usuario' = usuario,
           emitidos' \in 0..MaxCodigos, DOMAIN enlaces' \subseteq 1..emitidos',
           enlaces' \in [DOMAIN enlaces' -> BOOLEAN], Usados' = Usados,
           \A o \in Conexiones \ {c} : acepta[o].paso = "clave" =>
               acepta[o].enlace \in DOMAIN enlaces' /\ (a.paso = "clave" => a.enlace # acepta[o].enlace),
           a.paso = "clave" => a.enlace \in DOMAIN enlaces' \ Usados
    PROVE  EnlacesBien'
<1>1. acepta' \in [Conexiones -> TipoAcepta]
      /\ \A o \in Conexiones : acepta'[o] = IF o = c THEN a ELSE acepta[o]
  BY DEF EnlacesBien
<1>2. \A o \in Conexiones : acepta'[o].paso = "clave" => acepta'[o].enlace \in DOMAIN enlaces' \ Usados'
  BY <1>1 DEF EnlacesBien
<1>3. \A o, u \in Conexiones :
        acepta'[o].paso = "clave" /\ acepta'[u].paso = "clave" /\ acepta'[o].enlace = acepta'[u].enlace
        => o = u
  BY <1>1 DEF EnlacesBien
<1>4. usuario' \in [activo : BOOLEAN, claves : Nat] /\ usuario'.claves = Cardinality(Usados')
  BY DEF EnlacesBien
<1> QED
  BY <1>1, <1>2, <1>3, <1>4 DEF EnlacesBien

\* The links that are deleted are in nobody's hands; the new one is nobody's yet.
LEMMA CjPasoEnlace ==
    ASSUME EnlacesBien, NEW c \in Conexiones,
           \/ Cj!BorrarPendientes(c) \/ Cj!Invitar(c) \/ Cj!Caer(c)
           \/ \E i \in 1..emitidos : Cj!TomarEnlace(c, i)
    PROVE  EnlacesBien'
<1>1. acepta[c] \in TipoAcepta /\ emitidos \in 0..MaxCodigos
  BY DEF EnlacesBien
<1>2. CASE Cj!BorrarPendientes(c)
  <2> DEFINE a == [acepta[c] EXCEPT !.paso = "invitar"]
  <2>1. /\ acepta' = [acepta EXCEPT ![c] = a] /\ UNCHANGED <<usuario, emitidos>>
        /\ enlaces' = [i \in DOMAIN enlaces \ Cj!Pendientes |-> enlaces[i]]
        /\ \A i \in Cj!Pendientes : ~Cj!Tomado(i)
    BY <1>2 DEF Cj!BorrarPendientes, EnlacesBien
  <2>2. a \in TipoAcepta /\ a.paso = "invitar"
    BY <1>1 DEF TipoAcepta
  <2>3. DOMAIN enlaces' = DOMAIN enlaces \ Cj!Pendientes /\ Usados' = Usados
    BY <2>1 DEF Usados, Cj!Pendientes
  <2>4. \A o \in Conexiones : acepta[o].paso # "clave"
    BY <2>1 DEF EnlacesBien, Cj!Tomado, Cj!Pendientes, Usados
  <2>5. DOMAIN enlaces' \subseteq 1..emitidos' /\ enlaces' \in [DOMAIN enlaces' -> BOOLEAN]
    BY <2>1, <2>3 DEF EnlacesBien
  <2> HIDE DEF a
  <2> QED
    BY <1>1, <2>1, <2>2, <2>3, <2>4, <2>5, CjEnlaza
<1>3. CASE Cj!Invitar(c)
  <2> DEFINE a == [acepta[c] EXCEPT !.paso = "fuera"]
             n == emitidos + 1
  <2>1. /\ acepta' = [acepta EXCEPT ![c] = a] /\ usuario' = usuario /\ emitidos' = n
        /\ emitidos < MaxCodigos /\ n \in 1..MaxCodigos
        /\ enlaces' = [i \in DOMAIN enlaces \cup {n} |-> i # n /\ enlaces[i]]
    BY <1>1, <1>3, CanjesAssumption DEF Cj!Invitar, EnlacesBien
  <2>2. a \in TipoAcepta /\ a.paso = "fuera"
    BY <1>1 DEF TipoAcepta
  <2>3. n \notin DOMAIN enlaces /\ n \in Nat /\ DOMAIN enlaces \subseteq 1..n
    BY <1>1, CanjesAssumption DEF EnlacesBien
  <2> HIDE DEF n
  <2>4. DOMAIN enlaces' = DOMAIN enlaces \cup {n} /\ \A i \in DOMAIN enlaces' : enlaces'[i] \in BOOLEAN
    BY <2>1
  <2>5. ASSUME NEW i \in DOMAIN enlaces
        PROVE  enlaces'[i] <=> enlaces[i]
    BY <2>1, <2>3
  <2>6. ~enlaces'[n]
    BY <2>1
  <2>7. Usados' = Usados
    BY <2>3, <2>4, <2>5, <2>6 DEF Usados
  <2>8. n \in 1..n
    BY <2>1, CanjesAssumption
  <2>9. DOMAIN enlaces' \subseteq 1..emitidos' /\ enlaces' \in [DOMAIN enlaces' -> BOOLEAN]
    BY <2>1, <2>3, <2>4, <2>8
  <2>10. emitidos' \in 0..MaxCodigos
    BY <2>1, CanjesAssumption
  <2>11. \A o \in Conexiones : acepta[o].paso = "clave" => acepta[o].enlace \in DOMAIN enlaces'
    BY <2>4 DEF EnlacesBien
  <2> HIDE DEF a
  <2> QED
    BY <2>1, <2>2, <2>7, <2>9, <2>10, <2>11, CjEnlaza
<1>4. CASE Cj!Caer(c)
  <2> DEFINE a == [acepta[c] EXCEPT !.paso = "fuera"]
  <2>1. acepta' = [acepta EXCEPT ![c] = a] /\ UNCHANGED <<usuario, emitidos, enlaces>>
    BY <1>4 DEF Cj!Caer, EnlacesBien
  <2>2. a \in TipoAcepta /\ a.paso = "fuera"
    BY <1>1 DEF TipoAcepta
  <2>3. Usados' = Usados
    BY <2>1 DEF Usados
  <2>4. /\ DOMAIN enlaces' \subseteq 1..emitidos' /\ enlaces' \in [DOMAIN enlaces' -> BOOLEAN]
        /\ \A o \in Conexiones : acepta[o].paso = "clave" => acepta[o].enlace \in DOMAIN enlaces'
    BY <2>1 DEF EnlacesBien
  <2> HIDE DEF a
  <2> QED
    BY <1>1, <2>1, <2>2, <2>3, <2>4, CjEnlaza
<1>5. ASSUME NEW i \in 1..emitidos, Cj!TomarEnlace(c, i)
      PROVE  EnlacesBien'
  <2> DEFINE a == [paso |-> "clave", enlace |-> i]
  <2>1. acepta' = [acepta EXCEPT ![c] = a] /\ UNCHANGED <<usuario, emitidos, enlaces>>
        /\ i \in Cj!Pendientes /\ ~Cj!Tomado(i)
    BY <1>5 DEF Cj!TomarEnlace
  <2>2. a \in TipoAcepta /\ a.paso = "clave" /\ a.enlace = i
    BY <1>1, CanjesAssumption DEF TipoAcepta
  <2>3. Usados' = Usados /\ i \in DOMAIN enlaces \ Usados
    BY <2>1 DEF Usados, Cj!Pendientes
  <2>4. /\ DOMAIN enlaces' \subseteq 1..emitidos' /\ enlaces' \in [DOMAIN enlaces' -> BOOLEAN]
        /\ \A o \in Conexiones : acepta[o].paso = "clave" =>
              acepta[o].enlace \in DOMAIN enlaces' /\ acepta[o].enlace # i
    BY <2>1 DEF EnlacesBien, Cj!Tomado
  <2> HIDE DEF a
  <2>5. /\ acepta' = [acepta EXCEPT ![c] = a] /\ usuario' = usuario
        /\ emitidos' \in 0..MaxCodigos /\ Usados' = Usados
    BY <1>1, <2>1, <2>3
  <2>6. \A o \in Conexiones \ {c} : acepta[o].paso = "clave" =>
          acepta[o].enlace \in DOMAIN enlaces' /\ (a.paso = "clave" => a.enlace # acepta[o].enlace)
    BY <2>2, <2>4
  <2>7. a.paso = "clave" => a.enlace \in DOMAIN enlaces' \ Usados
    BY <2>1, <2>2, <2>3
  <2> QED
    BY <2>2, <2>4, <2>5, <2>6, <2>7, CjEnlaza
<1> QED
  BY <1>2, <1>3, <1>4, <1>5

\* A step that leaves the links alone; emitidos may grow.
LEMMA CjSinEnlaces ==
    ASSUME EnlacesBien, UNCHANGED <<enlaces, acepta>>, emitidos' \in 0..MaxCodigos,
           emitidos <= emitidos', usuario' \in [activo : BOOLEAN, claves : Nat],
           usuario'.claves = usuario.claves
    PROVE  EnlacesBien'
<1>1. Usados' = Usados
  BY DEF Usados
<1>2. DOMAIN enlaces' \subseteq 1..emitidos'
  BY CanjesAssumption DEF EnlacesBien
<1> QED
  BY <1>1, <1>2 DEF EnlacesBien

\* A step that leaves the codes alone; emitidos may grow.
LEMMA CjSinCodigos ==
    ASSUME CodigosBien, UNCHANGED <<equipo, canje, canjeados>>, emitidos' \in 0..MaxCodigos,
           emitidos <= emitidos'
    PROVE  CodigosBien'
<1>1. emitidos \in Nat /\ emitidos' \in Nat /\ \A e \in Cj!Equipos : equipo[e].codigo \in Nat
  BY CanjesAssumption DEF CodigosBien, TipoEquipo
<1>2. \A e \in Cj!Equipos : equipo[e].codigo <= emitidos'
  BY <1>1 DEF CodigosBien
<1>3. \A k \in 1..MaxCodigos : canjeados[k] # 0 => k <= emitidos'
  BY <1>1, CanjesAssumption DEF CodigosBien
<1> QED
  BY <1>2, <1>3 DEF CodigosBien
\* A row that changes while the links stay.
LEMMA CjPasoEquipo ==
    ASSUME CjInv, NEW e \in Cj!Equipos,
           \/ Cj!CrearAgente(e) \/ Cj!CrearDispositivo(e) \/ Cj!NuevoCodigo(e) \/ Cj!Vencer(e)
           \/ Cj!EliminarAgente(e) \/ Cj!Revocar(e)
           \/ \E si \in BOOLEAN : Cj!ActivarAgente(e, si)
    PROVE  CodigosBien' /\ UNCHANGED <<canje, enlaces, usuario, acepta>>
           /\ emitidos' \in 0..MaxCodigos /\ emitidos <= emitidos'
<1>1. /\ CodigosBien /\ equipo[e] \in TipoEquipo /\ equipo \in [Cj!Equipos -> TipoEquipo]
      /\ emitidos \in 0..MaxCodigos /\ emitidos \in Nat /\ MaxCodigos \in Nat
      /\ (e \in Dispositivos /\ ~equipo[e].activo => ~equipo[e].token /\ equipo[e].codigo = 0)
  BY CanjesAssumption DEF CjInv, CodigosBien
<1>2. Cj!Sin \in TipoEquipo
  BY DEF Cj!Sin, TipoEquipo
<1> USE DEF Cj!deEnlaces
<1>3. CASE Cj!CrearAgente(e)
  <2> DEFINE f == [Cj!Sin EXCEPT !.existe = TRUE, !.activo = TRUE, !.token = TRUE]
  <2>1. f \in TipoEquipo /\ f.codigo = 0 /\ f.activo
    BY DEF Cj!Sin, TipoEquipo
  <2>2. /\ equipo' = [equipo EXCEPT ![e] = f] /\ emitidos' \in 0..MaxCodigos /\ emitidos <= emitidos'
        /\ UNCHANGED <<canje, canjeados, enlaces, usuario, acepta>>
    BY <1>1, <1>3 DEF Cj!CrearAgente
  <2> HIDE DEF f
  <2> QED
    BY <1>1, <2>1, <2>2, CjEscribe
<1>4. CASE Cj!CrearDispositivo(e)
  <2> DEFINE f == [existe |-> TRUE, activo |-> TRUE, token |-> FALSE, codigo |-> emitidos + 1,
                   vigente |-> TRUE]
  <2>1. f \in TipoEquipo /\ f.codigo = emitidos + 1 /\ f.activo
    BY <1>1 DEF TipoEquipo
  <2>2. /\ equipo' = [equipo EXCEPT ![e] = f] /\ emitidos' = emitidos + 1 /\ emitidos' \in 0..MaxCodigos /\ emitidos < emitidos' /\ emitidos <= emitidos'
        /\ UNCHANGED <<canje, canjeados, enlaces, usuario, acepta>>
    BY <1>1, <1>4 DEF Cj!CrearDispositivo
  <2> HIDE DEF f
  <2> QED
    BY <1>1, <2>1, <2>2, CjEscribe
<1>5. CASE Cj!NuevoCodigo(e)
  <2>1. PICK n \in 0..MaxCodigos : n = emitidos + 1 /\ emitidos' = n
    BY <1>1, <1>5 DEF Cj!NuevoCodigo
  <2> DEFINE f == [equipo[e] EXCEPT !.codigo = n, !.vigente = TRUE]
  <2>2. equipo[e].activo /\ UNCHANGED <<canje, canjeados, enlaces, usuario, acepta>>
        /\ equipo' = [equipo EXCEPT ![e].codigo = n, ![e].vigente = TRUE]
    BY <1>5, <2>1 DEF Cj!NuevoCodigo
  <2>3. n \in Nat /\ emitidos < n /\ emitidos <= n
    BY <1>1, <2>1
  <2>4. equipo' = [equipo EXCEPT ![e] = f]
    BY <1>1, <2>2
  <2>5. f \in TipoEquipo /\ f.codigo = n /\ f.activo
    BY <1>1, <2>2, <2>3 DEF TipoEquipo
  <2> HIDE DEF f
  <2> QED
    BY <1>1, <2>1, <2>2, <2>3, <2>4, <2>5, CjEscribe
<1>6. CASE Cj!Vencer(e)
  <2> DEFINE f == [equipo[e] EXCEPT !.vigente = FALSE]
  <2>1. /\ f \in TipoEquipo /\ f.codigo = equipo[e].codigo
        /\ (e \in Dispositivos /\ ~f.activo => ~f.token /\ f.codigo = 0)
    BY <1>1 DEF TipoEquipo
  <2>2. /\ equipo' = [equipo EXCEPT ![e] = f] /\ emitidos' \in 0..MaxCodigos /\ emitidos <= emitidos'
        /\ UNCHANGED <<canje, canjeados, enlaces, usuario, acepta>>
    BY <1>1, <1>6 DEF Cj!Vencer
  <2> HIDE DEF f
  <2> QED
    BY <1>1, <2>1, <2>2, CjEscribe
<1>7. CASE Cj!EliminarAgente(e)
  <2>1. Cj!Sin.codigo = 0 /\ ~Cj!Sin.token
    BY DEF Cj!Sin
  <2>2. /\ equipo' = [equipo EXCEPT ![e] = Cj!Sin] /\ emitidos' \in 0..MaxCodigos /\ emitidos <= emitidos'
        /\ UNCHANGED <<canje, canjeados, enlaces, usuario, acepta>>
    BY <1>1, <1>7 DEF Cj!EliminarAgente
  <2> QED
    BY <1>1, <1>2, <2>1, <2>2, CjEscribe
<1>8. CASE Cj!Revocar(e)
  <2> DEFINE f == [Cj!Sin EXCEPT !.existe = TRUE]
  <2>1. f \in TipoEquipo /\ f.codigo = 0 /\ ~f.token
    BY DEF Cj!Sin, TipoEquipo
  <2>2. /\ equipo' = [equipo EXCEPT ![e] = f] /\ emitidos' \in 0..MaxCodigos /\ emitidos <= emitidos'
        /\ UNCHANGED <<canje, canjeados, enlaces, usuario, acepta>>
    BY <1>1, <1>8 DEF Cj!Revocar
  <2> HIDE DEF f
  <2> QED
    BY <1>1, <2>1, <2>2, CjEscribe
<1>9. ASSUME NEW si \in BOOLEAN, Cj!ActivarAgente(e, si)
      PROVE  CodigosBien' /\ UNCHANGED <<canje, enlaces, usuario, acepta>>
             /\ emitidos' \in 0..MaxCodigos /\ emitidos <= emitidos'
  <2> DEFINE f == [equipo[e] EXCEPT !.activo = si]
  <2>1. f \in TipoEquipo /\ f.codigo = equipo[e].codigo /\ e \notin Dispositivos
    BY <1>1, <1>9, CanjesAssumption DEF TipoEquipo, Cj!ActivarAgente
  <2>2. /\ equipo' = [equipo EXCEPT ![e] = f] /\ emitidos' \in 0..MaxCodigos /\ emitidos <= emitidos'
        /\ UNCHANGED <<canje, canjeados, enlaces, usuario, acepta>>
    BY <1>1, <1>9 DEF Cj!ActivarAgente
  <2> HIDE DEF f
  <2> QED
    BY <1>1, <2>1, <2>2, CjEscribe
<1> QED
  BY <1>3, <1>4, <1>5, <1>6, <1>7, <1>8, <1>9

\* Whoever hands out, replaces, redeems, revokes, invites or falls, in any order.
LEMMA CjPaso == CjInv /\ [Cj!Next]_deCanjes => CjInv'
<1> SUFFICES ASSUME CjInv, [Cj!Next]_deCanjes PROVE CjInv'
  OBVIOUS
<1> DEFINE TipoCanje == [paso : {"fuera", "fila"}, codigo : Nat, fila : Cj!Equipos \cup {Cj!Libre.fila}]
<1>1. /\ CodigosBien /\ EnlacesBien /\ canje \in [Conexiones -> TipoCanje]
      /\ emitidos \in 0..MaxCodigos /\ emitidos \in Nat /\ MaxCodigos \in Nat
      /\ usuario \in [activo : BOOLEAN, claves : Nat]
  BY CanjesAssumption DEF CjInv, CodigosBien, EnlacesBien
<1>2. emitidos <= emitidos
  BY <1>1
<1>3. CASE UNCHANGED deCanjes
  <2>1. CodigosBien' /\ EnlacesBien'
    BY <1>1, <1>2, <1>3, CjSinCodigos, CjSinEnlaces DEF deCanjes
  <2> QED
    BY <1>1, <1>3, <2>1 DEF CjInv, deCanjes
<1>4. ASSUME NEW e \in Cj!Equipos,
             \/ Cj!CrearAgente(e) \/ Cj!CrearDispositivo(e) \/ Cj!NuevoCodigo(e) \/ Cj!Vencer(e)
             \/ Cj!EliminarAgente(e) \/ Cj!Revocar(e)
             \/ \E si \in BOOLEAN : Cj!ActivarAgente(e, si)
      PROVE  CjInv'
  <2>1. CodigosBien' /\ UNCHANGED <<canje, enlaces, usuario, acepta>>
        /\ emitidos' \in 0..MaxCodigos /\ emitidos <= emitidos'
    BY <1>4, CjPasoEquipo
  <2>2. EnlacesBien'
    BY <1>1, <2>1, CjSinEnlaces
  <2> QED
    BY <1>1, <2>1, <2>2 DEF CjInv
<1>5. ASSUME NEW si \in BOOLEAN, Cj!SuspenderEmpresa(si) \/ Cj!ActivarUsuario(si)
      PROVE  CjInv'
  <2>1. /\ UNCHANGED <<equipo, canje, canjeados, emitidos, enlaces, acepta>>
        /\ usuario' \in [activo : BOOLEAN, claves : Nat] /\ usuario'.claves = usuario.claves
    BY <1>1, <1>5 DEF Cj!SuspenderEmpresa, Cj!ActivarUsuario, Cj!deEnlaces, Cj!deCodigos
  <2>2. CodigosBien' /\ EnlacesBien'
    BY <1>1, <1>2, <2>1, CjSinCodigos, CjSinEnlaces
  <2> QED
    BY <1>1, <2>1, <2>2 DEF CjInv
<1>6. ASSUME NEW c \in Conexiones, NEW k \in 1..emitidos, Cj!Buscar(c, k)
      PROVE  CjInv'
  <2>1. PICK e \in Cj!Equipos : canje' = [canje EXCEPT ![c] = [paso |-> "fila", codigo |-> k, fila |-> e]]
    BY <1>6 DEF Cj!Buscar
  <2>2. UNCHANGED <<equipo, emitidos, canjeados, enlaces, usuario, acepta>>
    BY <1>6 DEF Cj!Buscar, Cj!deEnlaces
  <2>3. k \in Nat /\ k \in 1..MaxCodigos
    BY <1>1
  <2>4. canje' \in [Conexiones -> TipoCanje]
    BY <1>1, <2>1, <2>3
  <2>5. \A o \in Conexiones : canje'[o].paso = "fila" =>
          canje'[o].fila \in Cj!Equipos /\ canje'[o].codigo \in 1..MaxCodigos
    BY <1>1, <2>1, <2>3 DEF CodigosBien
  <2>6. CodigosBien'
    BY <1>1, <2>2, <2>5 DEF CodigosBien
  <2>7. EnlacesBien'
    BY <1>1, <1>2, <2>2, CjSinEnlaces
  <2> QED
    BY <2>4, <2>6, <2>7 DEF CjInv
<1>7. ASSUME NEW c \in Conexiones, Cj!Canjear(c)
      PROVE  CjInv'
  <2>1. UNCHANGED <<emitidos, enlaces, usuario, acepta>> /\ canje' = [canje EXCEPT ![c] = Cj!Libre]
    BY <1>7 DEF Cj!Canjear, Cj!deEnlaces
  <2>2. Cj!Libre \in TipoCanje
    BY DEF Cj!Libre
  <2>3. CodigosBien' /\ EnlacesBien'
    BY <1>1, <1>2, <1>7, <2>1, CjCanjea, CjSinEnlaces
  <2> QED
    BY <1>1, <2>1, <2>2, <2>3 DEF CjInv
<1>8. ASSUME NEW c \in Conexiones,
             \/ Cj!BorrarPendientes(c) \/ Cj!Invitar(c) \/ Cj!Caer(c)
             \/ \E i \in 1..emitidos : Cj!TomarEnlace(c, i)
      PROVE  CjInv'
  <2>1. EnlacesBien'
    BY <1>1, <1>8, CjPasoEnlace
  <2>2. /\ UNCHANGED <<equipo, canje, canjeados>> /\ emitidos' \in 0..MaxCodigos /\ emitidos <= emitidos'
    BY <1>1, <1>8 DEF Cj!BorrarPendientes, Cj!Invitar, Cj!Caer, Cj!TomarEnlace, Cj!deCodigos
  <2>3. CodigosBien'
    BY <1>1, <2>2, CjSinCodigos
  <2> QED
    BY <1>1, <2>1, <2>2, <2>3 DEF CjInv
<1>9. ASSUME NEW c \in Conexiones, Cj!PonerClave(c)
      PROVE  CjInv'
  <2>1. UNCHANGED <<equipo, canje, canjeados, emitidos>>
    BY <1>9 DEF Cj!PonerClave, Cj!deCodigos
  <2>2. CodigosBien' /\ EnlacesBien'
    BY <1>1, <1>2, <1>9, <2>1, CjPoneClave, CjSinCodigos
  <2> QED
    BY <1>1, <2>1, <2>2 DEF CjInv
<1>10. CASE Cj!Next
  BY <1>4, <1>5, <1>6, <1>7, <1>8, <1>9, <1>10 DEF Cj!Next
<1> QED
  BY <1>3, <1>10

\* A code is good once, and a link for one password.
LEMMA CjCumple == CjInv => Cj!CanjeUnico
BY CjCuenta DEF CjInv, CodigosBien, EnlacesBien, Usados, Cj!CanjeUnico
-----------------------------------------------------------------------------
(* Areas                                                                   *)

TipoArea == [existe : BOOLEAN, activo : BOOLEAN, porDefecto : BOOLEAN]
TipoMias == UNION {[S -> TipoArea] : S \in SUBSET Ids}
TipoCambio ==
    [paso : {"fuera", "sembrar", "buscar", "quitar", "escribir", "commit"}, id : Ids, alta : BOOLEAN,
     elegir : BOOLEAN, activo : {"igual", "si", "no"}, actual : TipoArea, mias : TipoMias,
     quitar : SUBSET Ids]

\* A change holds its row, which is as it was read, unless it is a new one; and
\* no other row unless it is to be the default.
PideBien(t) ==
    /\ \A j \in DOMAIN t.mias : t.mias[j].existe \/ ~t.mias[j].porDefecto
    /\ t.paso \in {"buscar", "quitar", "escribir", "commit"} =>
          /\ ~t.alta => t.id \in DOMAIN t.mias /\ areas[t.id] = t.actual /\ ~Ar!SeRechaza(t)
          /\ ~t.elegir => t.paso \notin {"buscar", "quitar"} /\ DOMAIN t.mias \subseteq {t.id}
    /\ t.paso = "commit" =>
          /\ t.id \in DOMAIN t.mias /\ t.mias[t.id] = Ar!Nueva(t)
          /\ t.alta => ~areas[t.id].existe

\* Once it has written a default, there is no other, written or on its way.
Elige(t) == t.paso = "commit" /\ t.mias[t.id].porDefecto
SinOtra(t) ==
    \A j \in Ids \ {t.id} : ~(IF j \in DOMAIN t.mias THEN t.mias[j] ELSE areas[j]).porDefecto
SinElegida(t) == \A j \in DOMAIN t.mias : ~t.mias[j].porDefecto
Aparte(t, u) == DOMAIN t.mias \cap DOMAIN u.mias = {}

ArInv ==
    /\ areas \in [Ids -> TipoArea]
    /\ \A i \in Ids : areas[i].existe \/ ~areas[i].porDefecto
    /\ txArea \in [Conexiones -> TipoCambio]
    /\ \A c \in Conexiones : PideBien(txArea[c]) /\ (Elige(txArea[c]) => SinOtra(txArea[c]))
    /\ \A c \in Conexiones : \A o \in Conexiones \ {c} :
          Aparte(txArea[c], txArea[o]) /\ (Elige(txArea[c]) => SinElegida(txArea[o]))

\* What is written of the rows a connection holds.
LEMMA EscribirEs ==
    ASSUME NEW m \in TipoMias, NEW i \in Ids, NEW f \in TipoArea
    PROVE  /\ Ar!Escribir(m, i, f) \in TipoMias
           /\ DOMAIN Ar!Escribir(m, i, f) = DOMAIN m \cup {i}
           /\ Ar!Escribir(m, i, f)[i] = f
           /\ \A j \in DOMAIN m \ {i} : Ar!Escribir(m, i, f)[j] = m[j]
<1>1. PICK S \in SUBSET Ids : m \in [S -> TipoArea]
  BY DEF TipoMias
<1>2. Ar!Escribir(m, i, f) \in [S \cup {i} -> TipoArea]
  BY <1>1 DEF Ar!Escribir
<1> QED
  BY <1>1, <1>2 DEF TipoMias, Ar!Escribir

\* The rows a connection holds are rows.
LEMMA MiasSon ==
    ASSUME NEW m \in TipoMias
    PROVE  DOMAIN m \subseteq Ids /\ \A j \in DOMAIN m : m[j] \in TipoArea
BY DEF TipoMias

\* The row that is to be saved.
LEMMA NuevaEs ==
    ASSUME NEW t \in TipoCambio
    PROVE  /\ Ar!Nueva(t) \in TipoArea /\ Ar!Nueva(t).existe
           /\ Ar!Nueva(t).activo <=> (t.alta \/ Ar!QuedaActiva(t))
           /\ Ar!Nueva(t).porDefecto <=> (t.elegir \/ (~t.alta /\ t.actual.porDefecto))
BY DEF Ar!Nueva, Ar!QuedaActiva, TipoCambio, TipoArea

\* A connection at rest holds nothing.
LEMMA FueraEs ==
    /\ Ar!Fuera \in TipoCambio /\ Ar!Fuera.paso = "fuera" /\ Ar!Fuera.mias = Ar!SinCambios
    /\ Ar!SinCambios \in TipoMias /\ DOMAIN Ar!SinCambios = {}
<1>1. Ar!Ninguna \in TipoArea
  BY DEF Ar!Ninguna, TipoArea
<1>2. Ar!SinCambios \in [{} -> TipoArea] /\ DOMAIN Ar!SinCambios = {}
  BY DEF Ar!SinCambios
<1>3. Ar!SinCambios \in TipoMias
  BY <1>2 DEF TipoMias
<1>4. Cocina \in Ids
  BY AreasAssumption
<1> QED
  BY <1>1, <1>2, <1>3, <1>4 DEF Ar!Fuera, TipoCambio

\* There are no areas at the start.
LEMMA ArInicio == Ar!Init => ArInv
<1> SUFFICES ASSUME Ar!Init PROVE ArInv
  OBVIOUS
<1>1. Ar!Ninguna \in TipoArea /\ ~Ar!Ninguna.porDefecto
  BY DEF Ar!Ninguna, TipoArea
<1>2. areas \in [Ids -> TipoArea] /\ \A i \in Ids : areas[i].existe \/ ~areas[i].porDefecto
  BY <1>1 DEF Ar!Init
<1>3. txArea \in [Conexiones -> TipoCambio] /\ \A c \in Conexiones : txArea[c] = Ar!Fuera
  BY FueraEs DEF Ar!Init
<1>4. PideBien(Ar!Fuera) /\ ~Elige(Ar!Fuera) /\ Aparte(Ar!Fuera, Ar!Fuera)
  BY FueraEs DEF PideBien, Elige, Aparte
<1> QED
  BY <1>2, <1>3, <1>4 DEF ArInv

\* A connection goes on and nothing is committed.
LEMMA ArCambia ==
    ASSUME ArInv, NEW c \in Conexiones, NEW t \in TipoCambio,
           txArea' = [txArea EXCEPT ![c] = t], areas' = areas,
           PideBien(t), Elige(t) => SinOtra(t),
           \A o \in Conexiones \ {c} :
              /\ Aparte(t, txArea[o])
              /\ Elige(t) => SinElegida(txArea[o])
              /\ Elige(txArea[o]) => SinElegida(t)
    PROVE  ArInv'
<1>1. txArea' \in [Conexiones -> TipoCambio]
      /\ \A o \in Conexiones : txArea'[o] = IF o = c THEN t ELSE txArea[o]
  BY DEF ArInv
<1>2. areas' \in [Ids -> TipoArea] /\ \A i \in Ids : areas'[i].existe \/ ~areas'[i].porDefecto
  BY DEF ArInv
<1>3. ASSUME NEW o \in Conexiones
      PROVE  PideBien(txArea[o])' /\ (Elige(txArea[o]) => SinOtra(txArea[o]))'
  <2>1. CASE o = c
    BY <1>1, <2>1 DEF PideBien, Elige, SinOtra
  <2>2. CASE o # c
    <3>1. PideBien(txArea[o]) /\ (Elige(txArea[o]) => SinOtra(txArea[o])) /\ txArea'[o] = txArea[o]
      BY <1>1, <2>2 DEF ArInv
    <3> QED
      BY <3>1 DEF PideBien, Elige, SinOtra
  <2> QED
    BY <2>1, <2>2
<1>4. ASSUME NEW o \in Conexiones, NEW u \in Conexiones \ {o}
      PROVE  (Aparte(txArea[o], txArea[u]) /\ (Elige(txArea[o]) => SinElegida(txArea[u])))'
  <2>1. CASE o = c
    BY <1>1, <2>1 DEF Aparte, Elige, SinElegida
  <2>2. CASE u = c
    <3>1. Aparte(t, txArea[o]) /\ (Elige(txArea[o]) => SinElegida(t))
      BY <2>2
    <3>2. txArea'[o] = txArea[o] /\ txArea'[u] = t
      BY <1>1, <2>2
    <3> QED
      BY <3>1, <3>2 DEF Aparte, Elige, SinElegida
  <2>3. CASE o # c /\ u # c
    <3>1. Aparte(txArea[o], txArea[u]) /\ (Elige(txArea[o]) => SinElegida(txArea[u]))
      BY DEF ArInv
    <3>2. txArea'[o] = txArea[o] /\ txArea'[u] = txArea[u]
      BY <1>1, <2>3
    <3> QED
      BY <3>1, <3>2 DEF Aparte, Elige, SinElegida
  <2> QED
    BY <2>1, <2>2, <2>3
<1> HIDE DEF ArInv
<1> QED
  BY <1>1, <1>2, <1>3, <1>4 DEF ArInv
\* A connection that holds nothing: at rest, about to seed, or with an area that
\* is not there yet.
LEMMA ArSuelta ==
    ASSUME ArInv, NEW c \in Conexiones, NEW t \in TipoCambio,
           txArea' = [txArea EXCEPT ![c] = t], areas' = areas, DOMAIN t.mias = {},
           \/ t.paso \in {"fuera", "sembrar"}
           \/ t.alta /\ (t.paso = "escribir" \/ (t.paso = "buscar" /\ t.elegir))
    PROVE  ArInv'
<1>1. PideBien(t) /\ ~Elige(t)
  BY DEF PideBien, Elige
<1>2. \A o \in Conexiones : Aparte(t, txArea[o]) /\ SinElegida(t)
  BY DEF Aparte, SinElegida
<1> QED
  BY <1>1, <1>2, ArCambia

\* The lock of a row that nobody holds, and its copy.
LEMMA ArActualiza ==
    ASSUME ArInv, NEW c \in Conexiones, NEW i \in Ids, NEW elegir \in BOOLEAN,
           NEW activo \in {"igual", "si", "no"}, Ar!Actualizar(c, i, elegir, activo)
    PROVE  ArInv'
<1> DEFINE m == Ar!Escribir(Ar!SinCambios, i, areas[i])
           sig == IF elegir /\ ~areas[i].porDefecto THEN "buscar" ELSE "escribir"
           t == [Ar!Fuera EXCEPT !.id = i, !.elegir = elegir, !.activo = activo, !.actual = areas[i],
                                 !.paso = sig, !.mias = m]
<1>1. areas[i] \in TipoArea
  BY DEF ArInv
<1>2. m \in TipoMias /\ DOMAIN m = {i} /\ m[i] = areas[i]
  <2>1. Ar!SinCambios \in TipoMias /\ DOMAIN Ar!SinCambios = {}
    BY FueraEs
  <2>2. m \in TipoMias
    BY <1>1, <2>1, EscribirEs
  <2>3. DOMAIN m = DOMAIN Ar!SinCambios \cup {i}
    BY DEF Ar!Escribir
  <2>4. m[i] = areas[i]
    BY DEF Ar!Escribir
  <2> HIDE DEF m
  <2> QED
    BY <2>1, <2>2, <2>3, <2>4
<1>3. /\ txArea' = [txArea EXCEPT ![c] = t] /\ areas' = areas
      /\ areas[i].existe /\ ~Ar!Bloqueada(i, c) /\ ~Ar!SeRechaza(t)
  BY FueraEs DEF Ar!Actualizar
<1> HIDE DEF m
<1>4. /\ sig \in {"buscar", "escribir"} /\ (sig = "buscar" => elegir)
  OBVIOUS
<1> HIDE DEF sig
<1>5. /\ t \in TipoCambio /\ t.id = i /\ t.elegir = elegir /\ t.actual = areas[i] /\ t.paso = sig
      /\ t.mias = m /\ t.alta = FALSE
  <2>1. Ar!Fuera.alta = FALSE
    BY DEF Ar!Fuera
  <2> QED
    BY <1>1, <1>2, <1>4, <2>1, FueraEs DEF TipoCambio
<1> HIDE DEF t
<1>6. PideBien(t) /\ ~Elige(t)
  BY <1>2, <1>3, <1>4, <1>5 DEF PideBien, Elige
<1>7. ASSUME NEW o \in Conexiones \ {c}
      PROVE  Aparte(t, txArea[o]) /\ (Elige(txArea[o]) => SinElegida(t))
  <2>1. i \notin DOMAIN txArea[o].mias
    BY <1>3 DEF Ar!Bloqueada
  <2>2. Aparte(t, txArea[o])
    BY <1>2, <1>5, <2>1 DEF Aparte
  <2>3. ASSUME Elige(txArea[o])
        PROVE  SinElegida(t)
    <3>1. SinOtra(txArea[o]) /\ txArea[o].id \in DOMAIN txArea[o].mias
      BY <2>3 DEF ArInv, PideBien, Elige
    <3>2. ~areas[i].porDefecto
      BY <2>1, <3>1 DEF SinOtra
    <3> QED
      BY <1>2, <1>5, <3>2 DEF SinElegida
  <2> QED
    BY <2>2, <2>3
<1> QED
  BY <1>3, <1>5, <1>6, <1>7, ArCambia

\* What a statement that changes neither its rows nor the order keeps.
LEMMA ArSigue ==
    ASSUME ArInv, NEW c \in Conexiones, NEW a \in {"quitar", "escribir"}, NEW q \in SUBSET Ids,
           txArea[c].paso \in {"buscar", "quitar"}, areas' = areas,
           txArea' = [txArea EXCEPT ![c] = [txArea[c] EXCEPT !.paso = a, !.quitar = q]]
    PROVE  ArInv'
<1> DEFINE t == [txArea[c] EXCEPT !.paso = a, !.quitar = q]
<1>1. txArea[c] \in TipoCambio /\ PideBien(txArea[c]) /\ txArea' = [txArea EXCEPT ![c] = t]
  BY DEF ArInv
<1>2. /\ t \in TipoCambio /\ t.paso = a /\ t.mias = txArea[c].mias /\ t.alta = txArea[c].alta
      /\ t.id = txArea[c].id /\ t.elegir = txArea[c].elegir /\ t.actual = txArea[c].actual
      /\ t.activo = txArea[c].activo
  BY <1>1 DEF TipoCambio
<1> HIDE DEF t
<1>3. Ar!SeRechaza(t) <=> Ar!SeRechaza(txArea[c])
  BY <1>2 DEF Ar!SeRechaza, Ar!QuedaActiva
<1>4. PideBien(t) /\ ~Elige(t)
  BY <1>1, <1>2, <1>3 DEF PideBien, Elige
<1>5. \A o \in Conexiones \ {c} : Aparte(t, txArea[o]) /\ (Elige(txArea[o]) => SinElegida(t))
  BY <1>2 DEF ArInv, Aparte, SinElegida
<1> QED
  BY <1>1, <1>2, <1>4, <1>5, ArCambia

\* The default is taken off a row that nobody else holds.
LEMMA ArQuita ==
    ASSUME ArInv, NEW c \in Conexiones, Ar!Quitar(c)
    PROVE  ArInv'
<1> DEFINE t == txArea[c]
<1>1. t.paso = "quitar" /\ areas' = areas /\ t \in TipoCambio /\ PideBien(t)
  BY DEF Ar!Quitar, ArInv
<1>2. CASE t.quitar = {} /\ txArea' = [txArea EXCEPT ![c].paso = "escribir"]
  <2>1. txArea' = [txArea EXCEPT ![c] = [txArea[c] EXCEPT !.paso = "escribir", !.quitar = {}]]
    BY <1>1, <1>2 DEF ArInv, TipoCambio
  <2>2. {} \in SUBSET Ids /\ txArea[c].paso \in {"buscar", "quitar"}
    BY <1>1
  <2>3. "escribir" \in {"quitar", "escribir"}
    OBVIOUS
  <2> QED
    BY <1>1, <2>1, <2>2, <2>3, ArSigue
<1>3. ASSUME NEW i \in t.quitar, ~Ar!Bloqueada(i, c),
             txArea' = [txArea EXCEPT ![c].quitar = @ \ {i},
                    ![c].mias = IF Ar!Ve(c, i).porDefecto
                                THEN Ar!Escribir(@, i, [Ar!Ve(c, i) EXCEPT !.porDefecto = FALSE]) ELSE @]
      PROVE  ArInv'
  <2> DEFINE f == [Ar!Ve(c, i) EXCEPT !.porDefecto = FALSE]
             m == Ar!Escribir(t.mias, i, f)
             q == t.quitar \ {i}
             u == [t EXCEPT !.quitar = q, !.mias = m]
  <2>1. t.mias \in TipoMias /\ i \in Ids /\ q \in SUBSET Ids
    BY <1>1 DEF TipoCambio
  <2>2. CASE ~Ar!Ve(c, i).porDefecto
    <3>1. txArea' = [txArea EXCEPT ![c] = [txArea[c] EXCEPT !.paso = "quitar", !.quitar = q]]
      BY <1>1, <1>3, <2>2 DEF ArInv, TipoCambio
    <3> QED
      BY <1>1, <2>1, <3>1, ArSigue
  <2>3. CASE Ar!Ve(c, i).porDefecto
    <3>1. Ar!Ve(c, i) \in TipoArea
      BY <2>1, MiasSon DEF Ar!Ve, ArInv
    <3>2. f \in TipoArea /\ ~f.porDefecto
      BY <3>1 DEF TipoArea
    <3> HIDE DEF f
    <3>3. m \in TipoMias /\ DOMAIN m = DOMAIN t.mias \cup {i}
          /\ m[i] = f /\ \A j \in DOMAIN t.mias \ {i} : m[j] = t.mias[j]
      <4>1. m \in TipoMias
        BY <2>1, <3>2, EscribirEs
      <4>2. DOMAIN m = DOMAIN t.mias \cup {i}
        BY DEF Ar!Escribir
      <4>3. m[i] = f
        BY DEF Ar!Escribir
      <4>4. \A j \in DOMAIN t.mias \ {i} : m[j] = t.mias[j]
        BY DEF Ar!Escribir
      <4> QED
        BY <4>1, <4>2, <4>3, <4>4
    <3>4. txArea' = [txArea EXCEPT ![c] = u]
      BY <1>1, <1>3, <2>3 DEF ArInv, TipoCambio, f
    <3> HIDE DEF m, q
    <3>5. /\ u \in TipoCambio /\ u.paso = "quitar" /\ u.mias = m /\ u.alta = t.alta
          /\ u.id = t.id /\ u.elegir = t.elegir /\ u.actual = t.actual /\ u.activo = t.activo
      BY <1>1, <2>1, <3>3 DEF TipoCambio
    <3> HIDE DEF u
    <3>6. Ar!SeRechaza(u) <=> Ar!SeRechaza(t)
      BY <3>5 DEF Ar!SeRechaza, Ar!QuedaActiva
    <3>7. PideBien(u) /\ ~Elige(u)
      BY <1>1, <3>2, <3>3, <3>5, <3>6 DEF PideBien, Elige
    <3>8. ASSUME NEW o \in Conexiones \ {c}
          PROVE  Aparte(u, txArea[o]) /\ (Elige(txArea[o]) => SinElegida(u))
      <4>1. Aparte(txArea[o], t) /\ (Elige(txArea[o]) => SinElegida(t))
        BY DEF ArInv
      <4>2. i \notin DOMAIN txArea[o].mias
        BY <1>3 DEF Ar!Bloqueada
      <4> QED
        BY <3>2, <3>3, <3>5, <4>1, <4>2 DEF Aparte, SinElegida
    <3> QED
      BY <1>1, <3>4, <3>5, <3>7, <3>8, ArCambia
  <2> QED
    BY <2>2, <2>3
<1> QED
  BY <1>2, <1>3 DEF Ar!Quitar

\* The row is written, unless the index refuses it; nobody else has a default on
\* its way.
LEMMA ArGuarda ==
    ASSUME ArInv, NEW c \in Conexiones, Ar!Guardar(c)
    PROVE  ArInv'
<1> DEFINE t == txArea[c]
           n == Ar!Nueva(t)
           m == Ar!Escribir(t.mias, t.id, n)
           u == [t EXCEPT !.paso = "commit", !.mias = m]
           no == (n.porDefecto /\ Ar!OtraPorDefecto(c)) \/ (t.alta /\ areas[t.id].existe)
<1>1. /\ t.paso = "escribir" /\ areas' = areas /\ t \in TipoCambio /\ PideBien(t)
      /\ n.porDefecto => ~Ar!OtraEnVilo(c, t.id)
      /\ t.alta => ~Ar!Bloqueada(t.id, c)
      /\ txArea' = [txArea EXCEPT ![c] = IF no THEN Ar!Fuera ELSE u]
  BY DEF Ar!Guardar, ArInv
<1>2. CASE no
  <2>1. txArea' = [txArea EXCEPT ![c] = Ar!Fuera]
    BY <1>1, <1>2
  <2> QED
    BY <1>1, <2>1, FueraEs, ArSuelta
<1>3. CASE ~no
  <2>1. t.mias \in TipoMias /\ t.id \in Ids /\ n \in TipoArea /\ n.existe
    BY <1>1, NuevaEs DEF TipoCambio
  <2>2. m \in TipoMias /\ DOMAIN m = DOMAIN t.mias \cup {t.id}
        /\ m[t.id] = n /\ \A j \in DOMAIN t.mias \ {t.id} : m[j] = t.mias[j]
    <3>1. m \in TipoMias
      BY <2>1, EscribirEs
    <3>2. DOMAIN m = DOMAIN t.mias \cup {t.id}
      BY DEF Ar!Escribir
    <3>3. m[t.id] = n
      BY DEF Ar!Escribir
    <3>4. \A j \in DOMAIN t.mias \ {t.id} : m[j] = t.mias[j]
      BY DEF Ar!Escribir
    <3> QED
      BY <3>1, <3>2, <3>3, <3>4
  <2>3. txArea' = [txArea EXCEPT ![c] = u]
    BY <1>1, <1>3
  <2>4. n.porDefecto => ~Ar!OtraPorDefecto(c)
    BY <1>3
  <2>5. t.alta => ~areas[t.id].existe
    BY <1>3
  <2> HIDE DEF n, m, no
  <2>6. /\ u \in TipoCambio /\ u.paso = "commit" /\ u.mias = m /\ u.alta = t.alta
        /\ u.id = t.id /\ u.elegir = t.elegir /\ u.actual = t.actual /\ u.activo = t.activo
    BY <1>1, <2>2 DEF TipoCambio
  <2> HIDE DEF u
  <2>7. (Ar!SeRechaza(u) <=> Ar!SeRechaza(t)) /\ Ar!Nueva(u) = n
    BY <2>6 DEF Ar!SeRechaza, Ar!QuedaActiva, Ar!Nueva, n
  <2>8. u.id \in DOMAIN m /\ m[u.id] = n
    BY <2>2, <2>6
  <2>9. PideBien(u)
    BY <1>1, <2>1, <2>2, <2>5, <2>6, <2>7, <2>8 DEF PideBien
  <2>10. Elige(u) => n.porDefecto
    BY <2>6, <2>8 DEF Elige
  <2>11. Elige(u) => SinOtra(u)
    <3>1. ASSUME n.porDefecto, NEW j \in Ids \ {t.id}
          PROVE  ~(IF j \in DOMAIN m THEN m[j] ELSE areas[j]).porDefecto
      <4>1. ~Ar!Ve(c, j).porDefecto
        BY <2>4, <3>1 DEF Ar!OtraPorDefecto
      <4> QED
        BY <2>2, <4>1 DEF Ar!Ve
    <3> QED
      BY <2>6, <2>10, <3>1 DEF SinOtra
  <2>12. ASSUME NEW o \in Conexiones \ {c}
         PROVE  t.id \notin DOMAIN txArea[o].mias /\ Aparte(u, txArea[o])
    <3>1. Aparte(t, txArea[o])
      BY DEF ArInv
    <3>2. t.id \notin DOMAIN txArea[o].mias
      <4>1. CASE t.alta
        BY <1>1, <4>1 DEF Ar!Bloqueada
      <4>2. CASE ~t.alta
        BY <1>1, <3>1, <4>2 DEF PideBien, Aparte
      <4> QED
        BY <4>1, <4>2
    <3> QED
      BY <2>2, <2>6, <3>1, <3>2 DEF Aparte
  <2>13. ASSUME NEW o \in Conexiones \ {c}, Elige(u)
         PROVE  SinElegida(txArea[o])
    <3>1. \A j \in DOMAIN txArea[o].mias \ {t.id} : ~txArea[o].mias[j].porDefecto
      BY <1>1, <2>10, <2>13 DEF Ar!OtraEnVilo
    <3> QED
      BY <2>12, <3>1 DEF SinElegida
  <2>14. ASSUME NEW o \in Conexiones \ {c}, Elige(txArea[o])
         PROVE  SinElegida(u)
    <3>1. SinElegida(t)
      BY <2>14 DEF ArInv
    <3>2. txArea[o].id \in DOMAIN txArea[o].mias /\ txArea[o].mias[txArea[o].id].porDefecto
      BY <2>14 DEF ArInv, PideBien, Elige
    <3>3. ~n.porDefecto
      BY <1>1, <2>12, <3>2 DEF Ar!OtraEnVilo
    <3> QED
      BY <2>2, <2>6, <3>1, <3>3 DEF SinElegida
  <2> QED
    BY <1>1, <2>3, <2>6, <2>9, <2>11, <2>12, <2>13, <2>14, ArCambia
<1> QED
  BY <1>2, <1>3
\* What is committed leaves alone the rows that others hold, and takes no default
\* beside one that somebody has written.
LEMMA ArEscribe ==
    ASSUME ArInv, NEW c \in Conexiones, txArea' = [txArea EXCEPT ![c] = Ar!Fuera],
           areas' \in [Ids -> TipoArea], \A i \in Ids : areas'[i].existe \/ ~areas'[i].porDefecto,
           \A o \in Conexiones \ {c} :
              /\ \A j \in DOMAIN txArea[o].mias : areas'[j] = areas[j]
              /\ Elige(txArea[o]) => \A j \in Ids : areas'[j].porDefecto => areas[j].porDefecto
    PROVE  ArInv'
<1>1. txArea' \in [Conexiones -> TipoCambio]
      /\ \A o \in Conexiones : txArea'[o] = IF o = c THEN Ar!Fuera ELSE txArea[o]
  BY FueraEs DEF ArInv
<1>2. PideBien(Ar!Fuera)' /\ ~Elige(Ar!Fuera) /\ SinElegida(Ar!Fuera)
      /\ \A t : Aparte(t, Ar!Fuera) /\ Aparte(Ar!Fuera, t)
  BY FueraEs DEF PideBien, Elige, SinElegida, Aparte
<1>3. ASSUME NEW o \in Conexiones \ {c}
      PROVE  PideBien(txArea[o])' /\ (Elige(txArea[o]) => SinOtra(txArea[o]))'
  <2> DEFINE t == txArea[o]
  <2>1. txArea'[o] = t /\ PideBien(t) /\ (Elige(t) => SinOtra(t)) /\ t \in TipoCambio
    BY <1>1 DEF ArInv
  <2>2. \A j \in DOMAIN t.mias : areas'[j] = areas[j]
    OBVIOUS
  <2>3. PideBien(txArea[o])'
    BY <2>1, <2>2 DEF PideBien
  <2>4. ASSUME Elige(t), NEW j \in Ids \ {t.id}
        PROVE  ~(IF j \in DOMAIN t.mias THEN t.mias[j] ELSE areas'[j]).porDefecto
    <3>1. ~(IF j \in DOMAIN t.mias THEN t.mias[j] ELSE areas[j]).porDefecto
      BY <2>1, <2>4 DEF SinOtra
    <3>2. areas'[j].porDefecto => areas[j].porDefecto
      BY <2>4
    <3> QED
      BY <3>1, <3>2
  <2> QED
    BY <2>1, <2>3, <2>4 DEF Elige, SinOtra
<1>4. ASSUME NEW o \in Conexiones
      PROVE  PideBien(txArea[o])' /\ (Elige(txArea[o]) => SinOtra(txArea[o]))'
  <2>1. CASE o = c
    BY <1>1, <1>2, <2>1 DEF PideBien, Elige
  <2>2. CASE o # c
    BY <1>3, <2>2
  <2> QED
    BY <2>1, <2>2
<1>5. ASSUME NEW o \in Conexiones, NEW u \in Conexiones \ {o}
      PROVE  (Aparte(txArea[o], txArea[u]) /\ (Elige(txArea[o]) => SinElegida(txArea[u])))'
  <2>1. CASE o = c
    BY <1>1, <1>2, <2>1 DEF Aparte, Elige, SinElegida
  <2>2. CASE u = c
    BY <1>1, <1>2, <2>2 DEF Aparte, Elige, SinElegida
  <2>3. CASE o # c /\ u # c
    <3>1. Aparte(txArea[o], txArea[u]) /\ (Elige(txArea[o]) => SinElegida(txArea[u]))
      BY DEF ArInv
    <3>2. txArea'[o] = txArea[o] /\ txArea'[u] = txArea[u]
      BY <1>1, <2>3
    <3> QED
      BY <3>1, <3>2 DEF Aparte, Elige, SinElegida
  <2> QED
    BY <2>1, <2>2, <2>3
<1> HIDE DEF ArInv
<1> QED
  BY <1>1, <1>4, <1>5 DEF ArInv

\* What a company that has no areas is seeded with.
LEMMA SiembraEs ==
    ASSUME ArInv, NEW c \in Conexiones, Ar!Sembrar(c), areas' # areas, NEW i \in Ids
    PROVE  \/ areas'[i] = areas[i]
           \/ /\ i \in Semillas /\ ~areas[i].existe
              /\ areas'[i] \in TipoArea /\ areas'[i].existe
              /\ areas'[i].porDefecto => \A j \in Ids : ~areas[j].porDefecto
<1>1. areas' = [j \in Ids |-> IF j \notin Semillas \/ areas[j].existe THEN areas[j]
                        ELSE [existe |-> TRUE, activo |-> TRUE, porDefecto |-> j = Cocina]]
      /\ ~(~areas[Cocina].existe /\ \E j \in Ids : areas[j].porDefecto)
  BY DEF Ar!Sembrar
<1>2. CASE i \notin Semillas \/ areas[i].existe
  BY <1>1, <1>2
<1>3. CASE i \in Semillas /\ ~areas[i].existe
  <2>1. PICK b \in BOOLEAN : b <=> i = Cocina
    OBVIOUS
  <2>2. areas'[i] = [existe |-> TRUE, activo |-> TRUE, porDefecto |-> b]
    BY <1>1, <1>3, <2>1
  <2>3. b => \A j \in Ids : ~areas[j].porDefecto
    BY <1>1, <1>3, <2>1
  <2> QED
    BY <1>3, <2>2, <2>3 DEF TipoArea
<1> QED
  BY <1>2, <1>3

\* The seed waits for whoever holds one of its names, or a default.
LEMMA ArSiembra ==
    ASSUME ArInv, NEW c \in Conexiones, Ar!Sembrar(c)
    PROVE  ArInv'
<1>1. /\ txArea' = [txArea EXCEPT ![c] = Ar!Fuera]
      /\ ~Ar!OtraEnVilo(c, Cocina) /\ \A i \in Semillas : ~Ar!Bloqueada(i, c)
  BY DEF Ar!Sembrar
<1>2. CASE areas' = areas
  BY <1>1, <1>2, FueraEs, ArSuelta
<1>3. CASE areas' # areas
  <2>1. areas' = [i \in Ids |-> areas'[i]]
    BY <1>3 DEF Ar!Sembrar
  <2>2. \A i \in Ids : areas'[i] \in TipoArea /\ (areas'[i].existe \/ ~areas'[i].porDefecto)
    BY <1>3, SiembraEs DEF ArInv
  <2>3. ASSUME NEW o \in Conexiones \ {c}
        PROVE  (\A j \in DOMAIN txArea[o].mias : areas'[j] = areas[j]) /\ ~Elige(txArea[o])
    <3>1. DOMAIN txArea[o].mias \subseteq Ids
      BY MiasSon DEF ArInv, TipoCambio
    <3>2. \A j \in DOMAIN txArea[o].mias : j \notin Semillas
      BY <1>1 DEF Ar!Bloqueada
    <3>3. \A j \in DOMAIN txArea[o].mias : areas'[j] = areas[j]
      BY <1>3, <3>1, <3>2, SiembraEs
    <3>4. ~Elige(txArea[o])
      <4> SUFFICES ASSUME Elige(txArea[o]) PROVE FALSE
        OBVIOUS
      <4>1. /\ txArea[o].id \in DOMAIN txArea[o].mias
            /\ txArea[o].mias[txArea[o].id].porDefecto
        BY DEF ArInv, PideBien, Elige
      <4> QED
        BY <1>1, <3>2, <4>1, AreasAssumption DEF Ar!OtraEnVilo
    <3> QED
      BY <3>3, <3>4
  <2>4. areas' \in [Ids -> TipoArea]
    BY <2>1, <2>2
  <2> QED
    BY <1>1, <2>2, <2>3, <2>4, ArEscribe
<1> QED
  BY <1>2, <1>3

\* The COMMIT of a change.
LEMMA ArConfirma ==
    ASSUME ArInv, NEW c \in Conexiones, Ar!Confirmar(c)
    PROVE  ArInv'
<1> DEFINE t == txArea[c]
<1>1. /\ t.paso = "commit" /\ txArea' = [txArea EXCEPT ![c] = Ar!Fuera]
      /\ areas' = [i \in Ids |-> Ar!Ve(c, i)]
      /\ t \in TipoCambio /\ PideBien(t) /\ t.mias \in TipoMias
  BY DEF Ar!Confirmar, ArInv, TipoCambio
<1>2. \A i \in Ids : areas'[i] = IF i \in DOMAIN t.mias THEN t.mias[i] ELSE areas[i]
  BY <1>1 DEF Ar!Ve
<1>3. DOMAIN t.mias \subseteq Ids /\ \A i \in DOMAIN t.mias : t.mias[i] \in TipoArea
  BY <1>1, MiasSon
<1>4. \A i \in Ids : areas'[i] \in TipoArea /\ (areas'[i].existe \/ ~areas'[i].porDefecto)
  BY <1>1, <1>2, <1>3 DEF ArInv, PideBien
<1>5. areas' \in [Ids -> TipoArea]
  BY <1>1, <1>4
<1>6. ASSUME NEW o \in Conexiones \ {c}
      PROVE  /\ \A j \in DOMAIN txArea[o].mias : areas'[j] = areas[j]
             /\ Elige(txArea[o]) => \A j \in Ids : areas'[j].porDefecto => areas[j].porDefecto
  <2>1. Aparte(txArea[o], t) /\ (Elige(txArea[o]) => SinElegida(t))
    BY DEF ArInv
  <2>2. DOMAIN txArea[o].mias \subseteq Ids
    BY MiasSon DEF ArInv, TipoCambio
  <2> QED
    BY <1>2, <2>1, <2>2 DEF Aparte, SinElegida
<1> QED
  BY <1>1, <1>4, <1>5, <1>6, ArEscribe

\* An area that is not there yet, and the sight of a company without any.
LEMMA ArEmpieza ==
    ASSUME ArInv, NEW c \in Conexiones,
           Ar!VerSiHay(c) \/ \E i \in Ids, elegir \in BOOLEAN : Ar!Crear(c, i, elegir)
    PROVE  ArInv'
<1>1. CASE Ar!VerSiHay(c)
  <2> DEFINE t == [Ar!Fuera EXCEPT !.paso = "sembrar"]
  <2>1. txArea' = [txArea EXCEPT ![c] = t] /\ areas' = areas
    BY <1>1 DEF Ar!VerSiHay
  <2>2. t \in TipoCambio /\ t.paso = "sembrar" /\ t.mias = Ar!SinCambios
    BY FueraEs DEF TipoCambio
  <2> HIDE DEF t
  <2> QED
    BY <2>1, <2>2, FueraEs, ArSuelta
<1>2. ASSUME NEW i \in Ids, NEW elegir \in BOOLEAN, Ar!Crear(c, i, elegir)
      PROVE  ArInv'
  <2> DEFINE sig == IF elegir THEN "buscar" ELSE "escribir"
             t == [Ar!Fuera EXCEPT !.paso = sig, !.id = i, !.alta = TRUE, !.elegir = elegir]
  <2>1. txArea' = [txArea EXCEPT ![c] = t] /\ areas' = areas
    BY <1>2 DEF Ar!Crear
  <2>2. sig \in {"buscar", "escribir"} /\ (sig = "buscar" => elegir)
    OBVIOUS
  <2> HIDE DEF sig
  <2>3. /\ t \in TipoCambio /\ t.paso = sig /\ t.mias = Ar!SinCambios /\ t.alta = TRUE
        /\ t.elegir = elegir
    BY <2>2, FueraEs DEF TipoCambio
  <2> HIDE DEF t
  <2>4. DOMAIN t.mias = {} /\ t.alta /\ (t.paso = "escribir" \/ (t.paso = "buscar" /\ t.elegir))
    BY <2>2, <2>3, FueraEs
  <2> QED
    BY <2>1, <2>3, <2>4, ArSuelta
<1> QED
  BY <1>1, <1>2

\* Whatever changes, creations and seeds overlap.
LEMMA ArPaso == ArInv /\ [Ar!Next]_deAreas => ArInv'
<1> SUFFICES ASSUME ArInv, [Ar!Next]_deAreas PROVE ArInv'
  OBVIOUS
<1>1. CASE UNCHANGED deAreas
  BY <1>1 DEF deAreas, ArInv, PideBien, Elige, SinOtra, SinElegida, Aparte
<1>2. ASSUME NEW c \in Conexiones, Ar!Buscar(c)
      PROVE  ArInv'
  <2> DEFINE q == {i \in Ids : Ar!Ve(c, i).porDefecto}
  <2>1. txArea[c].paso = "buscar" /\ areas' = areas /\ txArea[c] \in TipoCambio
        /\ txArea' = [txArea EXCEPT ![c].paso = "quitar", ![c].quitar = q]
    BY <1>2 DEF Ar!Buscar, ArInv
  <2>2. q \in SUBSET Ids
    OBVIOUS
  <2> HIDE DEF q
  <2>3. txArea' = [txArea EXCEPT ![c] = [txArea[c] EXCEPT !.paso = "quitar", !.quitar = q]]
    BY <2>1 DEF ArInv, TipoCambio
  <2> QED
    BY <2>1, <2>2, <2>3, ArSigue
<1>3. ASSUME NEW c \in Conexiones, Ar!Deshacer(c)
      PROVE  ArInv'
  BY <1>3, FueraEs, ArSuelta DEF Ar!Deshacer
<1>4. CASE Ar!Next
  BY <1>2, <1>3, <1>4, ArEmpieza, ArActualiza, ArQuita, ArGuarda, ArSiembra, ArConfirma DEF Ar!Next
<1> QED
  BY <1>1, <1>4
\* A seed adds no default where there is one.
LEMMA SiembraSigue ==
    ASSUME ArInv, NEW c \in Conexiones, Ar!Sembrar(c), Ar!UnaPredeterminada
    PROVE  Ar!UnaPredeterminada'
<1>1. CASE areas' = areas
  BY <1>1 DEF Ar!UnaPredeterminada
<1>2. CASE areas' # areas
  <2>1. PICK p \in Ids : /\ areas[p].porDefecto /\ areas[p].activo
                         /\ \A j \in Ids \ {p} : ~areas[j].porDefecto
    BY DEF Ar!UnaPredeterminada
  <2>2. \A j \in Ids : areas'[j] = areas[j] \/ (~areas[j].existe /\ ~areas'[j].porDefecto)
    BY <1>2, <2>1, SiembraEs
  <2>3. areas'[p] = areas[p]
    BY <2>1, <2>2 DEF ArInv
  <2>4. \A j \in Ids \ {p} : ~areas'[j].porDefecto
    BY <2>1, <2>2
  <2> QED
    BY <2>1, <2>3, <2>4 DEF Ar!UnaPredeterminada
<1> QED
  BY <1>1, <1>2

\* A change that is committed is that of the default, with no other beside it, or
\* leaves the default where it was.
LEMMA ConfirmaSigue ==
    ASSUME ArInv, NEW c \in Conexiones, Ar!Confirmar(c), Ar!UnaPredeterminada
    PROVE  Ar!UnaPredeterminada'
<1> DEFINE t == txArea[c]
           n == Ar!Nueva(t)
<1>1. /\ t.paso = "commit" /\ areas' = [i \in Ids |-> Ar!Ve(c, i)]
      /\ t \in TipoCambio /\ PideBien(t) /\ (Elige(t) => SinOtra(t)) /\ t.id \in Ids
  BY DEF Ar!Confirmar, ArInv, TipoCambio
<1>2. \A i \in Ids : areas'[i] = IF i \in DOMAIN t.mias THEN t.mias[i] ELSE areas[i]
  BY <1>1 DEF Ar!Ve
<1>3. areas'[t.id] = n /\ t.id \in DOMAIN t.mias /\ t.mias[t.id] = n
  BY <1>1, <1>2 DEF PideBien
<1>4. /\ n \in TipoArea
      /\ n.activo <=> (t.alta \/ Ar!QuedaActiva(t))
      /\ n.porDefecto <=> (t.elegir \/ (~t.alta /\ t.actual.porDefecto))
  BY <1>1, NuevaEs
<1> HIDE DEF n
<1>5. CASE n.porDefecto
  <2>1. n.activo
    <3>1. CASE t.alta
      BY <1>4, <3>1
    <3>2. CASE ~t.alta
      BY <1>1, <1>4, <1>5, <3>2 DEF PideBien, Ar!SeRechaza
    <3> QED
      BY <3>1, <3>2
  <2>2. SinOtra(t)
    BY <1>1, <1>3, <1>5 DEF Elige
  <2>3. \A j \in Ids \ {t.id} : ~areas'[j].porDefecto
    BY <1>2, <2>2 DEF SinOtra
  <2> QED
    BY <1>1, <1>3, <1>5, <2>1, <2>3 DEF Ar!UnaPredeterminada
<1>6. CASE ~n.porDefecto
  <2>1. PICK p \in Ids : /\ areas[p].porDefecto /\ areas[p].activo
                         /\ \A j \in Ids \ {p} : ~areas[j].porDefecto
    BY DEF Ar!UnaPredeterminada
  <2>2. DOMAIN t.mias \subseteq {t.id}
    BY <1>1, <1>4, <1>6 DEF PideBien
  <2>3. \A j \in Ids \ {t.id} : areas'[j] = areas[j]
    BY <1>2, <2>2
  <2>4. p # t.id
    <3>1. CASE t.alta
      BY <1>1, <2>1, <3>1 DEF PideBien, ArInv
    <3>2. CASE ~t.alta
      BY <1>1, <1>4, <1>6, <2>1, <3>2 DEF PideBien
    <3> QED
      BY <3>1, <3>2
  <2>5. areas'[p] = areas[p] /\ \A j \in Ids \ {p} : ~areas'[j].porDefecto
    BY <1>3, <1>6, <2>1, <2>3, <2>4
  <2> QED
    BY <2>1, <2>5 DEF Ar!UnaPredeterminada
<1> QED
  BY <1>5, <1>6

\* The default area is never lost.
LEMMA ArCumple == ArInv /\ [Ar!Next]_deAreas => Ar!PredeterminadaSigue
<1> SUFFICES ASSUME ArInv, [Ar!Next]_deAreas, Ar!UnaPredeterminada PROVE Ar!UnaPredeterminada'
  BY DEF Ar!PredeterminadaSigue
<1>1. CASE areas' = areas
  BY <1>1 DEF Ar!UnaPredeterminada
<1>2. CASE areas' # areas
  <2>1. \A c \in Conexiones :
          ~Ar!VerSiHay(c) /\ ~Ar!Buscar(c) /\ ~Ar!Quitar(c) /\ ~Ar!Guardar(c) /\ ~Ar!Deshacer(c)
    BY <1>2 DEF Ar!VerSiHay, Ar!Buscar, Ar!Quitar, Ar!Guardar, Ar!Deshacer
  <2>2. \A c \in Conexiones, i \in Ids, elegir \in BOOLEAN :
          /\ ~Ar!Crear(c, i, elegir)
          /\ \A activo \in {"igual", "si", "no"} : ~Ar!Actualizar(c, i, elegir, activo)
    BY <1>2 DEF Ar!Crear, Ar!Actualizar
  <2>3. Ar!Next
    BY <1>2 DEF deAreas
  <2>4. PICK c \in Conexiones : Ar!Sembrar(c) \/ Ar!Confirmar(c)
    BY <2>1, <2>2, <2>3 DEF Ar!Next
  <2>5. CASE Ar!Sembrar(c)
    BY <2>5, SiembraSigue
  <2>6. CASE Ar!Confirmar(c)
    BY <2>6, ConfirmaSigue
  <2> QED
    BY <2>4, <2>5, <2>6
<1> QED
  BY <1>1, <1>2
-----------------------------------------------------------------------------
(* MigrarCatalogo                                                          *)

TipoProv == [nombre : STRING, activo : BOOLEAN]
TipoProd == [nombre : STRING, prov : Nat, activo : BOOLEAN]
TipoDestino == [provs : Seq(TipoProv), cats : SUBSET STRING, prods : Seq(TipoProd)]
TipoOrigen ==
    [nombre : STRING, proveedor : STRING, activo : BOOLEAN, elaborado : BOOLEAN, categoria : STRING]

\* k is a supplier with the name p at the destination.
ProvDe(p, k) == k \in DOMAIN destino.provs /\ destino.provs[k].nombre = p
SabeDeEste == \A p \in DOMAIN deEste : ProvDe(p, deEste[p])

MgTipos ==
    /\ destino \in TipoDestino
    /\ \A k \in DOMAIN destino.prods : destino.prods[k].prov \in DOMAIN destino.provs
    /\ plan \subseteq DOMAIN Origen /\ quedan \subseteq plan /\ falta \subseteq STRING
    /\ nuevos \subseteq DOMAIN destino.prods
    /\ errores \in Nat

\* What the run knows of the destination is still so.
MgListas ==
    /\ SabeDeEste
    /\ paso = "proveedores" => \A p \in DOMAIN ya : ProvDe(p, ya[p])
    /\ paso \in {"productos", "inactivar"} => DOMAIN ya \subseteq Mg!Nombres(destino.prods)

\* The product that was just created, while it is not left inactive.
Ultimo == Len(destino.prods)
RecienCreado ==
    /\ quedan # {} /\ Ultimo \in DOMAIN destino.prods
    /\ destino.prods[Ultimo].nombre = Origen[Mg!Turno].nombre
    /\ destino.provs[destino.prods[Ultimo].prov].nombre = Origen[Mg!Turno].proveedor
    /\ Origen[Mg!Turno].activo = FALSE

\* While nothing was refused, what the run has finished with is there, and what
\* it created is as it was at the source.
MgLleva ==
    /\ paso \in {"listarProveedores", "proveedores", "categorias"} => nuevos = {} /\ quedan = plan
    /\ paso = "inactivar" => RecienCreado
    /\ paso = "fin" => quedan = {}
    /\ paso \in {"productos", "inactivar", "fin"} /\ errores = 0 =>
          /\ \A k \in plan \ quedan : Origen[k].nombre \in Mg!Nombres(destino.prods)
          /\ \A k \in nuevos : (paso = "inactivar" /\ k = Ultimo) \/ Mg!ComoEra(destino.prods[k])

MgInv == MgTipos /\ MgListas /\ MgLleva

\* Every product of the source has a place, which is a natural.
LEMMA OrigenEs ==
    /\ DOMAIN Origen \subseteq Nat
    /\ \A k \in DOMAIN Origen : Origen[k] \in TipoOrigen
<1>1. Origen \in Seq(TipoOrigen)
  BY MigrarAssumption DEF TipoOrigen
<1> QED
  BY <1>1

\* The product whose turn it is is one of those that are left.
LEMMA TurnoEs ==
    ASSUME MgTipos, quedan # {}
    PROVE  Mg!Turno \in quedan /\ Mg!Turno \in plan /\ Mg!Turno \in DOMAIN Origen
<1>1. quedan \in SUBSET Nat
  BY OrigenEs DEF MgTipos
<1>2. Mg!Turno = Primero(quedan)
  BY DEF Mg!Turno, Primero
<1> QED
  BY <1>1, <1>2, PrimeroEs DEF MgTipos

\* Before the first run.
LEMMA MgInicio == Mg!Init => MgInv
<1> SUFFICES ASSUME Mg!Init PROVE MgInv
  OBVIOUS
<1>1. MgTipos
  BY MigrarAssumption DEF Mg!Init, MgTipos, TipoDestino, TipoProv, TipoProd
<1>2. MgListas
  BY DEF Mg!Init, Mg!NoHay, MgListas, SabeDeEste
<1>3. MgLleva
  BY DEF Mg!Init, MgLleva
<1> QED
  BY <1>1, <1>2, <1>3 DEF MgInv

\* The rows of the destination keep their names and their suppliers.
ProvsSiguen ==
    \A k \in DOMAIN destino.provs :
        k \in DOMAIN destino'.provs /\ destino'.provs[k].nombre = destino.provs[k].nombre
ProdSigue(k) ==
    k \in DOMAIN destino'.prods /\ destino'.prods[k] = destino.prods[k]

\* What is as it was at the source stays so.
LEMMA ComoEraSigue ==
    ASSUME MgTipos, ProvsSiguen, plan' = plan, NEW k \in DOMAIN destino.prods, ProdSigue(k),
           Mg!ComoEra(destino.prods[k])
    PROVE  Mg!ComoEra(destino.prods[k])'
BY DEF MgTipos, ProvsSiguen, ProdSigue, Mg!ComoEra

\* So does what the run knows of the suppliers.
LEMMA ProvDeSigue ==
    ASSUME ProvsSiguen, NEW p, NEW k, ProvDe(p, k)
    PROVE  ProvDe(p, k)'
BY DEF ProvsSiguen, ProvDe

\* A run begins.
LEMMA MgEmpieza ==
    ASSUME MgInv, NEW b \in BOOLEAN, Mg!Empezar(b)
    PROVE  MgInv'
<1>1. /\ paso' = "listarProveedores" /\ plan' = Mg!Llevar(b) /\ quedan' = plan'
      /\ falta' = Mg!Proveedores(plan') /\ ya' = Mg!NoHay /\ deEste' = Mg!NoHay /\ nuevos' = {}
      /\ errores' = 0 /\ destino' = destino
  BY DEF Mg!Empezar
<1>2. plan' \subseteq DOMAIN Origen
  BY <1>1 DEF Mg!Llevar
<1>3. falta' \subseteq STRING
  BY <1>1, <1>2, OrigenEs DEF Mg!Proveedores, TipoOrigen
<1>4. MgTipos'
  BY <1>1, <1>2, <1>3 DEF MgInv, MgTipos
<1>5. MgListas'
  BY <1>1 DEF MgListas, SabeDeEste, Mg!NoHay
<1>6. MgLleva'
  BY <1>1 DEF MgLleva
<1> QED
  BY <1>4, <1>5, <1>6 DEF MgInv

\* The ids in a list are of rows with those names.
LEMMA PorNombreEs ==
    ASSUME MgTipos, NEW ids \in SUBSET DOMAIN destino.provs,
           NEW p \in DOMAIN Mg!PorNombre(destino.provs, ids)
    PROVE  ProvDe(p, Mg!PorNombre(destino.provs, ids)[p])
<1> DEFINE s == destino.provs
           S == {k \in ids : s[k].nombre = p}
<1>1. s \in Seq(TipoProv) /\ DOMAIN s = 1..Len(s) /\ Len(s) \in Nat
  BY DEF MgTipos, TipoDestino
<1>2. p \in {s[k].nombre : k \in ids}
  BY DEF Mg!PorNombre
<1>3. S # {} /\ S \in SUBSET Nat
  BY <1>1, <1>2
<1>4. IsFiniteSet(S)
  <2>1. 1 \in Int /\ Len(s) \in Int
    BY <1>1
  <2>2. IsFiniteSet(1..Len(s))
    BY <2>1, FS_Interval
  <2> QED
    BY <1>1, <2>2, FS_Subset
<1>5. \E k \in S : \A m \in S : m <= k
  BY <1>3, <1>4, Mayor
<1>6. \E k \in ids : s[k].nombre = p /\ \A m \in ids : s[m].nombre = p => m <= k
  BY <1>5
<1>7. Mg!PorNombre(s, ids)[p] =
        CHOOSE k \in ids : s[k].nombre = p /\ \A m \in ids : s[m].nombre = p => m <= k
  BY <1>2 DEF Mg!PorNombre
<1>8. Mg!PorNombre(s, ids)[p] \in ids /\ s[Mg!PorNombre(s, ids)[p]].nombre = p
  BY <1>6, <1>7
<1> QED
  BY <1>8 DEF ProvDe

\* A list that is asked for, or that is taken as empty.
LEMMA MgLista ==
    ASSUME MgInv, Mg!ListarProveedores \/ Mg!ListarCategorias \/ Mg!ListarProductos
    PROVE  MgInv'
<1>1. /\ UNCHANGED <<destino, deEste, nuevos, errores, plan, quedan>>
      /\ falta' = falta \/ falta' = Categorias
  BY DEF Mg!ListarProveedores, Mg!ListarCategorias, Mg!ListarProductos, Mg!Listar
<1>2. MgTipos'
  BY <1>1, MigrarAssumption DEF MgInv, MgTipos
<1>3. CASE Mg!ListarProveedores
  <2>1. /\ paso = "listarProveedores" /\ paso' = "proveedores"
        /\ ya' = Mg!ListaProveedores \/ ya' = Mg!NoHay
    BY <1>3 DEF Mg!ListarProveedores, Mg!Listar
  <2>2. ASSUME NEW p \in DOMAIN ya'
        PROVE  ProvDe(p, ya'[p])
    <3>1. ya' = Mg!PorNombre(destino.provs, Mg!Activos(destino.provs))
      BY <2>1, <2>2 DEF Mg!ListaProveedores, Mg!NoHay
    <3>2. Mg!Activos(destino.provs) \in SUBSET DOMAIN destino.provs
      BY DEF Mg!Activos
    <3> QED
      BY <3>1, <3>2, PorNombreEs DEF MgInv
  <2>3. MgListas'
    BY <1>1, <2>1, <2>2 DEF MgInv, MgListas, SabeDeEste, ProvDe
  <2>4. MgLleva'
    BY <1>1, <2>1 DEF MgInv, MgLleva
  <2> QED
    BY <1>2, <2>3, <2>4 DEF MgInv
<1>4. CASE Mg!ListarCategorias
  <2>1. paso = "proveedores" /\ paso' = "categorias"
    BY <1>4 DEF Mg!ListarCategorias, Mg!Listar
  <2>2. MgListas'
    BY <1>1, <2>1 DEF MgInv, MgListas, SabeDeEste, ProvDe
  <2>3. MgLleva'
    BY <1>1, <2>1 DEF MgInv, MgLleva
  <2> QED
    BY <1>2, <2>2, <2>3 DEF MgInv
<1>5. CASE Mg!ListarProductos
  <2>1. /\ paso = "categorias" /\ paso' = "productos"
        /\ ya' = Mg!ListaProductos \/ ya' = Mg!NoHay
    BY <1>5 DEF Mg!ListarProductos, Mg!Listar
  <2>2. DOMAIN ya' \subseteq Mg!Nombres(destino.prods)
    <3> DEFINE ids == Mg!Primeros(Mg!Activos(destino.prods), Pagina)
    <3>1. ids \subseteq DOMAIN destino.prods
      BY DEF Mg!Primeros, Mg!Activos
    <3> HIDE DEF ids
    <3>2. DOMAIN Mg!PorNombre(destino.prods, ids) = {destino.prods[k].nombre : k \in ids}
      BY DEF Mg!PorNombre
    <3>3. ya' = Mg!PorNombre(destino.prods, ids) \/ DOMAIN ya' = {}
      BY <2>1 DEF Mg!ListaProductos, Mg!NoHay, ids
    <3> QED
      BY <3>1, <3>2, <3>3 DEF Mg!Nombres
  <2>3. MgListas'
    BY <1>1, <2>1, <2>2 DEF MgInv, MgListas, SabeDeEste, ProvDe
  <2>4. MgLleva'
    BY <1>1, <2>1 DEF MgInv, MgLleva
  <2> QED
    BY <1>2, <2>3, <2>4 DEF MgInv
<1> QED
  BY <1>3, <1>4, <1>5
\* Suppliers and categories come, or are left inactive: products stay as they are.
LEMMA MgSuministra ==
    ASSUME MgInv, destino' \in TipoDestino, destino'.prods = destino.prods, ProvsSiguen,
           UNCHANGED <<paso, plan, quedan, ya, nuevos>>, falta' \subseteq STRING,
           errores' \in Nat, errores' = 0 => errores = 0,
           SabeDeEste'
    PROVE  MgInv'
<1>1. MgTipos /\ MgListas /\ MgLleva
  BY DEF MgInv
<1>2. MgTipos'
  BY <1>1 DEF MgTipos, ProvsSiguen
<1>3. MgListas'
  <2>1. ASSUME paso = "proveedores", NEW p \in DOMAIN ya
        PROVE  ProvDe(p, ya[p])'
    BY <1>1, <2>1, ProvDeSigue DEF MgListas, ProvDe
  <2> QED
    BY <1>1, <2>1 DEF MgListas, SabeDeEste, ProvDe
<1>4. paso = "inactivar" => RecienCreado'
  <2> SUFFICES ASSUME paso = "inactivar" PROVE RecienCreado'
    OBVIOUS
  <2>1. RecienCreado /\ Mg!Turno' = Mg!Turno
    BY <1>1 DEF MgLleva, Mg!Turno
  <2>2. destino.prods[Ultimo].prov \in DOMAIN destino.provs
    BY <1>1, <2>1 DEF MgTipos, RecienCreado
  <2> QED
    BY <2>1, <2>2 DEF RecienCreado, Ultimo, ProvsSiguen
<1>5. ASSUME NEW k \in nuevos, Mg!ComoEra(destino.prods[k])
      PROVE  Mg!ComoEra(destino.prods[k])'
  <2>1. k \in DOMAIN destino.prods /\ ProdSigue(k)
    BY <1>1 DEF MgTipos, ProdSigue
  <2> QED
    BY <1>1, <1>5, <2>1, ComoEraSigue
<1>6. ASSUME paso \in {"productos", "inactivar", "fin"}, errores' = 0
      PROVE  /\ \A k \in plan \ quedan : Origen[k].nombre \in Mg!Nombres(destino'.prods)
             /\ \A k \in nuevos : (paso = "inactivar" /\ k = Ultimo) \/ Mg!ComoEra(destino.prods[k])'
  BY <1>1, <1>5, <1>6 DEF MgLleva
<1>7. MgLleva'
  BY <1>1, <1>4, <1>6 DEF MgLleva, Ultimo
<1> QED
  BY <1>2, <1>3, <1>7 DEF MgInv

\* A row more is behind the others.
LEMMA AgregadaEs ==
    ASSUME NEW T, NEW s \in Seq(T), NEW x \in T
    PROVE  /\ Append(s, x) \in Seq(T) /\ Len(Append(s, x)) = Len(s) + 1 /\ Len(s) \in Nat
           /\ DOMAIN Append(s, x) = DOMAIN s \cup {Len(s) + 1} /\ DOMAIN s = 1..Len(s)
           /\ \A k \in DOMAIN s : Append(s, x)[k] = s[k]
           /\ Append(s, x)[Len(s) + 1] = x
OBVIOUS

\* One supplier.
LEMMA MgProveedor ==
    ASSUME MgInv, NEW p \in falta, Mg!PasoProveedor(p)
    PROVE  MgInv'
<1>1. /\ paso = "proveedores" /\ falta' = falta \ {p} /\ UNCHANGED <<paso, plan, quedan, ya, nuevos>>
      /\ MgTipos /\ MgListas /\ p \in STRING /\ errores \in Nat /\ destino \in TipoDestino
      /\ SabeDeEste
  BY DEF Mg!PasoProveedor, MgInv, MgTipos, MgListas
<1>2. CASE /\ p \in DOMAIN ya
           /\ deEste' = [q \in DOMAIN deEste \cup {p} |-> IF q = p THEN ya[p] ELSE deEste[q]]
           /\ UNCHANGED <<destino, errores, fallos>>
  <2>1. \A q \in DOMAIN deEste' : ProvDe(q, deEste'[q])
    BY <1>1, <1>2 DEF MgListas, SabeDeEste
  <2>2. SabeDeEste'
    BY <1>2, <2>1 DEF SabeDeEste, ProvDe
  <2>3. ProvsSiguen
    BY <1>2 DEF ProvsSiguen
  <2>4. falta' \subseteq STRING
    BY <1>1 DEF MgTipos
  <2> QED
    BY <1>1, <1>2, <2>2, <2>3, <2>4, MgSuministra
<1>3. CASE /\ destino' = [destino EXCEPT !.provs = Append(@, [nombre |-> p, activo |-> TRUE])]
           /\ deEste' = [q \in DOMAIN deEste \cup {p} |->
                           IF q = p THEN Len(destino'.provs) ELSE deEste[q]]
           /\ UNCHANGED <<errores, fallos>>
  <2> DEFINE s == destino.provs
             x == [nombre |-> p, activo |-> TRUE]
  <2>1. s \in Seq(TipoProv) /\ x \in TipoProv
    BY <1>1 DEF TipoDestino, TipoProv
  <2>2. /\ Append(s, x) \in Seq(TipoProv) /\ Len(Append(s, x)) = Len(s) + 1 /\ Len(s) \in Nat
        /\ DOMAIN Append(s, x) = DOMAIN s \cup {Len(s) + 1}
        /\ \A k \in DOMAIN s : Append(s, x)[k] = s[k]
        /\ Append(s, x)[Len(s) + 1] = x
    BY <2>1, AgregadaEs
  <2>3. /\ destino' \in TipoDestino /\ destino'.prods = destino.prods
        /\ destino'.provs = Append(s, x)
    BY <1>1, <1>3, <2>2 DEF TipoDestino
  <2>4. x.nombre = p
    OBVIOUS
  <2> HIDE DEF s, x
  <2>5. ProvsSiguen
    BY <2>2, <2>3 DEF ProvsSiguen, s
  <2>6. destino'.provs[Len(s) + 1].nombre = p /\ Len(s) + 1 \in DOMAIN destino'.provs
        /\ Len(destino'.provs) = Len(s) + 1
    BY <2>2, <2>3, <2>4
  <2>7. ASSUME NEW q \in DOMAIN deEste'
        PROVE  deEste'[q] \in DOMAIN destino'.provs /\ destino'.provs[deEste'[q]].nombre = q
    <3>1. CASE q = p
      <4>1. deEste'[q] = Len(s) + 1
        BY <1>3, <2>6, <2>7, <3>1
      <4> QED
        BY <2>6, <3>1, <4>1
    <3>2. CASE q # p
      <4>1. q \in DOMAIN deEste /\ deEste'[q] = deEste[q]
        BY <1>3, <2>7, <3>2
      <4>2. ProvDe(q, deEste[q])
        BY <1>1, <4>1 DEF SabeDeEste
      <4> QED
        BY <2>5, <4>1, <4>2 DEF ProvDe, ProvsSiguen
    <3> QED
      BY <3>1, <3>2
  <2>9. SabeDeEste'
    BY <2>7 DEF SabeDeEste, ProvDe
  <2>8. falta' \subseteq STRING /\ errores' \in Nat /\ (errores' = 0 => errores = 0)
    BY <1>1, <1>3 DEF MgTipos
  <2> QED
    BY <1>1, <2>3, <2>5, <2>8, <2>9, MgSuministra
<1>4. CASE Mg!Anotar /\ UNCHANGED <<destino, deEste>>
  <2>1. ProvsSiguen /\ SabeDeEste'
    BY <1>1, <1>4 DEF ProvsSiguen, SabeDeEste, ProvDe
  <2>2. errores' \in Nat /\ errores' # 0 /\ falta' \subseteq STRING
    BY <1>1, <1>4 DEF Mg!Anotar, MgTipos
  <2> QED
    BY <1>1, <1>4, <2>1, <2>2, MgSuministra
<1> QED
  BY <1>2, <1>3, <1>4 DEF Mg!PasoProveedor

\* One category.
LEMMA MgCategoria ==
    ASSUME MgInv, NEW c \in falta, Mg!PasoCategoria(c)
    PROVE  MgInv'
<1>1. /\ falta' = falta \ {c} /\ UNCHANGED <<paso, plan, quedan, ya, deEste, nuevos>>
      /\ MgTipos /\ c \in STRING /\ errores \in Nat /\ destino \in TipoDestino
      /\ SabeDeEste
  BY DEF Mg!PasoCategoria, MgInv, MgTipos, MgListas
<1>2. /\ destino' \in TipoDestino /\ destino'.prods = destino.prods /\ destino'.provs = destino.provs
      /\ errores' \in Nat /\ (errores' = 0 => errores = 0)
  <2>1. CASE destino' = destino
    BY <1>1, <2>1 DEF Mg!PasoCategoria, Mg!Anotar
  <2>2. CASE destino' # destino
    <3>1. destino' = [destino EXCEPT !.cats = @ \cup {c}] /\ errores' = errores
      BY <2>2 DEF Mg!PasoCategoria
    <3> QED
      BY <1>1, <3>1 DEF TipoDestino
  <2> QED
    BY <2>1, <2>2
<1>3. ProvsSiguen /\ SabeDeEste'
  BY <1>1, <1>2 DEF ProvsSiguen, SabeDeEste, ProvDe
<1>4. falta' \subseteq STRING
  BY <1>1 DEF MgTipos
<1> QED
  BY <1>1, <1>2, <1>3, <1>4, MgSuministra

\* A supplier that people leave inactive keeps its name.
LEMMA MgDesactiva ==
    ASSUME MgInv, NEW k \in DOMAIN destino.provs, Mg!DesactivarProveedor(k)
    PROVE  MgInv'
<1>1. /\ destino' = [destino EXCEPT !.provs[k].activo = FALSE]
      /\ UNCHANGED <<paso, plan, quedan, falta, ya, deEste, nuevos, errores>>
      /\ MgTipos /\ errores \in Nat /\ destino \in TipoDestino
      /\ SabeDeEste
  BY DEF Mg!DesactivarProveedor, Mg!corrida, MgInv, MgTipos, MgListas
<1> DEFINE s == destino.provs
           x == [s[k] EXCEPT !.activo = FALSE]
           u == [s EXCEPT ![k] = x]
<1>2. s \in Seq(TipoProv) /\ s[k] \in TipoProv
  BY <1>1 DEF TipoDestino
<1>3. x \in TipoProv /\ x.nombre = s[k].nombre
  BY <1>2 DEF TipoProv
<1>4. destino' = [destino EXCEPT !.provs = u]
  BY <1>1, <1>2 DEF TipoDestino, TipoProv
<1> HIDE DEF x
<1>5. u \in Seq(TipoProv) /\ DOMAIN u = DOMAIN s /\ \A j \in DOMAIN s : u[j] = IF j = k THEN x ELSE s[j]
  BY <1>2, <1>3
<1> HIDE DEF u
<1>6. destino' \in TipoDestino /\ destino'.prods = destino.prods /\ destino'.provs = u
  BY <1>1, <1>4, <1>5 DEF TipoDestino
<1>7. ProvsSiguen
  BY <1>3, <1>5, <1>6 DEF ProvsSiguen
<1>8. SabeDeEste'
  BY <1>1, <1>7 DEF ProvsSiguen, SabeDeEste, ProvDe
<1>9. falta' \subseteq STRING
  BY <1>1 DEF MgTipos
<1> HIDE DEF s
<1> QED
  BY <1>1, <1>6, <1>7, <1>8, <1>9, MgSuministra

\* The end of a run, whatever its reason.
LEMMA MgAcaba ==
    ASSUME MgInv, Mg!Terminar \/ Mg!Salir \/ Mg!Cortar
    PROVE  MgInv'
<1>1. /\ UNCHANGED <<destino, plan, quedan, falta, ya, deEste, nuevos, errores>>
      /\ paso' = "fuera" \/ (paso = "productos" /\ paso' = "fin" /\ quedan = {})
  BY DEF Mg!Terminar, Mg!Salir, Mg!Cortar, Mg!corrida
<1>2. MgTipos' /\ MgListas'
  BY <1>1 DEF MgInv, MgTipos, MgListas, SabeDeEste, ProvDe
<1>3. ASSUME NEW k \in nuevos, Mg!ComoEra(destino.prods[k])
      PROVE  Mg!ComoEra(destino.prods[k])'
  BY <1>1, <1>3 DEF Mg!ComoEra
<1>4. MgLleva'
  BY <1>1, <1>3 DEF MgInv, MgLleva
<1> QED
  BY <1>2, <1>4 DEF MgInv
\* A product that was there already, or that is noted as missing.
LEMMA MgSinCrear ==
    ASSUME MgInv, paso = "productos", paso' = paso, quedan # {}, quedan' = quedan \ {Mg!Turno},
           UNCHANGED <<destino, plan, falta, ya, deEste, nuevos>>, errores' \in Nat,
           errores' = 0 => errores = 0 /\ Origen[Mg!Turno].nombre \in Mg!Nombres(destino.prods)
    PROVE  MgInv'
<1>1. MgTipos /\ MgListas /\ MgLleva
  BY DEF MgInv
<1>2. MgTipos'
  BY <1>1 DEF MgTipos
<1>3. MgListas'
  BY <1>1 DEF MgListas, SabeDeEste, ProvDe
<1>4. ASSUME NEW k \in nuevos, Mg!ComoEra(destino.prods[k])
      PROVE  Mg!ComoEra(destino.prods[k])'
  BY <1>4 DEF Mg!ComoEra
<1>5. MgLleva'
  BY <1>1, <1>4 DEF MgLleva
<1> QED
  BY <1>2, <1>3, <1>5 DEF MgInv

\* A product that is created: active ones are finished with, the others are to be
\* left inactive.
LEMMA MgCrea ==
    ASSUME MgInv, paso = "productos", quedan # {}, UNCHANGED <<plan, falta, ya, deEste, errores>>,
           Origen[Mg!Turno].proveedor \in DOMAIN deEste, Mg!Crear(Origen[Mg!Turno]),
           \/ ~Origen[Mg!Turno].activo /\ paso' = "inactivar" /\ quedan' = quedan
           \/ Origen[Mg!Turno].activo /\ paso' = "productos" /\ quedan' = quedan \ {Mg!Turno}
    PROVE  MgInv'
<1> DEFINE o == Origen[Mg!Turno]
           s == destino.prods
           x == [nombre |-> o.nombre, prov |-> deEste[o.proveedor], activo |-> TRUE]
<1>0. PICK n \in Nat : n = Len(s) + 1
  BY DEF MgInv, MgTipos, TipoDestino
<1>1. /\ MgTipos /\ MgListas /\ MgLleva /\ o \in TipoOrigen /\ destino \in TipoDestino
      /\ s \in Seq(TipoProd) /\ destino.provs \in Seq(TipoProv)
      /\ Mg!Turno \in quedan /\ Mg!Turno \in plan /\ plan \subseteq DOMAIN Origen
      /\ nuevos \subseteq DOMAIN s
  BY TurnoEs, OrigenEs DEF MgInv, MgTipos, TipoDestino
<1>2. /\ deEste[o.proveedor] \in DOMAIN destino.provs
      /\ destino.provs[deEste[o.proveedor]].nombre = o.proveedor
  BY <1>1 DEF MgListas, SabeDeEste, ProvDe
<1>3. /\ x \in TipoProd /\ x.nombre = o.nombre /\ x.prov = deEste[o.proveedor] /\ x.activo = TRUE
  BY <1>1, <1>2 DEF TipoOrigen, TipoProd
<1>4. destino' = [destino EXCEPT !.prods = Append(s, x)] /\ nuevos' = nuevos \cup {Len(destino'.prods)}
  BY DEF Mg!Crear
<1> HIDE DEF x
<1>5. /\ Append(s, x) \in Seq(TipoProd) /\ Len(Append(s, x)) = n
      /\ DOMAIN Append(s, x) = DOMAIN s \cup {n} /\ n \notin DOMAIN s
      /\ \A k \in DOMAIN s : Append(s, x)[k] = s[k]
      /\ Append(s, x)[n] = x
  BY <1>0, <1>1, <1>3, AgregadaEs
<1>6. /\ destino' \in TipoDestino /\ destino'.provs = destino.provs /\ destino'.prods = Append(s, x)
  BY <1>1, <1>4, <1>5 DEF TipoDestino
<1>7. /\ DOMAIN destino'.prods = DOMAIN s \cup {n} /\ Ultimo' = n /\ n \notin DOMAIN s
      /\ destino'.prods[n] = x /\ nuevos' = nuevos \cup {n}
      /\ \A k \in DOMAIN s : destino'.prods[k] = s[k]
  BY <1>4, <1>5, <1>6 DEF Ultimo
<1> HIDE DEF o, s
<1>8. MgTipos'
  <2>1. \A k \in DOMAIN destino'.prods : destino'.prods[k].prov \in DOMAIN destino'.provs
    BY <1>1, <1>2, <1>3, <1>6, <1>7 DEF MgTipos, s
  <2>2. quedan' \subseteq plan' /\ nuevos' \subseteq DOMAIN destino'.prods
    BY <1>1, <1>7 DEF MgTipos
  <2> QED
    BY <1>1, <1>6, <2>1, <2>2 DEF MgTipos
<1>9. Mg!Nombres(destino'.prods) = Mg!Nombres(s) \cup {o.nombre}
  BY <1>3, <1>7 DEF Mg!Nombres
<1>10. MgListas'
  <2>1. SabeDeEste'
    BY <1>1, <1>6 DEF MgListas, SabeDeEste, ProvDe
  <2>2. paso' \in {"productos", "inactivar"} /\ DOMAIN ya' \subseteq Mg!Nombres(destino'.prods)
    BY <1>1, <1>9 DEF MgListas, s
  <2> QED
    BY <2>1, <2>2 DEF MgListas
<1>11. ASSUME NEW k \in nuevos, Mg!ComoEra(destino.prods[k])
       PROVE  Mg!ComoEra(destino.prods[k])'
  <2>1. ProvsSiguen /\ ProdSigue(k) /\ k \in DOMAIN destino.prods
    BY <1>1, <1>6, <1>7 DEF ProvsSiguen, ProdSigue, s
  <2> QED
    BY <1>1, <1>11, <2>1, ComoEraSigue
<1>12. o.activo => Mg!ComoEra(destino.prods[n])'
  <2> SUFFICES ASSUME o.activo PROVE Mg!ComoEra(destino.prods[n])'
    OBVIOUS
  <2>1. o.activo = TRUE
    BY <1>1 DEF TipoOrigen
  <2> QED
    BY <1>1, <1>2, <1>3, <1>6, <1>7, <2>1 DEF Mg!ComoEra, o
<1>13. paso' = "inactivar" => RecienCreado'
  <2> SUFFICES ASSUME paso' = "inactivar" PROVE RecienCreado'
    OBVIOUS
  <2>1. ~o.activo /\ quedan' = quedan
    BY DEF o
  <2>2. Mg!Turno' = Mg!Turno
    BY <2>1 DEF Mg!Turno
  <2>3. o.activo = FALSE
    BY <1>1, <2>1 DEF TipoOrigen
  <2> QED
    BY <1>2, <1>3, <1>6, <1>7, <2>1, <2>2, <2>3 DEF RecienCreado, o
<1>14. ASSUME errores = 0
       PROVE  /\ \A k \in plan' \ quedan' : Origen[k].nombre \in Mg!Nombres(destino'.prods)
              /\ \A k \in nuevos' : (paso' = "inactivar" /\ k = n) \/ Mg!ComoEra(destino.prods[k])'
  <2>1. /\ \A k \in plan \ quedan : Origen[k].nombre \in Mg!Nombres(s)
        /\ \A k \in nuevos : Mg!ComoEra(destino.prods[k])
    BY <1>1, <1>14 DEF MgLleva, s
  <2>2. \A k \in plan' \ quedan' : Origen[k].nombre \in Mg!Nombres(destino'.prods)
    BY <1>9, <2>1 DEF o
  <2>3. paso' = "inactivar" \/ o.activo
    BY DEF o
  <2>4. \A k \in nuevos : Mg!ComoEra(destino.prods[k])'
    BY <1>11, <2>1
  <2> QED
    BY <1>7, <1>12, <2>2, <2>3, <2>4
<1>15. MgLleva'
  BY <1>7, <1>13, <1>14 DEF MgLleva
<1> QED
  BY <1>8, <1>10, <1>15 DEF MgInv

\* One product.
LEMMA MgProducto ==
    ASSUME MgInv, Mg!PasoProducto
    PROVE  MgInv'
<1> DEFINE o == Origen[Mg!Turno]
<1>1. /\ paso = "productos" /\ quedan # {} /\ UNCHANGED <<plan, falta, ya, deEste>>
      /\ errores \in Nat /\ nuevos \subseteq DOMAIN destino.prods
      /\ DOMAIN ya \subseteq Mg!Nombres(destino.prods) /\ destino.prods \in Seq(TipoProd)
      /\ destino \in TipoDestino
  BY DEF Mg!PasoProducto, MgInv, MgTipos, MgListas, TipoDestino
<1>2. ASSUME nuevos' = nuevos
      PROVE  quedan' = quedan \ {Mg!Turno} /\ paso' = paso
  BY <1>2 DEF Mg!PasoProducto, Mg!Pasar
<1>3. CASE o.nombre \in DOMAIN ya /\ UNCHANGED <<destino, nuevos, errores, fallos>>
  <2>1. errores' \in Nat /\ (errores' = 0 => errores = 0 /\ o.nombre \in Mg!Nombres(destino.prods))
    BY <1>1, <1>3
  <2> QED
    BY <1>1, <1>2, <1>3, <2>1, MgSinCrear
<1>4. CASE Mg!Anotar /\ UNCHANGED <<destino, nuevos>>
  <2>1. errores' \in Nat /\ errores' # 0
    BY <1>1, <1>4 DEF Mg!Anotar
  <2> QED
    BY <1>1, <1>2, <1>4, <2>1, MgSinCrear
<1>5. CASE o.proveedor \in DOMAIN deEste /\ Mg!Crear(o) /\ UNCHANGED <<errores, fallos>>
  <2> DEFINE x == [nombre |-> o.nombre, prov |-> deEste[o.proveedor], activo |-> TRUE]
  <2>1. o \in TipoOrigen /\ x.nombre = o.nombre
    BY <1>1, TurnoEs, OrigenEs DEF MgInv
  <2>2. destino' = [destino EXCEPT !.prods = Append(destino.prods, x)]
        /\ nuevos' = nuevos \cup {Len(destino'.prods)}
    BY <1>5 DEF Mg!Crear
  <2>3. destino'.prods = Append(destino.prods, x)
    BY <1>1, <2>2 DEF TipoDestino
  <2>4. Len(Append(destino.prods, x)) \notin DOMAIN destino.prods
    <3> HIDE DEF x
    <3> QED
      BY <1>1
  <2>5. nuevos' # nuevos
    BY <1>1, <2>2, <2>3, <2>4
  <2>6. \/ ~o.activo /\ paso' = "inactivar" /\ quedan' = quedan
        \/ o.activo /\ paso' = "productos" /\ quedan' = quedan \ {Mg!Turno}
    BY <1>1, <2>5 DEF Mg!PasoProducto, Mg!Pasar
  <2> QED
    BY <1>1, <1>5, <2>6, MgCrea
<1> QED
  BY <1>3, <1>4, <1>5 DEF Mg!PasoProducto

\* What was just created is left inactive, or the failure to do so is noted.
LEMMA MgDejaInactivo ==
    ASSUME MgInv, Mg!DejarInactivo
    PROVE  MgInv'
<1>1. /\ paso = "inactivar" /\ paso' = "productos" /\ quedan' = quedan \ {Mg!Turno}
      /\ UNCHANGED <<plan, falta, ya, deEste, nuevos>>
      /\ MgTipos /\ MgListas /\ MgLleva /\ errores \in Nat /\ destino \in TipoDestino
      /\ destino.prods \in Seq(TipoProd)
      /\ Mg!Turno \in plan /\ RecienCreado
  BY TurnoEs DEF Mg!DejarInactivo, Mg!Pasar, MgInv, MgTipos, MgLleva, RecienCreado, TipoDestino
<1>2. CASE Mg!Anotar /\ UNCHANGED destino
  <2>1. errores' \in Nat /\ errores' # 0
    BY <1>1, <1>2 DEF Mg!Anotar
  <2>2. MgTipos'
    BY <1>1, <1>2, <2>1 DEF MgTipos
  <2>3. MgListas'
    BY <1>1, <1>2 DEF MgListas, SabeDeEste, ProvDe
  <2>4. MgLleva'
    BY <1>1, <2>1 DEF MgLleva
  <2> QED
    BY <2>2, <2>3, <2>4 DEF MgInv
<1>3. CASE destino' = [destino EXCEPT !.prods[Ultimo].activo = FALSE] /\ errores' = errores
  <2>0. PICK n \in DOMAIN destino.prods : n = Ultimo
    BY <1>1 DEF RecienCreado
  <2>k. PICK k0 \in plan : k0 = Mg!Turno
    BY <1>1
  <2> DEFINE s == destino.prods
             x == [s[n] EXCEPT !.activo = FALSE]
             u == [s EXCEPT ![n] = x]
  <2>1. n \in DOMAIN s /\ s[n] \in TipoProd /\ s \in Seq(TipoProd)
    BY <1>1, <2>0
  <2>2. x \in TipoProd /\ x.nombre = s[n].nombre /\ x.prov = s[n].prov /\ x.activo = FALSE
    BY <2>1 DEF TipoProd
  <2>3. destino' = [destino EXCEPT !.prods = u]
    BY <1>1, <1>3, <2>0, <2>1 DEF TipoDestino, TipoProd
  <2> HIDE DEF x
  <2>4. u \in Seq(TipoProd) /\ DOMAIN u = DOMAIN s /\ \A k \in DOMAIN s : u[k] = IF k = n THEN x ELSE s[k]
    BY <2>1, <2>2
  <2> HIDE DEF u
  <2>5. destino' \in TipoDestino /\ destino'.provs = destino.provs /\ destino'.prods = u
    BY <1>1, <2>3, <2>4 DEF TipoDestino
  <2>6. MgTipos'
    <3>1. \A k \in DOMAIN u : u[k].prov \in DOMAIN destino.provs
      BY <1>1, <2>1, <2>2, <2>4 DEF MgTipos
    <3> QED
      BY <1>1, <1>3, <2>4, <2>5, <3>1 DEF MgTipos
  <2>7. \A k \in DOMAIN s : u[k].nombre = s[k].nombre
    BY <2>1, <2>2, <2>4
  <2>8. Mg!Nombres(destino'.prods) = Mg!Nombres(destino.prods)
    BY <2>4, <2>5, <2>7 DEF Mg!Nombres
  <2>9. MgListas'
    BY <1>1, <2>5, <2>8 DEF MgListas, SabeDeEste, ProvDe
  <2>10. Origen[Mg!Turno].nombre \in Mg!Nombres(destino.prods)
    BY <1>1, <2>0, <2>1 DEF RecienCreado, Mg!Nombres
  <2>11. Mg!ComoEra(destino.prods[n])'
    <3>1. destino'.prods[n] = x
      BY <2>1, <2>4, <2>5
    <3>2. /\ s[n].nombre = Origen[k0].nombre /\ Origen[k0].activo = FALSE
          /\ destino.provs[s[n].prov].nombre = Origen[k0].proveedor
      BY <1>1, <2>0, <2>k DEF RecienCreado
    <3>3. k0 \in plan'
      BY <1>1
    <3>4. /\ destino'.prods[n].nombre = Origen[k0].nombre /\ destino'.prods[n].activo = Origen[k0].activo
          /\ destino'.provs[destino'.prods[n].prov].nombre = Origen[k0].proveedor
      BY <2>2, <2>5, <3>1, <3>2
    <3> QED
      BY <3>3, <3>4 DEF Mg!ComoEra
  <2>12. ASSUME NEW k \in nuevos \ {n}, Mg!ComoEra(destino.prods[k])
         PROVE  Mg!ComoEra(destino.prods[k])'
    <3>1. k \in DOMAIN destino.prods
      BY <1>1 DEF MgTipos
    <3>2. ProvsSiguen /\ ProdSigue(k)
      BY <2>4, <2>5, <2>12, <3>1 DEF ProvsSiguen, ProdSigue
    <3> QED
      BY <1>1, <2>12, <3>1, <3>2, ComoEraSigue
  <2>13. ASSUME errores = 0
         PROVE  /\ \A k \in plan' \ quedan' : Origen[k].nombre \in Mg!Nombres(destino'.prods)
                /\ \A k \in nuevos' : Mg!ComoEra(destino.prods[k])'
    <3>1. /\ \A k \in plan \ quedan : Origen[k].nombre \in Mg!Nombres(destino.prods)
          /\ \A k \in nuevos : k = n \/ Mg!ComoEra(destino.prods[k])
      BY <1>1, <2>0, <2>13 DEF MgLleva
    <3>2. \A k \in plan' \ quedan' : Origen[k].nombre \in Mg!Nombres(destino'.prods)
      BY <1>1, <2>8, <2>10, <3>1
    <3>3. \A k \in nuevos' : Mg!ComoEra(destino.prods[k])'
      BY <1>1, <2>11, <2>12, <3>1
    <3> QED
      BY <3>2, <3>3
  <2>14. MgLleva'
    BY <1>1, <1>3, <2>13 DEF MgLleva
  <2> QED
    BY <2>6, <2>9, <2>14 DEF MgInv
<1> QED
  BY <1>2, <1>3 DEF Mg!DejarInactivo, Ultimo

\* Whatever is refused, lost, cut off or deactivated.
LEMMA MgPaso == MgInv /\ [Mg!Next]_deMigrar => MgInv'
<1> SUFFICES ASSUME MgInv, [Mg!Next]_deMigrar PROVE MgInv'
  OBVIOUS
<1>1. CASE UNCHANGED deMigrar
  BY <1>1 DEF deMigrar, MgInv, MgTipos, MgListas, SabeDeEste, ProvDe, MgLleva, RecienCreado, Ultimo,
              Mg!Turno, Mg!ComoEra, Mg!Nombres
<1>2. CASE Mg!Next
  BY <1>2, MgEmpieza, MgLista, MgProveedor, MgCategoria, MgProducto, MgDejaInactivo, MgAcaba,
     MgDesactiva DEF Mg!Next
<1> QED
  BY <1>1, <1>2

\* A run without errors left nothing out.
LEMMA MgCumple == MgInv => Mg!MigracionCompleta
<1> SUFFICES ASSUME MgInv, paso = "fin", errores = 0
             PROVE  /\ {Origen[k].nombre : k \in plan} \subseteq Mg!Nombres(destino.prods)
                    /\ \A k \in nuevos : Mg!ComoEra(destino.prods[k])
  BY DEF Mg!MigracionCompleta
<1> QED
  BY DEF MgInv, MgLleva
-----------------------------------------------------------------------------
(* All of them: the invariant of each part, while it is the one that runs. *)

InvOperacion ==
    /\ parte = "inventario" => Inv /\ ConteoInv
    /\ parte = "migraciones" => MiInv
    /\ parte = "canjes" => CjInv
    /\ parte = "areas" => ArInv
    /\ parte = "opciones" => OpInv
    /\ parte = "migrar" => MgInv

\* It holds at the start, in whichever part.
LEMMA InicioOperacion == InitOperacion => InvOperacion
BY EmpiezaInv, EmpiezaConteo, MiInicio, CjInicio, ArInicio, OpInicio, MgInicio
   DEF InitOperacion, InvOperacion

\* A step of the system is one of the part that runs, or none.
LEMMA PasoDeParte ==
    ASSUME [NextOperacion]_todas
    PROVE  /\ parte' = parte
           /\ parte = "inventario" => [Next]_vars
           /\ parte = "migraciones" => [Mi!Next]_deMigraciones
           /\ parte = "canjes" => [Cj!Next]_deCanjes
           /\ parte = "areas" => [Ar!Next]_deAreas
           /\ parte = "opciones" => [Op!Next]_deOpciones
           /\ parte = "migrar" => [Mg!Next]_deMigrar
<1>1. CASE NextOperacion
  BY <1>1 DEF NextOperacion
<1>2. CASE UNCHANGED todas
  BY <1>2 DEF todas
<1> QED
  BY <1>1, <1>2

\* Every step keeps it.
LEMMA PasoOperacion == InvOperacion /\ [NextOperacion]_todas => InvOperacion'
<1> SUFFICES ASSUME InvOperacion, [NextOperacion]_todas PROVE InvOperacion'
  OBVIOUS
<1>1. parte = "inventario" => Inv' /\ ConteoInv'
  BY PasoDeParte, PasoInv, ConteoPaso DEF InvOperacion
<1>3. parte = "migraciones" => MiInv'
  BY PasoDeParte, MiPaso DEF InvOperacion
<1>4. parte = "canjes" => CjInv'
  BY PasoDeParte, CjPaso DEF InvOperacion
<1>5. parte = "areas" => ArInv'
  BY PasoDeParte, ArPaso DEF InvOperacion
<1>6. parte = "opciones" => OpInv'
  BY PasoDeParte, OpPaso DEF InvOperacion
<1>7. parte = "migrar" => MgInv'
  BY PasoDeParte, MgPaso DEF InvOperacion
<1> QED
  BY <1>1, <1>3, <1>4, <1>5, <1>6, <1>7, PasoDeParte DEF InvOperacion

\* The invariant of the system.
LEMMA SiempreOperacion == SpecOperacion => []InvOperacion
BY InicioOperacion, PasoOperacion, PTL DEF SpecOperacion

-----------------------------------------------------------------------------
(* The properties of the run.                                              *)

\* Every file is applied once at most and in its order, whoever deploys at the
\* same time and wherever a deploy is cut off; a code is accepted once at most, and
\* a used link leaves one password (UnaSolaVez: runner.js, canjearCodigo,
\* aceptarInvitacion).
THEOREM UnaSolaVezDelSistema == SpecOperacion => []UnaSolaVez
<1>1. MiInv => Mi!AplicadaUnaVez /\ Mi!EnOrden
  BY DEF MiInv
<1>2. InvOperacion => UnaSolaVez
  BY <1>1, CjCumple DEF InvOperacion, UnaSolaVez
<1> QED
  BY <1>2, SiempreOperacion, PTL

\* A group of options on offer has options and a minimum its maximum admits, after any
\* edits, and no more to choose than it has unless its last edit named one option twice;
\* what a line took was on offer at one time (OpcionesCoherentes: #validarDatos,
\* gruposDeArticulo).
THEOREM OpcionesDelSistema == SpecOperacion => []OpcionesCoherentes
<1>1. InvOperacion => OpcionesCoherentes
  BY OpCumple DEF InvOperacion, OpcionesCoherentes
<1> QED
  BY <1>1, SiempreOperacion, PTL

\* A run of the script that ends without errors left nothing out, however many
\* were cut off before it (MigracionCompleta: migrar_catalogo.js).
THEOREM MigracionDelSistema == SpecOperacion => []MigracionCompleta
<1>1. InvOperacion => MigracionCompleta
  BY MgCumple DEF InvOperacion, MigracionCompleta
<1> QED
  BY <1>1, SiempreOperacion, PTL

\* A company that has one default area, active, has one and active after every
\* step, whatever changes, creations and seeds overlap (SiemprePredeterminada:
\* crearArea, actualizarArea, asegurarAreas).
THEOREM PredeterminadaDelSistema == SpecOperacion => SiemprePredeterminada
<1>1. InvOperacion /\ [NextOperacion]_todas => [parte = "areas" => Ar!PredeterminadaSigue]_areas
  BY PasoDeParte, ArCumple DEF InvOperacion
<1> QED
  BY <1>1, SiempreOperacion, PTL DEF SpecOperacion, SiemprePredeterminada

\* While the stock is the part that runs, a count corrects what was off and the
\* transactions never wait for one another in a circle, as in Inventario alone.
THEOREM AnaquelDelSistema ==
    SpecOperacion => [](parte = "inventario" => ConteoCorrige /\ SinAbrazoMortal)
<1>1. InvOperacion => (parte = "inventario" => ConteoCorrige /\ SinAbrazoMortal)
  BY ConteoInvCorrige, InvSinAbrazo DEF InvOperacion
<1> QED
  BY <1>1, SiempreOperacion, PTL
=============================================================================
