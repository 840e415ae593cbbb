------------------------- MODULE ServiciosProofs --------------------------
(***************************************************************************)
(* Theorems about Servicios and the components it puts together: the keys  *)
(* of repeated requests (Idempotencia), who is let in (Sesion, Pin), the   *)
(* books (Finanzas), the catalogues (Catalogo), the costs (Costeo) and     *)
(* their cascades when several cross (Cascadas).  One part per component,  *)
(* each with its inductive invariant; the composition is at the end.       *)
(***************************************************************************)
EXTENDS Servicios, SumasProofs, SequenceTheorems

-----------------------------------------------------------------------------
(* Idempotencia: for any petitions with the same key, any bodies and any   *)
(* number of servers that stop.                                            *)

\* The rows of pos_idempotencia.
Filas == [dueno: Peticiones, confirmada: BOOLEAN, guardada: BOOLEAN]

\* Who holds the key: a row that is not committed is of a petition in its
\* transaction, and the committed one is of the only effect there is.
LlaveConDueno ==
    /\ fila # SinFila /\ ~fila.confirmada => pc[fila.dueno] = "efecto"
    /\ efectos = IF Visible THEN {fila.dueno} ELSE {}

\* And the other way round: a petition in its transaction, or past it, holds
\* the key.
DuenoConLlave ==
    \A p \in Peticiones :
        /\ pc[p] = "efecto" => fila # SinFila /\ fila.dueno = p /\ ~fila.confirmada
        /\ pc[p] \in {"confirmada", "responde"} => Visible /\ fila.dueno = p

\* What a petition that ended was told is so.
DichoCierto ==
    \A p \in Peticiones :
        /\ pc[p] = "2xx" => /\ respuesta[p] \in efectos
                            /\ Cuerpo[respuesta[p]] = Cuerpo[p]
        /\ pc[p] = "409procesada" => \E q \in efectos : Cuerpo[q] = Cuerpo[p]
        /\ pc[p] = "4xx" => p \notin efectos

\* The inductive invariant.
IInv == TypeOK /\ LlaveConDueno /\ DuenoConLlave /\ DichoCierto

-----------------------------------------------------------------------------
\* No row is SinFila.
LEMMA FilaNoVacia == \A f \in Filas : f # SinFila
BY LlaveAssumption DEF Filas

\* At the start nobody has sent anything.
LEMMA InitIInv == Init => IInv
BY LlaveAssumption DEF Init, IInv, TypeOK, LlaveConDueno, DuenoConLlave, DichoCierto, Visible,
   Terminada

\* A petition that only moves, from a place where it does not hold the key to
\* another, keeps the invariant if what it is told is so.
LEMMA SoloMoverse ==
    ASSUME IInv, NEW p \in Peticiones,
           NEW donde \in Terminada \cup {"busca", "abre", "repetida"},
           pc[p] \notin {"efecto"}, Ir(p, donde), UNCHANGED <<fila, efectos, caidas>>,
           respuesta' \in [Peticiones -> Peticiones \cup {Nadie}],
           \A q \in Peticiones : q # p => respuesta'[q] = respuesta[q],
           donde = "2xx" => respuesta'[p] \in efectos /\ Cuerpo[respuesta'[p]] = Cuerpo[p],
           donde = "409procesada" => \E q \in efectos : Cuerpo[q] = Cuerpo[p],
           donde # "4xx"
    PROVE  IInv'
<1>1. /\ pc' \in [Peticiones -> Terminada \cup {"nueva", "busca", "abre", "efecto",
                                  "repetida", "confirmada", "responde"}]
      /\ pc'[p] = donde
      /\ \A q \in Peticiones : q # p => pc'[q] = pc[q]
  BY DEF IInv, TypeOK, Ir
<1>2. TypeOK'
  BY <1>1 DEF IInv, TypeOK
<1>3. donde \notin {"efecto", "confirmada", "responde"}
  BY DEF Terminada
<1>4. LlaveConDueno'
  <2>1. fila # SinFila /\ ~fila.confirmada => fila.dueno # p
    BY DEF IInv, LlaveConDueno
  <2>2. fila # SinFila => fila.dueno \in Peticiones
    BY DEF IInv, TypeOK
  <2> QED
    BY <1>1, <2>1, <2>2 DEF IInv, LlaveConDueno, Visible
<1>5. DuenoConLlave'
  BY <1>1, <1>3 DEF IInv, DuenoConLlave, Visible
<1>6. DichoCierto'
  BY <1>1 DEF IInv, DichoCierto
<1> QED
  BY <1>2, <1>4, <1>5, <1>6 DEF IInv

\* Finding the key, or not, before or after claiming it.
LEMMA BuscarIInv ==
    ASSUME IInv, NEW p \in Peticiones,
           Llegar(p) \/ SinReserva(p) \/ OtroCuerpo(p) \/ Repetir(p) \/ Agotar(p)
    PROVE  IInv'
<1>1. CASE Llegar(p)
  BY <1>1, SoloMoverse DEF Llegar, IInv, TypeOK
<1>2. CASE SinReserva(p)
  BY <1>2, SoloMoverse DEF SinReserva, IInv, TypeOK, Terminada
<1>3. CASE OtroCuerpo(p)
  BY <1>3, SoloMoverse DEF OtroCuerpo, IInv, TypeOK, Terminada
<1>4. CASE Repetir(p)
  <2>1. fila.dueno \in Peticiones /\ fila.dueno \in efectos
    BY <1>4 DEF Repetir, IInv, TypeOK, LlaveConDueno, Visible
  <2>2. /\ respuesta' \in [Peticiones -> Peticiones \cup {Nadie}]
        /\ respuesta'[p] = fila.dueno
        /\ \A q \in Peticiones : q # p => respuesta'[q] = respuesta[q]
    BY <1>4, <2>1 DEF Repetir, IInv, TypeOK
  <2> QED
    BY <1>4, <2>1, <2>2, SoloMoverse DEF Repetir, Terminada
<1>5. CASE Agotar(p)
  <2>1. fila.dueno \in efectos
    BY <1>5 DEF Agotar, IInv, LlaveConDueno, Visible
  <2> QED
    BY <1>5, <2>1, SoloMoverse DEF Agotar, IInv, TypeOK, Terminada
<1> QED
  BY <1>1, <1>2, <1>3, <1>4, <1>5

\* Only who finds no row enters its transaction.
LEMMA ReclamarIInv ==
    ASSUME IInv, NEW p \in Peticiones, Reclamar(p)
    PROVE  IInv'
<1>1. CASE Visible /\ Ir(p, "repetida") /\ UNCHANGED fila
  BY <1>1, SoloMoverse DEF Reclamar, IInv, TypeOK
<1>2. CASE /\ fila = SinFila
           /\ fila' = [dueno |-> p, confirmada |-> FALSE, guardada |-> FALSE]
           /\ Ir(p, "efecto")
  <2>1. fila' \in Filas /\ fila' # SinFila
    BY <1>2, FilaNoVacia DEF Filas
  <2>2. /\ pc' \in [Peticiones -> Terminada \cup {"nueva", "busca", "abre", "efecto",
                                  "repetida", "confirmada", "responde"}]
        /\ pc'[p] = "efecto"
        /\ \A q \in Peticiones : q # p => pc'[q] = pc[q]
    BY <1>2 DEF IInv, TypeOK, Ir
  <2>3. efectos' = {} /\ ~Visible' /\ efectos' = efectos /\ respuesta' = respuesta
    BY <1>2 DEF IInv, LlaveConDueno, Visible, Reclamar
  <2>4. TypeOK'
    BY <2>1, <2>2 DEF IInv, TypeOK, Reclamar, Filas
  <2>5. LlaveConDueno'
    BY <1>2, <2>2, <2>3 DEF LlaveConDueno
  <2>6. DuenoConLlave'
    BY <1>2, <2>1, <2>2 DEF IInv, DuenoConLlave, Visible
  <2>7. DichoCierto'
    BY <2>2, <2>3 DEF IInv, DichoCierto
  <2> QED
    BY <2>4, <2>5, <2>6, <2>7 DEF IInv
<1> QED
  BY <1>1, <1>2 DEF Reclamar

\* The effect that is committed is the first one, and its owner's.
LEMMA ConfirmarIInv ==
    ASSUME IInv, NEW p \in Peticiones, Confirmar(p)
    PROVE  IInv'
<1>1. fila \in Filas /\ fila.dueno = p /\ ~fila.confirmada /\ efectos = {}
  BY FilaNoVacia DEF IInv, TypeOK, DuenoConLlave, LlaveConDueno, Visible, Confirmar, Filas
<1>2. /\ fila' = [fila EXCEPT !.confirmada = TRUE] /\ efectos' = efectos \cup {p}
      /\ respuesta' = respuesta /\ caidas' = caidas
  BY DEF Confirmar
<1>3. fila' \in Filas /\ fila' # SinFila /\ fila'.dueno = p /\ fila'.confirmada
  BY <1>1, <1>2, FilaNoVacia DEF Filas
<1>4. /\ pc' \in [Peticiones -> Terminada \cup {"nueva", "busca", "abre", "efecto",
                                  "repetida", "confirmada", "responde"}]
      /\ pc'[p] = "confirmada"
      /\ \A q \in Peticiones : q # p => pc'[q] = pc[q]
  BY DEF IInv, TypeOK, Confirmar, Ir
<1>5. efectos' = {p}
  BY <1>1, <1>2
<1>6. TypeOK'
  BY <1>2, <1>3, <1>4, <1>5 DEF IInv, TypeOK, Filas
<1>7. LlaveConDueno'
  BY <1>3, <1>5 DEF LlaveConDueno, Visible
<1>8. DuenoConLlave'
  BY <1>1, <1>3, <1>4 DEF IInv, DuenoConLlave, Visible
<1>9. DichoCierto'
  BY <1>1, <1>2, <1>4, <1>5 DEF IInv, DichoCierto, Confirmar
<1> QED
  BY <1>6, <1>7, <1>8, <1>9 DEF IInv

\* A transaction that fails gives the key back with its effect.
LEMMA DeshacerIInv ==
    ASSUME IInv, NEW p \in Peticiones, Deshacer(p)
    PROVE  IInv'
<1>1. fila # SinFila /\ fila.dueno = p /\ ~fila.confirmada /\ efectos = {}
  BY DEF IInv, DuenoConLlave, LlaveConDueno, Visible, Deshacer
<1>2. fila' = SinFila /\ efectos' = efectos /\ respuesta' = respuesta /\ caidas' = caidas
  BY DEF Deshacer
<1>3. /\ pc' \in [Peticiones -> Terminada \cup {"nueva", "busca", "abre", "efecto",
                                  "repetida", "confirmada", "responde"}]
      /\ pc'[p] = "4xx"
      /\ \A q \in Peticiones : q # p => pc'[q] = pc[q]
  BY DEF IInv, TypeOK, Deshacer, Ir, Terminada
<1>4. TypeOK'
  BY <1>2, <1>3 DEF IInv, TypeOK
<1>5. LlaveConDueno'
  BY <1>1, <1>2 DEF LlaveConDueno, Visible
<1>6. DuenoConLlave'
  BY <1>1, <1>3 DEF IInv, DuenoConLlave, Visible
<1>7. DichoCierto'
  BY <1>1, <1>2, <1>3 DEF IInv, DichoCierto
<1> QED
  BY <1>4, <1>5, <1>6, <1>7 DEF IInv

\* After the commit, the row only gets its answer.
LEMMA ResponderIInv ==
    ASSUME IInv, NEW p \in Peticiones, FallarAlLeer(p) \/ Guardar(p) \/ Responder(p)
    PROVE  IInv'
<1>1. fila \in Filas /\ Visible /\ fila.dueno = p /\ efectos = {p}
  <2>1. pc[p] \in {"confirmada", "responde"}
    BY DEF FallarAlLeer, Guardar, Responder
  <2> QED
    BY <2>1 DEF IInv, TypeOK, DuenoConLlave, LlaveConDueno, Visible, Filas
<1>2. CASE FallarAlLeer(p)
  BY <1>2, SoloMoverse DEF FallarAlLeer, IInv, TypeOK, Terminada
<1>3. CASE Responder(p)
  <2>1. /\ respuesta' \in [Peticiones -> Peticiones \cup {Nadie}]
        /\ respuesta'[p] = p
        /\ \A q \in Peticiones : q # p => respuesta'[q] = respuesta[q]
    BY <1>3 DEF Responder, IInv, TypeOK
  <2> QED
    BY <1>1, <1>3, <2>1, SoloMoverse DEF Responder, Terminada
<1>4. CASE Guardar(p)
  <2>1. fila' \in Filas /\ fila' # SinFila /\ fila'.dueno = p /\ fila'.confirmada
    BY <1>1, <1>4, FilaNoVacia DEF Guardar, Visible, Filas
  <2>2. /\ pc' \in [Peticiones -> Terminada \cup {"nueva", "busca", "abre", "efecto",
                                    "repetida", "confirmada", "responde"}]
        /\ pc'[p] = "responde"
        /\ \A q \in Peticiones : q # p => pc'[q] = pc[q]
    BY <1>4 DEF IInv, TypeOK, Guardar, Ir
  <2>3. efectos' = efectos /\ respuesta' = respuesta /\ caidas' = caidas
    BY <1>4 DEF Guardar
  <2>4. TypeOK'
    BY <2>1, <2>2, <2>3 DEF IInv, TypeOK, Filas
  <2>5. LlaveConDueno'
    BY <1>1, <2>1, <2>3 DEF LlaveConDueno, Visible
  <2>6. DuenoConLlave'
    BY <1>1, <2>1, <2>2 DEF IInv, DuenoConLlave, Visible
  <2>7. DichoCierto'
    BY <2>2, <2>3 DEF IInv, DichoCierto
  <2> QED
    BY <2>4, <2>5, <2>6, <2>7 DEF IInv
<1> QED
  BY <1>2, <1>3, <1>4

\* A server that stops takes with it the key of its open transactions, and
\* no other.
LEMMA CaidaIInv ==
    ASSUME IInv, NEW ps \in SUBSET Peticiones, Caida(ps)
    PROVE  IInv'
<1>1. /\ pc' \in [Peticiones -> Terminada \cup {"nueva", "busca", "abre", "efecto",
                                  "repetida", "confirmada", "responde"}]
      /\ \A q \in ps : pc'[q] = "cortada"
      /\ \A q \in Peticiones \ ps : pc'[q] = pc[q]
  BY DEF IInv, TypeOK, Caida, Terminada
<1>2. efectos' = efectos /\ respuesta' = respuesta /\ caidas' \in 0..MaxCaidas
  BY LlaveAssumption DEF IInv, TypeOK, Caida
<1>3. fila' = IF fila # SinFila /\ ~fila.confirmada /\ fila.dueno \in ps THEN SinFila ELSE fila
  BY DEF Caida
<1>4. fila \in {SinFila} \cup Filas
  BY DEF IInv, TypeOK, Filas
<1>5. TypeOK'
  BY <1>1, <1>2, <1>3, <1>4 DEF IInv, TypeOK, Filas
<1>6. LlaveConDueno'
  <2>1. CASE fila # SinFila /\ ~fila.confirmada /\ fila.dueno \in ps
    BY <1>2, <1>3, <2>1 DEF IInv, LlaveConDueno, Visible
  <2>2. CASE ~(fila # SinFila /\ ~fila.confirmada /\ fila.dueno \in ps)
    <3>1. fila' = fila
      BY <1>3, <2>2
    <3>2. fila # SinFila /\ ~fila.confirmada => fila.dueno \in Peticiones \ ps
      BY <1>4, <2>2 DEF Filas
    <3> QED
      BY <1>1, <1>2, <3>1, <3>2 DEF IInv, LlaveConDueno, Visible
  <2> QED
    BY <2>1, <2>2
<1>7. DuenoConLlave'
  <2> SUFFICES ASSUME NEW p \in Peticiones, pc'[p] \in {"efecto", "confirmada", "responde"}
               PROVE  /\ pc'[p] = pc[p]
                      /\ fila' = fila
    BY DEF IInv, DuenoConLlave, Visible
  <2>1. p \notin ps /\ pc'[p] = pc[p]
    BY <1>1
  <2>2. fila.dueno = p
    BY <2>1 DEF IInv, DuenoConLlave
  <2> QED
    BY <1>3, <2>1, <2>2
<1>8. DichoCierto'
  <2> SUFFICES ASSUME NEW p \in Peticiones, pc'[p] \in {"2xx", "409procesada", "4xx"}
               PROVE  pc'[p] = pc[p]
    BY <1>2 DEF IInv, DichoCierto
  <2> QED
    BY <1>1
<1> QED
  BY <1>5, <1>6, <1>7, <1>8 DEF IInv

-----------------------------------------------------------------------------
\* Every step keeps the invariant.
LEMMA PasoIInv == IInv /\ [Next]_vars => IInv'
<1> SUFFICES ASSUME IInv, [Next]_vars PROVE IInv'
  OBVIOUS
<1>1. CASE UNCHANGED vars
  BY <1>1 DEF vars, IInv, TypeOK, LlaveConDueno, DuenoConLlave, DichoCierto, Visible
<1>2. CASE Next
  BY <1>2, BuscarIInv, ReclamarIInv, ConfirmarIInv, DeshacerIInv, ResponderIInv, CaidaIInv
  DEF Next, Paso
<1> QED
  BY <1>1, <1>2

\* The petitions and the row of the key are always well formed.
THEOREM TypeCorrect == Spec => []TypeOK
<1>1. IInv => TypeOK
  BY DEF IInv
<1> QED
  BY <1>1, InitIInv, PasoIInv, PTL DEF Spec

LEMMA IInvUnSoloEfecto == IInv => UnSoloEfecto
<1> SUFFICES ASSUME IInv PROVE UnSoloEfecto
  OBVIOUS
<1>1. Cardinality(efectos) <= 1
  <2>1. efectos = {fila.dueno} \/ efectos = {}
    BY DEF IInv, LlaveConDueno
  <2>2. Cardinality({fila.dueno}) = 1 /\ Cardinality({}) = 0
    BY FS_EmptySet, FS_Singleton
  <2> QED
    BY <2>1, <2>2
<1> QED
  BY <1>1 DEF IInv, DichoCierto, UnSoloEfecto

\* reclamarIdempotencia: one key makes at most one effect, a 2xx carries the
\* result of that effect for the same body, "ya se proceso" is said of an
\* effect that was committed, and a 4xx of none.
THEOREM UnEfectoPorLlave == Spec => []UnSoloEfecto
BY IInvUnSoloEfecto, InitIInv, PasoIInv, PTL DEF Spec

\* Nobody waits for a key that was left behind: while a row is not committed,
\* which is what Reclamar waits for, its owner is in its transaction, and will
\* commit it, undo it or stop.
THEOREM LlaveNoHuerfana ==
    Spec => [](fila # SinFila /\ ~fila.confirmada => pc[fila.dueno] = "efecto")
<1>1. IInv => (fila # SinFila /\ ~fila.confirmada => pc[fila.dueno] = "efecto")
  BY DEF IInv, LlaveConDueno
<1> QED
  BY <1>1, InitIInv, PasoIInv, PTL DEF Spec

-----------------------------------------------------------------------------
(* Pin                                                                     *)

\* What an attempt in flight has read, and how far it is.
Leido == [paso : {"espera", "comparar", "registrar", "contar", "bloquear", "limpiar"},
          d : Equipos, pin : Nat, tv : Nat]

\* Attempts that compared a wrong PIN and have not told it yet, or have not
\* gone away yet, and those that may still compare one; and the same for a
\* device.
PorRegistrar == {k \in Intentos : intento[k].paso = "registrar"}
TrasComparar == {k \in Intentos : intento[k].paso \in {"registrar", "contar", "bloquear"}}
PorComparar  == {k \in Intentos : intento[k].paso \in {"espera", "comparar"}}
RegistranEn(d) == {k \in PorRegistrar : intento[k].d = d}
ComparanEn(d)  == {k \in Intentos : intento[k].paso = "comparar" /\ intento[k].d = d}

PinTipo ==
    /\ usuario \in [pin : Nat, bloqueado : BOOLEAN, tv : Nat]
    /\ fallos \in [Pi!Casillas -> Nat]
    /\ intento \in [Intentos -> {Pi!Libre} \cup Leido]
    /\ admin \in {"libre", "borrar", "borrarYsubir", "subir"}
    /\ definidos \in Nat
    /\ quitados \subseteq 1..definidos

\* While a PIN is being removed there is none, and none that was removed is
\* defined again; who holds what was read before the removal holds an old token
\* version.
SinElQuitado ==
    /\ usuario.pin \in 0..definidos /\ usuario.pin \notin quitados
    /\ admin \in {"borrarYsubir", "subir"} => usuario.pin = 0
    /\ \A s \in entradas : s.pin \in Nat /\ s.tv \in Nat /\ s.tv <= usuario.tv
                           /\ (s.pin \in quitados => s.tv < usuario.tv)
                           /\ s.pin <= definidos
    /\ \A k \in Intentos : intento[k] # Pi!Libre =>
           /\ intento[k].tv <= usuario.tv
           /\ intento[k].pin \in quitados => intento[k].tv < usuario.tv
           /\ intento[k].pin <= definidos

\* The failures of a device since it last cooled.
EnLaRacha(d) == {d} \X {a \in Pi!Edades : a < Ventana /\ Pi!EnRacha(d, a)}
DeLaRacha(d) == SumaDe(fallos, EnLaRacha(d))

\* Until the block there is room below the limit of the hour, other than for
\* those who have compared and not gone; after it nobody else comes in.  While
\* the administrator's operation is between its UPDATE and its DELETE, the
\* failures of before count for nothing.
PresupuestoDuro ==
    admin \notin {"borrar", "borrarYsubir"} =>
        /\ ~usuario.bloqueado =>
              Pi!EnLaHora + Cardinality(PorRegistrar) < MaxDuro + Cardinality(TrasComparar)
        /\ usuario.bloqueado =>
              Pi!EnLaHora + Cardinality(PorRegistrar) + Cardinality(PorComparar)
                  < MaxDuro + Cardinality(Intentos)

\* On a device, those past the check of its cooling still find room.
PresupuestoDeEquipo(d) ==
    DeLaRacha(d) + Cardinality(RegistranEn(d)) + Cardinality(ComparanEn(d))
        < MaxEquipo + Cardinality(Intentos)

PinInv ==
    /\ PinTipo
    /\ SinElQuitado
    /\ PresupuestoDuro
    /\ \A d \in Equipos : PresupuestoDeEquipo(d)

\* Two sets that differ in one element at most.
LEMMA CuentaCambia ==
    ASSUME NEW S, NEW T, IsFiniteSet(S), IsFiniteSet(T), NEW x, S \ {x} = T \ {x}
    PROVE  Cardinality(T) = Cardinality(S) + (IF x \in T THEN 1 ELSE 0)
                                           - (IF x \in S THEN 1 ELSE 0)
<1> DEFINE R == S \ {x}
<1>1. /\ IsFiniteSet(R) /\ Cardinality(R) = Cardinality(S) - (IF x \in S THEN 1 ELSE 0)
  BY FS_RemoveElement, FS_CardinalityType
<1>2. Cardinality(R) = Cardinality(T) - (IF x \in T THEN 1 ELSE 0)
  BY FS_RemoveElement, FS_CardinalityType
<1> QED
  BY <1>1, <1>2, FS_CardinalityType

\* The attempts at each step are so many, and at most all of them.
LEMMA Cuentas5 ==
    ASSUME PinTipo
    PROVE  /\ IsFiniteSet(PorRegistrar) /\ IsFiniteSet(TrasComparar) /\ IsFiniteSet(PorComparar)
           /\ Cardinality(Intentos) \in Nat /\ Cardinality(PorRegistrar) \in Nat
           /\ Cardinality(TrasComparar) \in Nat /\ Cardinality(PorComparar) \in Nat
           /\ Cardinality(TrasComparar) + Cardinality(PorComparar) <= Cardinality(Intentos)
           /\ \A d \in Equipos :
                 /\ IsFiniteSet(RegistranEn(d)) /\ IsFiniteSet(ComparanEn(d))
                 /\ Cardinality(RegistranEn(d)) \in Nat /\ Cardinality(ComparanEn(d)) \in Nat
                 /\ Cardinality(RegistranEn(d)) + Cardinality(ComparanEn(d)) <= Cardinality(Intentos)
<1>0. IsFiniteSet(Intentos)
  BY PinAssumption
<1>1. ASSUME NEW S \in SUBSET Intentos, NEW T \in SUBSET Intentos, S \cap T = {}
      PROVE  /\ IsFiniteSet(S) /\ IsFiniteSet(T) /\ Cardinality(S) \in Nat /\ Cardinality(T) \in Nat
             /\ Cardinality(S) + Cardinality(T) <= Cardinality(Intentos)
  <2>1. IsFiniteSet(S) /\ IsFiniteSet(T) /\ Cardinality(S) \in Nat /\ Cardinality(T) \in Nat
    BY <1>0, FS_Subset, FS_CardinalityType
  <2>2. Cardinality(S \cup T) = Cardinality(S) + Cardinality(T) - Cardinality({})
    BY <1>1, <2>1, FS_Union
  <2>3. Cardinality({}) = 0
    BY FS_EmptySet
  <2>4. S \cup T \in SUBSET Intentos
    OBVIOUS
  <2>5. Cardinality(S \cup T) <= Cardinality(Intentos)
    BY <1>0, <2>4, FS_Subset
  <2> QED
    BY <2>1, <2>2, <2>3, <2>5
<1>2. /\ TrasComparar \in SUBSET Intentos /\ PorComparar \in SUBSET Intentos
      /\ TrasComparar \cap PorComparar = {}
  BY DEF TrasComparar, PorComparar
<1>3. PorRegistrar \in SUBSET Intentos /\ {} \in SUBSET Intentos /\ PorRegistrar \cap {} = {}
  BY DEF PorRegistrar
<1>4. ASSUME NEW d \in Equipos
      PROVE  /\ RegistranEn(d) \in SUBSET Intentos /\ ComparanEn(d) \in SUBSET Intentos
             /\ RegistranEn(d) \cap ComparanEn(d) = {}
  BY DEF RegistranEn, ComparanEn, PorRegistrar
<1>5. Cardinality(Intentos) \in Nat
  BY <1>0, FS_CardinalityType
<1> QED
  BY <1>1, <1>2, <1>3, <1>4, <1>5

LEMMA Caben ==
    PinTipo => \A d \in Equipos : Cardinality(RegistranEn(d)) + Cardinality(ComparanEn(d)) <= Cardinality(Intentos)
BY Cuentas5

LEMMA CabenDespues ==
    PinTipo' => (\A d \in Equipos : Cardinality(RegistranEn(d)) + Cardinality(ComparanEn(d)) <= Cardinality(Intentos))'
BY Caben, PTL

\* An attempt that goes from a step to another moves the counts by itself only.
Uno(b) == IF b THEN 1 ELSE 0

LEMMA Moverse ==
    ASSUME PinTipo, NEW k \in Intentos, NEW r \in {Pi!Libre} \cup Leido, Pi!Pasar(k, r)
    PROVE  /\ intento' \in [Intentos -> {Pi!Libre} \cup Leido] /\ intento'[k] = r
           /\ \A j \in Intentos : j # k => intento'[j] = intento[j]
           /\ Cardinality(PorRegistrar') = Cardinality(PorRegistrar)
                  + Uno(r.paso = "registrar") - Uno(intento[k].paso = "registrar")
           /\ Cardinality(TrasComparar') = Cardinality(TrasComparar)
                  + Uno(r.paso \in {"registrar", "contar", "bloquear"})
                  - Uno(intento[k].paso \in {"registrar", "contar", "bloquear"})
           /\ Cardinality(PorComparar') = Cardinality(PorComparar)
                  + Uno(r.paso \in {"espera", "comparar"})
                  - Uno(intento[k].paso \in {"espera", "comparar"})
           /\ \A d \in Equipos :
                 /\ Cardinality(RegistranEn(d)') = Cardinality(RegistranEn(d))
                       + Uno(r.paso = "registrar" /\ r.d = d)
                       - Uno(intento[k].paso = "registrar" /\ intento[k].d = d)
                 /\ Cardinality(ComparanEn(d)') = Cardinality(ComparanEn(d))
                       + Uno(r.paso = "comparar" /\ r.d = d)
                       - Uno(intento[k].paso = "comparar" /\ intento[k].d = d)
<1>1. /\ intento' \in [Intentos -> {Pi!Libre} \cup Leido] /\ intento'[k] = r
      /\ \A j \in Intentos : j # k => intento'[j] = intento[j]
  BY DEF PinTipo, Pi!Pasar
<1>0. IsFiniteSet(Intentos)
  BY PinAssumption
<1>2. ASSUME NEW S \in SUBSET Intentos, NEW T \in SUBSET Intentos, S \ {k} = T \ {k}
      PROVE  Cardinality(T) = Cardinality(S) + Uno(k \in T) - Uno(k \in S)
  <2>1. IsFiniteSet(S) /\ IsFiniteSet(T)
    BY <1>0, FS_Subset
  <2> QED
    BY <1>2, <2>1, CuentaCambia DEF Uno
<1>3. Cardinality(PorRegistrar') = Cardinality(PorRegistrar) + Uno(k \in PorRegistrar') - Uno(k \in PorRegistrar)
  <2>1. PorRegistrar \in SUBSET Intentos /\ PorRegistrar' \in SUBSET Intentos
        /\ PorRegistrar \ {k} = PorRegistrar' \ {k}
    BY <1>1 DEF PorRegistrar
  <2> QED
    BY <1>2, <2>1
<1>4. Cardinality(TrasComparar') = Cardinality(TrasComparar) + Uno(k \in TrasComparar') - Uno(k \in TrasComparar)
  <2>1. TrasComparar \in SUBSET Intentos /\ TrasComparar' \in SUBSET Intentos
        /\ TrasComparar \ {k} = TrasComparar' \ {k}
    BY <1>1 DEF TrasComparar
  <2> QED
    BY <1>2, <2>1
<1>5. Cardinality(PorComparar') = Cardinality(PorComparar) + Uno(k \in PorComparar') - Uno(k \in PorComparar)
  <2>1. PorComparar \in SUBSET Intentos /\ PorComparar' \in SUBSET Intentos
        /\ PorComparar \ {k} = PorComparar' \ {k}
    BY <1>1 DEF PorComparar
  <2> QED
    BY <1>2, <2>1
<1>6. ASSUME NEW d \in Equipos
      PROVE  /\ Cardinality(RegistranEn(d)') = Cardinality(RegistranEn(d))
                    + Uno(k \in RegistranEn(d)') - Uno(k \in RegistranEn(d))
             /\ Cardinality(ComparanEn(d)') = Cardinality(ComparanEn(d))
                    + Uno(k \in ComparanEn(d)') - Uno(k \in ComparanEn(d))
  <2>1. RegistranEn(d) \in SUBSET Intentos /\ RegistranEn(d)' \in SUBSET Intentos
        /\ RegistranEn(d) \ {k} = RegistranEn(d)' \ {k}
    BY <1>1 DEF RegistranEn, PorRegistrar
  <2>2. ComparanEn(d) \in SUBSET Intentos /\ ComparanEn(d)' \in SUBSET Intentos
        /\ ComparanEn(d) \ {k} = ComparanEn(d)' \ {k}
    BY <1>1 DEF ComparanEn
  <2> QED
    BY <1>2, <2>1, <2>2
<1>7. /\ (k \in PorRegistrar' <=> r.paso = "registrar")
      /\ (k \in PorRegistrar <=> intento[k].paso = "registrar")
      /\ (k \in TrasComparar' <=> r.paso \in {"registrar", "contar", "bloquear"})
      /\ (k \in TrasComparar <=> intento[k].paso \in {"registrar", "contar", "bloquear"})
      /\ (k \in PorComparar' <=> r.paso \in {"espera", "comparar"})
      /\ (k \in PorComparar <=> intento[k].paso \in {"espera", "comparar"})
  BY <1>1 DEF PorRegistrar, TrasComparar, PorComparar
<1>8. \A d \in Equipos :
         /\ (k \in RegistranEn(d)' <=> r.paso = "registrar" /\ r.d = d)
         /\ (k \in RegistranEn(d) <=> intento[k].paso = "registrar" /\ intento[k].d = d)
         /\ (k \in ComparanEn(d)' <=> r.paso = "comparar" /\ r.d = d)
         /\ (k \in ComparanEn(d) <=> intento[k].paso = "comparar" /\ intento[k].d = d)
  BY <1>1 DEF RegistranEn, ComparanEn, PorRegistrar
<1> QED
  BY <1>1, <1>3, <1>4, <1>5, <1>6, <1>7, <1>8 DEF Uno

\* The sum of Pin is the one SumasProofs is about.
LEMMA SumaDePin == \A f, S : Pi!SumaDe(f, S) = SumaDe(f, S)
BY DEF Pi!SumaDe, Pi!FoldFunctionOnSet, Pi!MapThenFoldSet, SumaDe, FoldFunctionOnSet, MapThenFoldSet

\* The ages that count are finitely many, from 0.
LEMMA CasillasFinitas ==
    /\ IsFiniteSet(Pi!Casillas) /\ 0 \in Pi!Edades /\ Pi!Edades \subseteq Nat
    /\ \A d \in Equipos : EnLaRacha(d) \in SUBSET Pi!Casillas
<1>1. Hora \in Nat /\ 1 <= Hora
  BY PinAssumption
<1>2. 0 \in Pi!Edades /\ Pi!Edades \subseteq Nat
  BY <1>1 DEF Pi!Edades
<1>3. IsFiniteSet(Pi!Edades) /\ IsFiniteSet(Equipos)
  BY <1>1, PinAssumption, FS_Interval DEF Pi!Edades
<1>4. IsFiniteSet(Pi!Casillas)
  BY <1>3, FS_Product DEF Pi!Casillas
<1> QED
  BY <1>2, <1>4 DEF EnLaRacha, Pi!Casillas

\* The failures of the hour and those of a device are so many.
LEMMA FallosNaturales ==
    PinTipo => Pi!EnLaHora \in Nat /\ \A d \in Equipos : DeLaRacha(d) \in Nat
<1> SUFFICES ASSUME PinTipo PROVE Pi!EnLaHora \in Nat /\ \A d \in Equipos : DeLaRacha(d) \in Nat
  OBVIOUS
<1>1. \A c \in Pi!Casillas : fallos[c] \in Nat
  BY DEF PinTipo
<1>2. \A S \in SUBSET Pi!Casillas : SumaDe(fallos, S) \in Nat
  BY <1>1, CasillasFinitas, SumaMenor
<1> QED
  BY <1>2, CasillasFinitas, SumaDePin DEF Pi!EnLaHora, DeLaRacha

LEMMA FallosDespues ==
    PinTipo' => (Pi!EnLaHora \in Nat /\ \A d \in Equipos : DeLaRacha(d) \in Nat)'
BY FallosNaturales, PTL

\* The rows stay: so do the counts.
LEMMA MismosFallos ==
    ASSUME fallos' = fallos
    PROVE  Pi!EnLaHora' = Pi!EnLaHora /\ \A d \in Equipos : DeLaRacha(d)' = DeLaRacha(d)
BY DEF Pi!EnLaHora, DeLaRacha, EnLaRacha, Pi!EnRacha

\* One more of a device is one more, and of the spell it is in.
LEMMA UnFalloMas ==
    ASSUME PinTipo, NEW d \in Equipos, fallos' = [fallos EXCEPT ![<<d, 0>>] = @ + 1]
    PROVE  /\ fallos' \in [Pi!Casillas -> Nat]
           /\ Pi!EnLaHora' = Pi!EnLaHora + 1
           /\ \A e \in Equipos : DeLaRacha(e)' = DeLaRacha(e) + (IF e = d THEN 1 ELSE 0)
<1>1. /\ <<d, 0>> \in Pi!Casillas /\ fallos \in [Pi!Casillas -> Nat]
      /\ fallos' \in [Pi!Casillas -> Nat]
      /\ fallos'[<<d, 0>>] = fallos[<<d, 0>>] + 1
      /\ \A c \in Pi!Casillas : c # <<d, 0>> => fallos'[c] = fallos[c]
  BY CasillasFinitas DEF PinTipo, Pi!Casillas
<1>2. ASSUME NEW S \in SUBSET Pi!Casillas
      PROVE  SumaDe(fallos', S) = SumaDe(fallos, S) + (IF <<d, 0>> \in S THEN 1 ELSE 0)
  <2>1. IsFiniteSet(S) /\ \A c \in S : fallos[c] \in Int /\ fallos'[c] \in Int
    BY <1>1, CasillasFinitas, FS_Subset
  <2>2. SumaDe(fallos, S) \in Int
    BY <2>1, SumaEntera
  <2>3. CASE <<d, 0>> \in S
    <3>1. SumaDe(fallos', S) = SumaDe(fallos, S) + fallos'[<<d, 0>>] - fallos[<<d, 0>>]
      <4>1. \A c \in S \ {<<d, 0>>} : fallos'[c] = fallos[c]
        BY <1>1
      <4>2. \A x \in S : (\A c \in S \ {x} : fallos'[c] = fallos[c])
                            => SumaDe(fallos', S) = SumaDe(fallos, S) + fallos'[x] - fallos[x]
        <5> SUFFICES ASSUME NEW x \in S, \A c \in S \ {x} : fallos'[c] = fallos[c]
                     PROVE  SumaDe(fallos', S) = SumaDe(fallos, S) + fallos'[x] - fallos[x]
          OBVIOUS
        <5>1. \A f, g : (/\ \A c \in S : f[c] \in Int /\ g[c] \in Int
                         /\ \A c \in S \ {x} : g[c] = f[c])
                        => SumaDe(g, S) = SumaDe(f, S) + g[x] - f[x]
          BY <2>1, SumaUno
        <5> QED
          BY <2>1, <5>1
      <4> QED
        BY <2>3, <4>1, <4>2
    <3> QED
      BY <1>1, <2>1, <2>2, <2>3, <3>1
  <2>4. CASE <<d, 0>> \notin S
    <3>1. \A c \in S : fallos'[c] = fallos[c]
      BY <1>1, <2>4
    <3>2. SumaDe(fallos', S) = SumaDe(fallos, S)
      BY <2>1, <3>1, SumaIgual
    <3> QED
      BY <2>2, <2>4, <3>2
  <2> QED
    BY <2>3, <2>4
<1>3. Pi!EnLaHora' = Pi!EnLaHora + 1
  BY <1>1, <1>2, SumaDePin DEF Pi!EnLaHora
<1>4. ASSUME NEW e \in Equipos
      PROVE  DeLaRacha(e)' = DeLaRacha(e) + (IF e = d THEN 1 ELSE 0)
  <2>1. ASSUME NEW a \in Pi!Edades PROVE Pi!EnRacha(e, a)' <=> Pi!EnRacha(e, a)
    <3>1. ASSUME NEW b \in 0..(a - 1), NEW x \in (b + 1)..(b + Enfria - 1), x \in Pi!Edades
          PROVE  fallos'[<<e, x>>] = fallos[<<e, x>>]
      <4>1. a \in Nat /\ b \in Nat /\ x # 0
        BY <3>1, CasillasFinitas, PinAssumption
      <4>2. <<e, x>> \in Pi!Casillas /\ <<e, x>> # <<d, 0>>
        BY <3>1, <4>1 DEF Pi!Casillas
      <4> QED
        BY <1>1, <4>2
    <3> QED
      BY <3>1 DEF Pi!EnRacha
  <2>2. EnLaRacha(e)' = EnLaRacha(e)
    BY <2>1 DEF EnLaRacha
  <2>3. <<d, 0>> \in EnLaRacha(e) <=> e = d
    <3>1. 0 < Ventana /\ 0 \in Pi!Edades
      BY CasillasFinitas, PinAssumption
    <3>2. Pi!EnRacha(d, 0)
      <4>1. 0..(0 - 1) = {}
        OBVIOUS
      <4> QED
        BY <4>1 DEF Pi!EnRacha
    <3> QED
      BY <3>1, <3>2 DEF EnLaRacha
  <2>4. EnLaRacha(e) \in SUBSET Pi!Casillas
    BY CasillasFinitas
  <2> QED
    BY <1>2, <2>2, <2>3, <2>4 DEF DeLaRacha
<1> QED
  BY <1>1, <1>3, <1>4

\* A device that is forgotten holds none; the others hold what they held.
LEMMA Olvido ==
    ASSUME PinTipo, NEW d \in Equipos,
           fallos' = [c \in Pi!Casillas |-> IF c[1] = d THEN 0 ELSE fallos[c]]
    PROVE  /\ fallos' \in [Pi!Casillas -> Nat]
           /\ Pi!EnLaHora' <= Pi!EnLaHora /\ Pi!EnLaHora' \in Nat
           /\ DeLaRacha(d)' = 0
           /\ \A e \in Equipos : e # d => DeLaRacha(e)' = DeLaRacha(e)
<1> DEFINE Suyas == {c \in Pi!Casillas : c[1] = d}
           Otras == Pi!Casillas \ Suyas
<1>1. /\ fallos \in [Pi!Casillas -> Nat] /\ fallos' \in [Pi!Casillas -> Nat]
      /\ \A c \in Suyas : fallos'[c] = 0
      /\ \A c \in Otras : fallos'[c] = fallos[c]
  BY DEF PinTipo
<1>2. /\ IsFiniteSet(Suyas) /\ IsFiniteSet(Otras) /\ Suyas \cap Otras = {}
      /\ Suyas \cup Otras = Pi!Casillas
  BY CasillasFinitas, FS_Subset
<1>3. \A S \in SUBSET Suyas : SumaDe(fallos', S) = 0
  <2> SUFFICES ASSUME NEW S \in SUBSET Suyas PROVE SumaDe(fallos', S) = 0
    OBVIOUS
  <2>1. IsFiniteSet(S) /\ \A c \in S : fallos'[c] = 0
    BY <1>1, <1>2, FS_Subset
  <2> QED
    BY <2>1, SumaCero
<1>4. \A S \in SUBSET Otras : SumaDe(fallos', S) = SumaDe(fallos, S)
  <2> SUFFICES ASSUME NEW S \in SUBSET Otras PROVE SumaDe(fallos', S) = SumaDe(fallos, S)
    OBVIOUS
  <2>1. IsFiniteSet(S) /\ \A c \in S : fallos'[c] = fallos[c]
    BY <1>1, <1>2, FS_Subset
  <2> QED
    BY <2>1, SumaIgual
<1>5. SumaDe(fallos', Suyas \cup Otras) = SumaDe(fallos', Suyas) + SumaDe(fallos', Otras)
  BY <1>1, <1>2, SumaUnion
<1>6. /\ SumaDe(fallos, Otras) <= SumaDe(fallos, Pi!Casillas) /\ SumaDe(fallos, Otras) \in Nat
  <2>1. \A c \in Pi!Casillas : fallos[c] \in Nat
    BY <1>1
  <2> QED
    BY <2>1, CasillasFinitas, SumaMenor
<1>7. SumaDe(fallos', Pi!Casillas) = SumaDe(fallos, Otras)
  <2>1. SumaDe(fallos', Suyas) = 0 /\ SumaDe(fallos', Otras) = SumaDe(fallos, Otras)
    BY <1>3, <1>4
  <2>2. SumaDe(fallos', Pi!Casillas) = SumaDe(fallos', Suyas) + SumaDe(fallos', Otras)
    BY <1>2, <1>5
  <2> HIDE DEF Suyas, Otras
  <2> QED
    BY <1>6, <2>1, <2>2
<1>8. Pi!EnLaHora' <= Pi!EnLaHora /\ Pi!EnLaHora' \in Nat
  BY <1>6, <1>7, SumaDePin DEF Pi!EnLaHora
<1>9. DeLaRacha(d)' = 0
  <2>1. EnLaRacha(d)' \in SUBSET Suyas
    BY DEF EnLaRacha, Pi!Casillas
  <2> QED
    BY <1>3, <2>1 DEF DeLaRacha
<1>10. ASSUME NEW e \in Equipos, e # d PROVE DeLaRacha(e)' = DeLaRacha(e)
  <2>1. \A x \in Pi!Edades : <<e, x>> \in Otras
    BY <1>10 DEF Pi!Casillas
  <2>2. \A x \in Pi!Edades : fallos'[<<e, x>>] = fallos[<<e, x>>]
    BY <1>1, <2>1
  <2>3. \A a \in Pi!Edades : Pi!EnRacha(e, a)' <=> Pi!EnRacha(e, a)
    BY <2>2 DEF Pi!EnRacha
  <2>4. EnLaRacha(e)' = EnLaRacha(e) /\ EnLaRacha(e) \in SUBSET Otras
    BY <2>1, <2>3 DEF EnLaRacha
  <2> QED
    BY <1>4, <2>4 DEF DeLaRacha
<1> QED
  BY <1>1, <1>8, <1>9, <1>10

LEMMA TodoOlvidado ==
    fallos = Pi!SinFallos => Pi!EnLaHora = 0 /\ \A d \in Equipos : DeLaRacha(d) = 0
<1> SUFFICES ASSUME fallos = Pi!SinFallos
             PROVE  Pi!EnLaHora = 0 /\ \A d \in Equipos : DeLaRacha(d) = 0
  OBVIOUS
<1>1. \A S \in SUBSET Pi!Casillas : SumaDe(fallos, S) = 0
  <2> SUFFICES ASSUME NEW S \in SUBSET Pi!Casillas PROVE SumaDe(fallos, S) = 0
    OBVIOUS
  <2>1. IsFiniteSet(S) /\ \A c \in S : fallos[c] = 0
    BY CasillasFinitas, FS_Subset DEF Pi!SinFallos
  <2> QED
    BY <2>1, SumaCero
<1> QED
  BY <1>1, CasillasFinitas, SumaDePin DEF Pi!EnLaHora, DeLaRacha

LEMMA TodoSeOlvida ==
    (fallos = Pi!SinFallos)' => (Pi!EnLaHora = 0 /\ \A d \in Equipos : DeLaRacha(d) = 0)'
BY TodoOlvidado, PTL

\* The rows get older: those that counted nowhere still do not.
LEMMA MasViejos ==
    ASSUME PinTipo, Pi!Tic, NEW T \in SUBSET Pi!Casillas, NEW U \in SUBSET Pi!Casillas,
           \A c \in Pi!Casillas : <<c[1], c[2] + 1>> \in T => c \in U
    PROVE  SumaDe(fallos', T) <= SumaDe(fallos, U)
<1> DEFINE Antes == {c \in Pi!Casillas : <<c[1], c[2] + 1>> \in T}
           Nuevas == {c \in T : c[2] = 0}
           Viejas == {c \in T : c[2] # 0}
           corre == [c \in Antes |-> <<c[1], c[2] + 1>>]
<1>0. /\ fallos \in [Pi!Casillas -> Nat]
      /\ fallos' = [c \in Pi!Casillas |-> IF c[2] = 0 THEN 0 ELSE fallos[<<c[1], c[2] - 1>>]]
  BY DEF PinTipo, Pi!Tic
<1>1. Pi!Casillas = Equipos \X (0..(Hora - 1)) /\ Hora \in Nat
  BY PinAssumption DEF Pi!Casillas, Pi!Edades
<1>2. /\ IsFiniteSet(T) /\ IsFiniteSet(Antes) /\ IsFiniteSet(Nuevas) /\ IsFiniteSet(Viejas)
      /\ Nuevas \cup Viejas = T /\ Nuevas \cap Viejas = {}
  BY CasillasFinitas, FS_Subset
<1>3. Viejas = {corre[c] : c \in Antes}
  <2>1. ASSUME NEW c \in Viejas
        PROVE  \E a \in Antes : c = corre[a]
    <3>1. /\ c[1] \in Equipos /\ c[2] \in 1..(Hora - 1) /\ c = <<c[1], c[2]>>
      BY <1>1
    <3> DEFINE a == <<c[1], c[2] - 1>>
    <3>2. a \in Pi!Casillas /\ c[2] - 1 + 1 = c[2]
      BY <1>1, <3>1
    <3>3. <<a[1], a[2] + 1>> = c
      BY <3>1, <3>2
    <3>4. a \in Antes
      BY <3>2, <3>3
    <3> QED
      BY <3>3, <3>4
  <2>2. ASSUME NEW a \in Antes PROVE corre[a] \in Viejas
    <3>1. a[2] \in Nat
      BY <1>1
    <3> QED
      BY <3>1
  <2> HIDE DEF corre, Antes, Viejas
  <2> QED
    BY <2>1, <2>2
<1>4. \A c \in Antes : fallos[c] \in Int /\ fallos'[corre[c]] = fallos[c]
  <2> SUFFICES ASSUME NEW c \in Antes PROVE fallos[c] \in Int /\ fallos'[corre[c]] = fallos[c]
    OBVIOUS
  <2>1. c = <<c[1], c[2]>> /\ c[1] \in Equipos /\ c[2] \in Nat /\ fallos[c] \in Nat
    BY <1>0, <1>1
  <2>2. corre[c] \in Pi!Casillas /\ corre[c] = <<c[1], c[2] + 1>>
    OBVIOUS
  <2>3. fallos'[corre[c]] = fallos[<<c[1], c[2] + 1 - 1>>]
    BY <1>0, <2>1, <2>2
  <2>4. c[2] + 1 - 1 = c[2]
    BY <2>1
  <2> QED
    BY <2>1, <2>3, <2>4
<1>5. corre \in [Antes -> T] /\ \A c, e \in Antes : corre[c] = corre[e] => c = e
  <2>1. corre \in [Antes -> T]
    OBVIOUS
  <2>2. ASSUME NEW c \in Antes, NEW e \in Antes, corre[c] = corre[e] PROVE c = e
    <3>1. c = <<c[1], c[2]>> /\ e = <<e[1], e[2]>> /\ c[2] \in Nat /\ e[2] \in Nat
      BY <1>1
    <3>2. c[1] = e[1] /\ c[2] + 1 = e[2] + 1
      BY <2>2
    <3> QED
      BY <3>1, <3>2
  <2> QED
    BY <2>1, <2>2
<1>6. SumaDe(fallos', Viejas) = SumaDe(fallos, Antes)
  <2> HIDE DEF corre, Antes, Viejas
  <2> QED
    BY <1>2, <1>3, <1>4, <1>5, SumaTraslada
<1>7. SumaDe(fallos', Nuevas) = 0
  <2>1. \A c \in Nuevas : fallos'[c] = 0
    BY <1>0
  <2> QED
    BY <1>2, <2>1, SumaCero
<1>8. SumaDe(fallos', T) = SumaDe(fallos', Nuevas) + SumaDe(fallos', Viejas)
  <2>1. \A c \in Nuevas : fallos'[c] = 0
    BY <1>0
  <2>2. \A c \in Viejas : fallos'[c] \in Int
    BY <1>3, <1>4
  <2>3. \A c \in Nuevas \cup Viejas : fallos'[c] \in Int
    BY <2>1, <2>2
  <2> HIDE DEF Nuevas, Viejas
  <2> QED
    BY <1>2, <2>3, SumaUnion
<1>9. Antes \in SUBSET U /\ IsFiniteSet(U) /\ \A c \in U : fallos[c] \in Nat
  BY <1>0, CasillasFinitas, FS_Subset
<1>10. SumaDe(fallos, Antes) <= SumaDe(fallos, U) /\ SumaDe(fallos, Antes) \in Nat
  <2> HIDE DEF Antes
  <2> QED
    BY <1>9, SumaMenor
<1>11. SumaDe(fallos', T) = SumaDe(fallos, Antes)
  BY <1>6, <1>7, <1>8, <1>10
<1> QED
  BY <1>10, <1>11

LEMMA TiempoPasa ==
    ASSUME PinTipo, Pi!Tic
    PROVE  /\ fallos' \in [Pi!Casillas -> Nat]
           /\ Pi!EnLaHora' <= Pi!EnLaHora
           /\ \A d \in Equipos : DeLaRacha(d)' <= DeLaRacha(d)
<1>0. /\ fallos \in [Pi!Casillas -> Nat]
      /\ fallos' = [c \in Pi!Casillas |-> IF c[2] = 0 THEN 0 ELSE fallos[<<c[1], c[2] - 1>>]]
  BY DEF PinTipo, Pi!Tic
<1>1. Pi!Casillas = Equipos \X (0..(Hora - 1)) /\ Pi!Edades = 0..(Hora - 1) /\ Hora \in Nat
  BY PinAssumption DEF Pi!Casillas, Pi!Edades
<1>2. ASSUME NEW c \in Pi!Casillas
      PROVE  (IF c[2] = 0 THEN 0 ELSE fallos[<<c[1], c[2] - 1>>]) \in Nat
  <2>1. c[1] \in Equipos /\ c[2] \in 0..(Hora - 1)
    BY <1>1
  <2>2. CASE c[2] # 0
    <3>1. <<c[1], c[2] - 1>> \in Pi!Casillas
      BY <1>1, <2>1, <2>2
    <3> QED
      BY <1>0, <2>2, <3>1
  <2> QED
    BY <2>2
<1>3. fallos' \in [Pi!Casillas -> Nat]
  BY <1>0, <1>2
<1>4. Pi!EnLaHora' <= Pi!EnLaHora
  BY MasViejos, SumaDePin DEF Pi!EnLaHora
<1>5. ASSUME NEW d \in Equipos PROVE DeLaRacha(d)' <= DeLaRacha(d)
  <2>1. ASSUME NEW a \in Pi!Edades, a + 1 \in Pi!Edades, Pi!EnRacha(d, a + 1)'
        PROVE  Pi!EnRacha(d, a)
    <3> SUFFICES ASSUME NEW b \in 0..(a - 1)
                 PROVE  \E e \in (b + 1)..(b + Enfria - 1) : e \in Pi!Edades /\ fallos[<<d, e>>] > 0
      BY DEF Pi!EnRacha
    <3>1. a \in Nat /\ b \in Nat /\ b + 1 \in 0..((a + 1) - 1) /\ Enfria \in Nat
      BY <1>1, PinAssumption
    <3>2. PICK e \in ((b + 1) + 1)..((b + 1) + Enfria - 1) : e \in Pi!Edades /\ fallos'[<<d, e>>] > 0
      BY <2>1, <3>1 DEF Pi!EnRacha
    <3>3. /\ e \in Nat /\ e # 0 /\ e - 1 \in (b + 1)..(b + Enfria - 1) /\ e - 1 \in Pi!Edades
          /\ <<d, e>> \in Pi!Casillas
      BY <1>1, <3>1, <3>2
    <3>4. fallos'[<<d, e>>] = fallos[<<d, e - 1>>]
      BY <1>0, <3>3
    <3> QED
      BY <3>2, <3>3, <3>4
  <2>2. EnLaRacha(d) \in SUBSET Pi!Casillas /\ EnLaRacha(d)' \in SUBSET Pi!Casillas
    BY DEF EnLaRacha, Pi!Casillas
  <2>3. ASSUME NEW c \in Pi!Casillas, <<c[1], c[2] + 1>> \in EnLaRacha(d)' PROVE c \in EnLaRacha(d)
    <3>1. /\ c = <<c[1], c[2]>> /\ c[1] = d /\ c[2] \in Pi!Edades /\ c[2] + 1 \in Pi!Edades
          /\ c[2] + 1 < Ventana /\ Pi!EnRacha(d, c[2] + 1)'
      BY <1>1, <2>3 DEF EnLaRacha
    <3>2. Pi!EnRacha(d, c[2])
      BY <2>1, <3>1
    <3>3. c[2] < Ventana
      BY <1>1, <3>1, PinAssumption
    <3> QED
      BY <3>1, <3>2, <3>3 DEF EnLaRacha
  <2>4. SumaDe(fallos', EnLaRacha(d)') <= SumaDe(fallos, EnLaRacha(d))
    BY <2>2, <2>3, MasViejos
  <2> QED
    BY <2>4 DEF DeLaRacha
<1> QED
  BY <1>3, <1>4, <1>5

\* Below the limit of the window the spell is below it, and what has cooled
\* holds nothing.
LEMMA RachaAcotada ==
    ASSUME PinTipo, NEW d \in Equipos
    PROVE  /\ DeLaRacha(d) <= Pi!Recientes(d) /\ Pi!Recientes(d) \in Nat
           /\ Pi!Frio(d) => DeLaRacha(d) = 0
<1> DEFINE Ahora == {d} \X {a \in Pi!Edades : a < Ventana}
<1>1. /\ EnLaRacha(d) \in SUBSET Ahora /\ Ahora \in SUBSET Pi!Casillas
  BY DEF EnLaRacha, Pi!Casillas
<1>2. IsFiniteSet(Ahora) /\ IsFiniteSet(EnLaRacha(d))
  BY <1>1, CasillasFinitas, FS_Subset
<1>3. \A c \in Ahora : fallos[c] \in Nat
  BY <1>1 DEF PinTipo
<1>4. SumaDe(fallos, EnLaRacha(d)) <= SumaDe(fallos, Ahora) /\ SumaDe(fallos, Ahora) \in Nat
  <2> HIDE DEF Ahora
  <2> QED
    BY <1>1, <1>2, <1>3, SumaMenor
<1>5. ASSUME Pi!Frio(d) PROVE SumaDe(fallos, EnLaRacha(d)) = 0
  <2>1. ASSUME NEW c \in EnLaRacha(d) PROVE fallos[c] = 0
    <3>0. PICK a \in {a \in Pi!Edades : a < Ventana /\ Pi!EnRacha(d, a)} : c = <<d, a>>
      BY DEF EnLaRacha
    <3>1. c = <<d, c[2]>> /\ c[2] = a /\ c[2] \in Pi!Edades /\ Pi!EnRacha(d, c[2]) /\ c[2] \in Nat
      BY <3>0, CasillasFinitas
    <3>2. CASE c[2] = 0
      <4>1. fallos[<<d, 0>>] = 0
        BY <1>5, <3>1, <3>2, PinAssumption DEF Pi!Frio
      <4> QED
        BY <3>1, <3>2, <4>1
    <3>3. CASE c[2] # 0
      <4>1. 0 \in 0..(c[2] - 1) /\ Enfria \in Nat
        BY <3>1, <3>3, PinAssumption
      <4>2. PICK e \in (0 + 1)..(0 + Enfria - 1) : e \in Pi!Edades /\ fallos[<<d, e>>] > 0
        BY <3>1, <4>1 DEF Pi!EnRacha
      <4>3. e < Enfria
        BY <4>1, <4>2
      <4>4. fallos[<<d, e>>] = 0
        BY <1>5, <4>2, <4>3 DEF Pi!Frio
      <4> QED
        BY <4>2, <4>4
    <3> QED
      BY <3>2, <3>3
  <2> QED
    BY <1>2, <2>1, SumaCero
<1> QED
  BY <1>4, <1>5, SumaDePin DEF DeLaRacha, Pi!Recientes

-----------------------------------------------------------------------------
\* At the start nobody has tried anything.
LEMMA PinInicio == Pi!Init => PinInv
<1> SUFFICES ASSUME Pi!Init PROVE PinInv
  OBVIOUS
<1>1. PinTipo
  BY DEF Pi!Init, PinTipo, Pi!SinFallos
<1>2. SinElQuitado
  BY <1>1 DEF Pi!Init, SinElQuitado
<1>3. Pi!EnLaHora = 0 /\ \A d \in Equipos : DeLaRacha(d) = 0
  BY TodoOlvidado DEF Pi!Init
<1>4. /\ PorRegistrar = {} /\ TrasComparar = {} /\ PorComparar = {}
      /\ \A d \in Equipos : RegistranEn(d) = {} /\ ComparanEn(d) = {}
  BY DEF Pi!Init, Pi!Libre, PorRegistrar, TrasComparar, PorComparar, RegistranEn, ComparanEn
<1>5. Cardinality({}) = 0
  BY FS_EmptySet
<1>6. PresupuestoDuro
  BY <1>1, <1>3, <1>4, <1>5, Cuentas5, PinAssumption DEF PresupuestoDuro
<1>7. \A d \in Equipos : PresupuestoDeEquipo(d)
  BY <1>1, <1>3, <1>4, <1>5, Cuentas5, PinAssumption DEF PresupuestoDeEquipo
<1> QED
  BY <1>1, <1>2, <1>6, <1>7 DEF PinInv

\* The person's row and what an attempt reads of it: one that begins reads a PIN
\* that was not removed.
LEMMA PinEmpezar ==
    ASSUME PinInv, NEW k \in Intentos, NEW d \in Equipos, Pi!Empezar(k, d)
    PROVE  PinInv'
<1> DEFINE r == [paso |-> "espera", d |-> d, pin |-> usuario.pin, tv |-> usuario.tv]
<1>1. PinTipo /\ Pi!Pasar(k, r) /\ intento[k] = Pi!Libre /\ usuario.pin # 0 /\ ~usuario.bloqueado
  BY DEF PinInv, Pi!Empezar
<1>2. r \in Leido /\ r.paso = "espera" /\ r.pin = usuario.pin /\ r.tv = usuario.tv
  BY <1>1 DEF PinTipo, Leido
<1>3. UNCHANGED <<usuario, fallos, admin, definidos, entradas, quitados>>
  BY DEF Pi!Empezar
<1>4. intento[k].paso = "libre"
  BY <1>1 DEF Pi!Libre
<1> HIDE DEF r
<1>5. PinTipo'
  BY <1>1, <1>2, <1>3, Moverse DEF PinTipo
<1>6. SinElQuitado'
  BY <1>1, <1>2, <1>3, Moverse DEF PinInv, PinTipo, SinElQuitado
<1>7. /\ Pi!EnLaHora' = Pi!EnLaHora /\ Pi!EnLaHora \in Nat
      /\ \A e \in Equipos : DeLaRacha(e)' = DeLaRacha(e) /\ DeLaRacha(e) \in Nat
  BY <1>1, <1>3, MismosFallos, FallosNaturales
<1>8. PresupuestoDuro'
  <2>1. /\ Cardinality(PorRegistrar') = Cardinality(PorRegistrar)
        /\ Cardinality(TrasComparar') = Cardinality(TrasComparar)
    BY <1>1, <1>2, <1>4, Moverse, Cuentas5 DEF Uno
  <2> QED
    BY <1>1, <1>3, <1>7, <2>1 DEF PinInv, PresupuestoDuro
<1>9. ASSUME NEW e \in Equipos PROVE PresupuestoDeEquipo(e)'
  <2>1. /\ Cardinality(RegistranEn(e)') = Cardinality(RegistranEn(e))
        /\ Cardinality(ComparanEn(e)') = Cardinality(ComparanEn(e))
    BY <1>1, <1>2, <1>4, Moverse, Cuentas5 DEF Uno
  <2> QED
    BY <1>7, <2>1 DEF PinInv, PresupuestoDeEquipo
<1> QED
  BY <1>5, <1>6, <1>8, <1>9 DEF PinInv

\* An attempt that goes on, or away, with what it had read and no failure told.
LEMMA PinSigue ==
    ASSUME PinInv, NEW k \in Intentos, NEW r \in {Pi!Libre} \cup Leido, Pi!Pasar(k, r),
           intento[k] # Pi!Libre,
           r # Pi!Libre => r.d = intento[k].d /\ r.pin = intento[k].pin /\ r.tv = intento[k].tv,
           usuario' \in [pin : Nat, bloqueado : BOOLEAN, tv : Nat],
           usuario'.pin = usuario.pin, usuario'.tv = usuario.tv,
           fallos' \in [Pi!Casillas -> Nat],
           entradas' \subseteq entradas \cup {[pin |-> intento[k].pin, tv |-> intento[k].tv]},
           UNCHANGED <<admin, definidos, quitados>>
    PROVE  PinTipo' /\ SinElQuitado' /\ intento[k] \in Leido
<1>1. PinTipo /\ SinElQuitado
  BY DEF PinInv
<1>2. intento[k] \in Leido
  BY <1>1 DEF PinTipo
<1>3. PinTipo'
  BY <1>1, Moverse DEF PinTipo
<1>4. \A s \in entradas' : s.pin \in Nat /\ s.tv \in Nat /\ s.tv <= usuario.tv
                           /\ (s.pin \in quitados => s.tv < usuario.tv) /\ s.pin <= definidos
  BY <1>1, <1>2 DEF SinElQuitado, Leido
<1>5. ASSUME NEW j \in Intentos, intento'[j] # Pi!Libre
      PROVE  /\ intento'[j].tv <= usuario.tv
             /\ intento'[j].pin \in quitados => intento'[j].tv < usuario.tv
             /\ intento'[j].pin <= definidos
  <2>1. CASE j = k
    BY <1>1, <1>5, <2>1, Moverse DEF SinElQuitado
  <2>2. CASE j # k
    BY <1>1, <1>5, <2>2, Moverse DEF SinElQuitado
  <2> QED
    BY <2>1, <2>2
<1>6. SinElQuitado'
  BY <1>1, <1>4, <1>5 DEF SinElQuitado
<1> QED
  BY <1>2, <1>3, <1>6

\* The check of the cooling: below the limit there is room for all who pass,
\* and once it has cooled nothing counts.
LEMMA PinVerEspera ==
    ASSUME PinInv, NEW k \in Intentos, Pi!VerEspera(k)
    PROVE  PinInv'
<1> DEFINE r == IF Pi!EnEspera(intento[k].d) THEN Pi!Libre ELSE [intento[k] EXCEPT !.paso = "comparar"]
<1>1. PinTipo /\ Pi!Pasar(k, r) /\ intento[k].paso = "espera"
  BY DEF PinInv, Pi!VerEspera
<1>2. intento[k] \in Leido /\ intento[k] # Pi!Libre
  BY <1>1 DEF PinTipo, Pi!Libre
<1>3. /\ r \in {Pi!Libre} \cup Leido
      /\ r # Pi!Libre => /\ r.d = intento[k].d /\ r.pin = intento[k].pin /\ r.tv = intento[k].tv
      /\ \/ r.paso = "libre"
         \/ r.paso = "comparar" /\ r.d = intento[k].d /\ ~Pi!EnEspera(intento[k].d)
  BY <1>2 DEF Leido, Pi!Libre
<1>4. UNCHANGED <<usuario, fallos, admin, definidos, entradas, quitados>>
  BY DEF Pi!VerEspera
<1> HIDE DEF r
<1>5. PinTipo' /\ SinElQuitado'
  BY <1>1, <1>2, <1>3, <1>4, PinSigue DEF PinTipo
<1>6. /\ Pi!EnLaHora' = Pi!EnLaHora /\ Pi!EnLaHora \in Nat
      /\ \A e \in Equipos : DeLaRacha(e)' = DeLaRacha(e) /\ DeLaRacha(e) \in Nat
  BY <1>1, <1>4, MismosFallos, FallosNaturales
<1>7. PresupuestoDuro'
  <2>1. /\ Cardinality(PorRegistrar') = Cardinality(PorRegistrar)
        /\ Cardinality(TrasComparar') = Cardinality(TrasComparar)
        /\ Cardinality(PorComparar') = Cardinality(PorComparar) + Uno(r.paso = "comparar") - 1
    BY <1>1, <1>3, Moverse, Cuentas5 DEF Uno
  <2>2. PresupuestoDuro /\ usuario.bloqueado \in BOOLEAN
    BY DEF PinInv, PinTipo
  <2> QED
    BY <1>1, <1>4, <1>6, <2>1, <2>2, Cuentas5, PinAssumption DEF PresupuestoDuro, Uno
<1>8. ASSUME NEW d \in Equipos PROVE PresupuestoDeEquipo(d)'
  <2>1. /\ Cardinality(RegistranEn(d)') = Cardinality(RegistranEn(d))
        /\ Cardinality(ComparanEn(d)') = Cardinality(ComparanEn(d)) + Uno(r.paso = "comparar" /\ r.d = d)
    BY <1>1, <1>3, Moverse, Cuentas5 DEF Uno
  <2>2. PresupuestoDeEquipo(d)
    BY DEF PinInv
  <2>3. CASE ~(r.paso = "comparar" /\ r.d = d)
    BY <1>1, <1>6, <2>1, <2>2, <2>3, Cuentas5 DEF PresupuestoDeEquipo, Uno
  <2>4. CASE r.paso = "comparar" /\ r.d = d
    <3>1. DeLaRacha(d) < MaxEquipo
      BY <1>1, <1>3, <1>6, <2>4, RachaAcotada, PinAssumption DEF Pi!EnEspera
    <3>2. Cardinality(RegistranEn(d)') + Cardinality(ComparanEn(d)') <= Cardinality(Intentos)
      BY <1>5, CabenDespues
    <3> QED
      BY <1>1, <1>6, <2>1, <3>1, <3>2, Cuentas5, PinAssumption DEF PresupuestoDeEquipo, Uno
  <2> QED
    BY <2>3, <2>4
<1> QED
  BY <1>5, <1>7, <1>8 DEF PinInv

\* A wrong PIN is one more that has compared, about to be written.
LEMMA PinComparar ==
    ASSUME PinInv, NEW k \in Intentos, NEW acierta \in BOOLEAN, Pi!Comparar(k, acierta)
    PROVE  PinInv'
<1> DEFINE r == [intento[k] EXCEPT !.paso = IF acierta THEN "limpiar" ELSE "registrar"]
           n == IF acierta THEN 0 ELSE 1
<1>1. PinTipo /\ Pi!Pasar(k, r) /\ intento[k].paso = "comparar"
  BY DEF PinInv, Pi!Comparar
<1>2. intento[k] \in Leido /\ intento[k] # Pi!Libre
  BY <1>1 DEF PinTipo, Pi!Libre
<1>3. /\ r \in Leido /\ r.d = intento[k].d /\ r.pin = intento[k].pin /\ r.tv = intento[k].tv
      /\ r.paso = IF acierta THEN "limpiar" ELSE "registrar"
  BY <1>2 DEF Leido
<1>4. UNCHANGED <<usuario, fallos, admin, definidos, entradas, quitados>>
  BY DEF Pi!Comparar
<1> HIDE DEF r
<1>5. PinTipo' /\ SinElQuitado'
  BY <1>1, <1>2, <1>3, <1>4, PinSigue DEF PinTipo
<1>6. /\ Pi!EnLaHora' = Pi!EnLaHora /\ Pi!EnLaHora \in Nat
      /\ \A e \in Equipos : DeLaRacha(e)' = DeLaRacha(e) /\ DeLaRacha(e) \in Nat
  BY <1>1, <1>4, MismosFallos, FallosNaturales
<1>7. PresupuestoDuro'
  <2>1. /\ Cardinality(PorRegistrar') = Cardinality(PorRegistrar) + n
        /\ Cardinality(TrasComparar') = Cardinality(TrasComparar) + n
        /\ Cardinality(PorComparar') = Cardinality(PorComparar) - 1
    BY <1>1, <1>3, Moverse, Cuentas5 DEF Uno
  <2>2. PresupuestoDuro /\ usuario.bloqueado \in BOOLEAN
    BY DEF PinInv, PinTipo
  <2> QED
    BY <1>1, <1>4, <1>6, <2>1, <2>2, Cuentas5, PinAssumption DEF PresupuestoDuro
<1>8. ASSUME NEW d \in Equipos PROVE PresupuestoDeEquipo(d)'
  <2>1. /\ Cardinality(RegistranEn(d)') = Cardinality(RegistranEn(d))
               + (IF d = intento[k].d THEN n ELSE 0)
        /\ Cardinality(ComparanEn(d)') = Cardinality(ComparanEn(d)) - (IF d = intento[k].d THEN 1 ELSE 0)
    BY <1>1, <1>3, Moverse, Cuentas5 DEF Uno
  <2>2. PresupuestoDeEquipo(d)
    BY DEF PinInv
  <2> QED
    BY <1>1, <1>6, <2>1, <2>2, Cuentas5, PinAssumption DEF PresupuestoDeEquipo
<1> QED
  BY <1>5, <1>7, <1>8 DEF PinInv

\* Its failure is written: it counts instead of being about to.
LEMMA PinRegistrarFallo ==
    ASSUME PinInv, NEW k \in Intentos, Pi!RegistrarFallo(k)
    PROVE  PinInv'
<1> DEFINE r == [intento[k] EXCEPT !.paso = "contar"]
<1>1. PinTipo /\ Pi!Pasar(k, r) /\ intento[k].paso = "registrar"
  BY DEF PinInv, Pi!RegistrarFallo
<1>2. intento[k] \in Leido /\ intento[k] # Pi!Libre /\ intento[k].d \in Equipos
  BY <1>1 DEF PinTipo, Pi!Libre, Leido
<1>3. /\ r \in Leido /\ r.d = intento[k].d /\ r.pin = intento[k].pin /\ r.tv = intento[k].tv
      /\ r.paso = "contar"
  BY <1>2 DEF Leido
<1>4. /\ UNCHANGED <<usuario, admin, definidos, entradas, quitados>>
      /\ fallos' = [fallos EXCEPT ![<<intento[k].d, 0>>] = @ + 1]
  BY DEF Pi!RegistrarFallo
<1> HIDE DEF r
<1>5. /\ fallos' \in [Pi!Casillas -> Nat]
      /\ Pi!EnLaHora' = Pi!EnLaHora + 1 /\ Pi!EnLaHora \in Nat
      /\ \A e \in Equipos : /\ DeLaRacha(e)' = DeLaRacha(e) + (IF e = intento[k].d THEN 1 ELSE 0)
                            /\ DeLaRacha(e) \in Nat
  BY <1>1, <1>2, <1>4, UnFalloMas, FallosNaturales
<1>6. PinTipo' /\ SinElQuitado'
  BY <1>1, <1>2, <1>3, <1>4, <1>5, PinSigue DEF PinTipo
<1>7. PresupuestoDuro'
  <2>1. /\ Cardinality(PorRegistrar') = Cardinality(PorRegistrar) - 1
        /\ Cardinality(TrasComparar') = Cardinality(TrasComparar)
        /\ Cardinality(PorComparar') = Cardinality(PorComparar)
    BY <1>1, <1>3, Moverse, Cuentas5 DEF Uno
  <2>2. PresupuestoDuro
    BY DEF PinInv
  <2> QED
    BY <1>1, <1>4, <1>5, <2>1, <2>2, Cuentas5, PinAssumption DEF PresupuestoDuro
<1>8. ASSUME NEW d \in Equipos PROVE PresupuestoDeEquipo(d)'
  <2>1. /\ Cardinality(RegistranEn(d)') = Cardinality(RegistranEn(d))
               - (IF d = intento[k].d THEN 1 ELSE 0)
        /\ Cardinality(ComparanEn(d)') = Cardinality(ComparanEn(d))
    BY <1>1, <1>3, Moverse, Cuentas5 DEF Uno
  <2>2. PresupuestoDeEquipo(d)
    BY DEF PinInv
  <2> QED
    BY <1>1, <1>5, <2>1, <2>2, Cuentas5, PinAssumption DEF PresupuestoDeEquipo
<1> QED
  BY <1>6, <1>7, <1>8 DEF PinInv

\* Those about to write a failure are some of those who have compared.
LEMMA RegistranTras ==
    PinTipo => /\ Cardinality(PorRegistrar) <= Cardinality(TrasComparar)
               /\ \A k \in TrasComparar \ PorRegistrar :
                     Cardinality(PorRegistrar) <= Cardinality(TrasComparar) - 1
<1> SUFFICES ASSUME PinTipo
             PROVE  /\ Cardinality(PorRegistrar) <= Cardinality(TrasComparar)
                    /\ \A k \in TrasComparar \ PorRegistrar :
                          Cardinality(PorRegistrar) <= Cardinality(TrasComparar) - 1
  OBVIOUS
<1>1. PorRegistrar \in SUBSET TrasComparar
  BY DEF PorRegistrar, TrasComparar
<1>2. ASSUME NEW k \in TrasComparar \ PorRegistrar
      PROVE  Cardinality(PorRegistrar) <= Cardinality(TrasComparar) - 1
  <2>1. PorRegistrar \in SUBSET (TrasComparar \ {k})
    BY <1>1
  <2>2. IsFiniteSet(TrasComparar \ {k}) /\ Cardinality(TrasComparar \ {k}) = Cardinality(TrasComparar) - 1
    BY Cuentas5, FS_RemoveElement
  <2>3. Cardinality(PorRegistrar) <= Cardinality(TrasComparar \ {k})
    BY <2>1, <2>2, FS_Subset
  <2> QED
    BY <2>2, <2>3
<1> QED
  BY <1>1, <1>2, Cuentas5, FS_Subset

\* Who counts less than the limit leaves room for the others; who does not goes
\* on to block.
LEMMA PinContar ==
    ASSUME PinInv, NEW k \in Intentos, Pi!Contar(k)
    PROVE  PinInv'
<1> DEFINE r == IF Pi!EnLaHora >= MaxDuro THEN [intento[k] EXCEPT !.paso = "bloquear"] ELSE Pi!Libre
<1>1. PinTipo /\ Pi!Pasar(k, r) /\ intento[k].paso = "contar"
  BY DEF PinInv, Pi!Contar
<1>2. intento[k] \in Leido /\ intento[k] # Pi!Libre
  BY <1>1 DEF PinTipo, Pi!Libre
<1>3. /\ r \in {Pi!Libre} \cup Leido
      /\ r # Pi!Libre => /\ r.d = intento[k].d /\ r.pin = intento[k].pin /\ r.tv = intento[k].tv
      /\ r.paso = IF Pi!EnLaHora >= MaxDuro THEN "bloquear" ELSE "libre"
  BY <1>2 DEF Leido, Pi!Libre
<1>4. UNCHANGED <<usuario, fallos, admin, definidos, entradas, quitados>>
  BY DEF Pi!Contar
<1> HIDE DEF r
<1>5. PinTipo' /\ SinElQuitado'
  BY <1>1, <1>2, <1>3, <1>4, PinSigue DEF PinTipo
<1>6. /\ Pi!EnLaHora' = Pi!EnLaHora /\ Pi!EnLaHora \in Nat
      /\ \A e \in Equipos : DeLaRacha(e)' = DeLaRacha(e) /\ DeLaRacha(e) \in Nat
  BY <1>1, <1>4, MismosFallos, FallosNaturales
<1>7. PresupuestoDuro'
  <2>1. /\ Cardinality(PorRegistrar') = Cardinality(PorRegistrar)
        /\ Cardinality(TrasComparar') = Cardinality(TrasComparar) - (IF Pi!EnLaHora >= MaxDuro THEN 0 ELSE 1)
        /\ Cardinality(PorComparar') = Cardinality(PorComparar)
    BY <1>1, <1>3, Moverse, Cuentas5 DEF Uno
  <2>2. PresupuestoDuro
    BY DEF PinInv
  <2>3. Cardinality(PorRegistrar) <= Cardinality(TrasComparar) - 1
    <3>1. k \in TrasComparar \ PorRegistrar
      BY <1>1 DEF PorRegistrar, TrasComparar
    <3> QED
      BY <1>1, <3>1, RegistranTras
  <2> QED
    BY <1>1, <1>4, <1>6, <2>1, <2>2, <2>3, Cuentas5, PinAssumption DEF PresupuestoDuro
<1>8. ASSUME NEW d \in Equipos PROVE PresupuestoDeEquipo(d)'
  <2>1. /\ Cardinality(RegistranEn(d)') = Cardinality(RegistranEn(d))
        /\ Cardinality(ComparanEn(d)') = Cardinality(ComparanEn(d))
    BY <1>1, <1>3, Moverse, Cuentas5 DEF Uno
  <2> QED
    BY <1>6, <2>1 DEF PresupuestoDeEquipo, PinInv
<1> QED
  BY <1>5, <1>7, <1>8 DEF PinInv

\* The block: nobody else comes in, and those inside were counted.
LEMMA PinBloquear ==
    ASSUME PinInv, NEW k \in Intentos, Pi!Bloquear(k)
    PROVE  PinInv'
<1> DEFINE r == Pi!Libre
<1>1. PinTipo /\ Pi!Pasar(k, r) /\ intento[k].paso = "bloquear" /\ r.paso = "libre"
  BY DEF PinInv, Pi!Bloquear, Pi!Libre
<1>2. intento[k] # Pi!Libre /\ r \in {Pi!Libre} \cup Leido
  BY <1>1 DEF Pi!Libre
<1>3. /\ UNCHANGED <<fallos, admin, definidos, entradas, quitados>>
      /\ usuario'.bloqueado = TRUE /\ usuario'.pin = usuario.pin /\ usuario'.tv = usuario.tv
      /\ usuario' \in [pin : Nat, bloqueado : BOOLEAN, tv : Nat]
  BY <1>1 DEF Pi!Bloquear, PinTipo
<1>4. PinTipo' /\ SinElQuitado'
  BY <1>1, <1>2, <1>3, PinSigue DEF PinTipo
<1> HIDE DEF r
<1>5. /\ Pi!EnLaHora' = Pi!EnLaHora /\ Pi!EnLaHora \in Nat
      /\ \A e \in Equipos : DeLaRacha(e)' = DeLaRacha(e) /\ DeLaRacha(e) \in Nat
  BY <1>1, <1>3, MismosFallos, FallosNaturales
<1>6. PresupuestoDuro'
  <2>1. /\ Cardinality(PorRegistrar') = Cardinality(PorRegistrar)
        /\ Cardinality(PorComparar') = Cardinality(PorComparar)
    BY <1>1, <1>2, Moverse, Cuentas5 DEF Uno
  <2>2. PresupuestoDuro /\ usuario.bloqueado \in BOOLEAN
    BY DEF PinInv, PinTipo
  <2> QED
    BY <1>1, <1>3, <1>5, <2>1, <2>2, Cuentas5, PinAssumption DEF PresupuestoDuro
<1>7. ASSUME NEW d \in Equipos PROVE PresupuestoDeEquipo(d)'
  <2>1. /\ Cardinality(RegistranEn(d)') = Cardinality(RegistranEn(d))
        /\ Cardinality(ComparanEn(d)') = Cardinality(ComparanEn(d))
    BY <1>1, <1>2, Moverse, Cuentas5 DEF Uno
  <2> QED
    BY <1>5, <2>1 DEF PresupuestoDeEquipo, PinInv
<1> QED
  BY <1>4, <1>6, <1>7 DEF PinInv

\* What leaves the counts of attempts as they were and raises none of failures
\* keeps both budgets.
LEMMA Baja ==
    ASSUME PinInv, PinTipo', admin' = admin, usuario'.bloqueado = usuario.bloqueado,
           Pi!EnLaHora' <= Pi!EnLaHora, Pi!EnLaHora' \in Nat,
           Cardinality(PorRegistrar') = Cardinality(PorRegistrar),
           Cardinality(TrasComparar') = Cardinality(TrasComparar),
           Cardinality(PorComparar') = Cardinality(PorComparar),
           \A d \in Equipos : /\ DeLaRacha(d)' <= DeLaRacha(d) /\ DeLaRacha(d)' \in Nat
                              /\ Cardinality(RegistranEn(d)') = Cardinality(RegistranEn(d))
                              /\ Cardinality(ComparanEn(d)') = Cardinality(ComparanEn(d))
    PROVE  PresupuestoDuro' /\ \A d \in Equipos : PresupuestoDeEquipo(d)'
<1>1. PinTipo /\ PresupuestoDuro
  BY DEF PinInv
<1>2. Pi!EnLaHora \in Nat /\ \A d \in Equipos : DeLaRacha(d) \in Nat
  BY <1>1, FallosNaturales
<1>3. PresupuestoDuro'
  BY <1>1, <1>2, Cuentas5, PinAssumption DEF PresupuestoDuro
<1>4. ASSUME NEW d \in Equipos PROVE PresupuestoDeEquipo(d)'
  <2>1. PresupuestoDeEquipo(d)
    BY DEF PinInv
  <2> QED
    BY <1>1, <1>2, <2>1, Cuentas5, PinAssumption DEF PresupuestoDeEquipo
<1> QED
  BY <1>3, <1>4

\* A right PIN forgets the failures of its device.
LEMMA PinLimpiar ==
    ASSUME PinInv, NEW k \in Intentos, Pi!Limpiar(k)
    PROVE  PinInv'
<1> DEFINE r == Pi!Libre
<1>1. PinTipo /\ Pi!Pasar(k, r) /\ intento[k].paso = "limpiar" /\ r.paso = "libre"
  BY DEF PinInv, Pi!Limpiar, Pi!Libre
<1>2. intento[k] # Pi!Libre /\ r \in {Pi!Libre} \cup Leido /\ intento[k].d \in Equipos
  BY <1>1 DEF Pi!Libre, PinTipo, Leido
<1>3. /\ UNCHANGED <<usuario, admin, definidos, quitados>>
      /\ entradas' = entradas \cup {[pin |-> intento[k].pin, tv |-> intento[k].tv]}
      /\ fallos' = [c \in Pi!Casillas |-> IF c[1] = intento[k].d THEN 0 ELSE fallos[c]]
  BY DEF Pi!Limpiar
<1>4. /\ fallos' \in [Pi!Casillas -> Nat]
      /\ Pi!EnLaHora' <= Pi!EnLaHora /\ Pi!EnLaHora' \in Nat
      /\ \A d \in Equipos : DeLaRacha(d)' \in {0, DeLaRacha(d)}
  BY <1>1, <1>2, <1>3, Olvido
<1>5. PinTipo' /\ SinElQuitado'
  BY <1>1, <1>2, <1>3, <1>4, PinSigue DEF PinTipo
<1> HIDE DEF r
<1>6. /\ Cardinality(PorRegistrar') = Cardinality(PorRegistrar)
      /\ Cardinality(TrasComparar') = Cardinality(TrasComparar)
      /\ Cardinality(PorComparar') = Cardinality(PorComparar)
  <2>1. /\ Cardinality(PorRegistrar') = Cardinality(PorRegistrar) + 0 - 0
        /\ Cardinality(TrasComparar') = Cardinality(TrasComparar) + 0 - 0
        /\ Cardinality(PorComparar') = Cardinality(PorComparar) + 0 - 0
    <3>1. /\ r.paso \notin {"registrar", "contar", "bloquear", "espera", "comparar"}
          /\ intento[k].paso \notin {"registrar", "contar", "bloquear", "espera", "comparar"}
      BY <1>1
    <3> QED
      BY <1>1, <1>2, <3>1, Moverse DEF Uno
  <2> QED
    BY <1>1, <2>1, Cuentas5
<1>7. \A d \in Equipos : /\ Cardinality(RegistranEn(d)') = Cardinality(RegistranEn(d))
                         /\ Cardinality(ComparanEn(d)') = Cardinality(ComparanEn(d))
  BY <1>1, <1>2, Moverse, Cuentas5 DEF Uno
<1>8. \A d \in Equipos : DeLaRacha(d)' <= DeLaRacha(d) /\ DeLaRacha(d)' \in Nat
  BY <1>1, <1>4, FallosNaturales
<1>9. PresupuestoDuro' /\ \A d \in Equipos : PresupuestoDeEquipo(d)'
  BY <1>3, <1>4, <1>5, <1>6, <1>7, <1>8, Baja
<1> QED
  BY <1>5, <1>9 DEF PinInv

-----------------------------------------------------------------------------
\* What moves no attempt leaves the counts of attempts as they were.
LEMMA MismosIntentos ==
    ASSUME intento' = intento
    PROVE  /\ PorRegistrar' = PorRegistrar /\ TrasComparar' = TrasComparar
           /\ PorComparar' = PorComparar
           /\ \A d \in Equipos : RegistranEn(d)' = RegistranEn(d) /\ ComparanEn(d)' = ComparanEn(d)
BY DEF PorRegistrar, TrasComparar, PorComparar, RegistranEn, ComparanEn

\* Time only takes failures out of the windows.
LEMMA PinTic == PinInv /\ Pi!Tic => PinInv'
<1> SUFFICES ASSUME PinInv, Pi!Tic PROVE PinInv'
  OBVIOUS
<1>1. UNCHANGED <<usuario, intento, admin, definidos, entradas, quitados>> /\ PinTipo
  BY DEF Pi!Tic, PinInv
<1>2. /\ fallos' \in [Pi!Casillas -> Nat]
      /\ Pi!EnLaHora' <= Pi!EnLaHora
      /\ \A d \in Equipos : DeLaRacha(d)' <= DeLaRacha(d)
  BY <1>1, TiempoPasa
<1>3. PinTipo' /\ SinElQuitado'
  BY <1>1, <1>2 DEF PinInv, PinTipo, SinElQuitado
<1>4. Pi!EnLaHora' \in Nat /\ \A d \in Equipos : DeLaRacha(d)' \in Nat
  BY <1>3, FallosDespues
<1>5. PresupuestoDuro' /\ \A d \in Equipos : PresupuestoDeEquipo(d)'
  BY <1>1, <1>2, <1>3, <1>4, MismosIntentos, Baja
<1> QED
  BY <1>3, <1>5 DEF PinInv

\* The administrator's UPDATE: the failures of before stop counting until the
\* DELETE, and the device's stay.
LEMMA PresupuestosAdmin ==
    ASSUME PinInv, PinTipo', SinElQuitado', intento' = intento,
           \/ fallos' = fallos /\ admin' \in {"borrar", "borrarYsubir"}
           \/ fallos' = Pi!SinFallos
    PROVE  PinInv'
<1>1. PinTipo
  BY DEF PinInv
<1>2. CASE fallos' = fallos /\ admin' \in {"borrar", "borrarYsubir"}
  BY <1>2, MismosFallos, MismosIntentos DEF PinInv, PresupuestoDuro, PresupuestoDeEquipo
<1>3. CASE fallos' = Pi!SinFallos
  <2>1. Pi!EnLaHora' = 0 /\ \A d \in Equipos : DeLaRacha(d)' = 0
    BY <1>3, TodoSeOlvida
  <2>2. Cardinality(PorRegistrar) <= Cardinality(TrasComparar)
    BY <1>1, RegistranTras
  <2>3. PresupuestoDuro'
    BY <1>1, <2>1, <2>2, MismosIntentos, Cuentas5, PinAssumption DEF PresupuestoDuro
  <2>4. \A d \in Equipos : PresupuestoDeEquipo(d)'
    BY <1>1, <2>1, MismosIntentos, Cuentas5, PinAssumption DEF PresupuestoDeEquipo
  <2> QED
    BY <2>3, <2>4 DEF PinInv
<1> QED
  BY <1>2, <1>3

\* The administrator.
LEMMA PinAdmin ==
    PinInv /\ (Pi!DefinirPin \/ Pi!Desbloquear \/ Pi!QuitarPin \/ Pi!BorrarFallos) => PinInv'
<1> SUFFICES ASSUME PinInv, Pi!DefinirPin \/ Pi!Desbloquear \/ Pi!QuitarPin \/ Pi!BorrarFallos
             PROVE PinInv'
  OBVIOUS
<1>1. /\ intento' = intento /\ entradas' = entradas /\ quitados' = quitados
      /\ \/ fallos' = fallos /\ admin' \in {"borrar", "borrarYsubir"}
         \/ fallos' = Pi!SinFallos
  BY DEF Pi!DefinirPin, Pi!Desbloquear, Pi!QuitarPin, Pi!BorrarFallos
<1>2. /\ usuario' \in [pin : Nat, bloqueado : BOOLEAN, tv : Nat] /\ usuario'.tv = usuario.tv
      /\ definidos' \in {definidos, definidos + 1}
      /\ usuario'.pin \in {0, usuario.pin} \/ (usuario'.pin = definidos + 1 /\ definidos' = definidos + 1)
      /\ admin' \in {"borrarYsubir", "subir"} => usuario'.pin = 0
      /\ admin' \in {"libre", "borrar", "borrarYsubir", "subir"}
      /\ fallos' \in [Pi!Casillas -> Nat]
  <2>1. CASE Pi!DefinirPin
    <3>1. /\ definidos' = definidos + 1 /\ admin' = "borrar" /\ fallos' = fallos
          /\ usuario' = [usuario EXCEPT !.pin = definidos + 1, !.bloqueado = FALSE]
      BY <2>1 DEF Pi!DefinirPin
    <3>2. /\ usuario \in [pin : Nat, bloqueado : BOOLEAN, tv : Nat] /\ definidos \in Nat
          /\ fallos \in [Pi!Casillas -> Nat]
      BY DEF PinInv, PinTipo
    <3>3. \A u \in [pin : Nat, bloqueado : BOOLEAN, tv : Nat], n \in Nat :
            LET v == [u EXCEPT !.pin = n, !.bloqueado = FALSE]
            IN  v \in [pin : Nat, bloqueado : BOOLEAN, tv : Nat] /\ v.tv = u.tv /\ v.pin = n
      OBVIOUS
    <3>4. definidos + 1 \in Nat
      BY <3>2
    <3>5. /\ usuario' \in [pin : Nat, bloqueado : BOOLEAN, tv : Nat] /\ usuario'.tv = usuario.tv
          /\ usuario'.pin = definidos + 1
      BY <3>1, <3>2, <3>3, <3>4
    <3> QED
      BY <3>1, <3>2, <3>5
  <2>2. CASE Pi!Desbloquear
    BY <2>2 DEF PinInv, PinTipo, SinElQuitado, Pi!Desbloquear
  <2>3. CASE Pi!QuitarPin
    BY <2>3 DEF PinInv, PinTipo, SinElQuitado, Pi!QuitarPin
  <2>4. CASE Pi!BorrarFallos
    BY <2>4 DEF PinInv, PinTipo, SinElQuitado, Pi!BorrarFallos, Pi!SinFallos
  <2> QED
    BY <2>1, <2>2, <2>3, <2>4
<1>3. PinTipo'
  BY <1>1, <1>2 DEF PinInv, PinTipo
<1>4. SinElQuitado'
  <2>1. usuario'.pin \in 0..definidos' /\ usuario'.pin \notin quitados
    BY <1>2 DEF PinInv, PinTipo, SinElQuitado
  <2>2. \A s \in entradas : s.pin <= definidos'
    BY <1>2 DEF PinInv, PinTipo, SinElQuitado
  <2>3. \A k \in Intentos : intento[k] # Pi!Libre => intento[k].pin <= definidos'
    <3> SUFFICES ASSUME NEW k \in Intentos, intento[k] # Pi!Libre PROVE intento[k].pin <= definidos'
      OBVIOUS
    <3>1. intento[k].pin \in Nat /\ intento[k].pin <= definidos /\ definidos \in Nat
      BY DEF PinInv, PinTipo, SinElQuitado, Leido
    <3> QED
      BY <1>2, <3>1
  <2> QED
    BY <1>1, <1>2, <2>1, <2>2, <2>3 DEF PinInv, SinElQuitado
<1> QED
  BY <1>1, <1>3, <1>4, PresupuestosAdmin

\* The removal is answered once every session of before is of an old version.
LEMMA PinSubirVersion == PinInv /\ Pi!SubirVersion => PinInv'
<1> SUFFICES ASSUME PinInv, Pi!SubirVersion PROVE PinInv'
  OBVIOUS
<1>1. /\ intento' = intento /\ entradas' = entradas /\ fallos' = fallos /\ definidos' = definidos
      /\ admin = "subir" /\ quitados' = 1..definidos /\ admin' = "libre" /\ usuario.pin = 0
      /\ usuario'.pin = usuario.pin /\ usuario'.bloqueado = usuario.bloqueado
      /\ usuario'.tv = usuario.tv + 1
      /\ usuario' \in [pin : Nat, bloqueado : BOOLEAN, tv : Nat]
  <2>1. usuario \in [pin : Nat, bloqueado : BOOLEAN, tv : Nat] /\ usuario' = [usuario EXCEPT !.tv = @ + 1]
    BY DEF PinInv, PinTipo, Pi!SubirVersion
  <2>2. /\ usuario'.pin = usuario.pin /\ usuario'.bloqueado = usuario.bloqueado
        /\ usuario'.tv = usuario.tv + 1
        /\ usuario' \in [pin : Nat, bloqueado : BOOLEAN, tv : Nat]
    BY <2>1
  <2> QED
    BY <2>2 DEF PinInv, SinElQuitado, Pi!SubirVersion
<1>2. PinTipo'
  BY <1>1 DEF PinInv, PinTipo
<1>3. SinElQuitado'
  <2>1. usuario.tv \in Nat /\ definidos \in Nat
    BY DEF PinInv, PinTipo
  <2>2. \A s \in entradas : s.pin \in Nat /\ s.tv \in Nat /\ s.tv < usuario.tv + 1 /\ s.tv <= usuario.tv + 1
                            /\ s.pin <= definidos
    BY <2>1 DEF PinInv, SinElQuitado
  <2>3. \A k \in Intentos : intento[k] # Pi!Libre =>
           intento[k].tv < usuario.tv + 1 /\ intento[k].tv <= usuario.tv + 1 /\ intento[k].pin <= definidos
    BY <2>1 DEF PinInv, PinTipo, SinElQuitado, Leido
  <2> QED
    BY <1>1, <2>1, <2>2, <2>3 DEF SinElQuitado
<1>5. PresupuestoDuro' /\ \A d \in Equipos : PresupuestoDeEquipo(d)'
  BY <1>1, MismosFallos, MismosIntentos DEF PinInv, PresupuestoDuro, PresupuestoDeEquipo
<1> QED
  BY <1>2, <1>3, <1>5 DEF PinInv

\* Every step of the PIN keeps its invariant.
LEMMA PinPaso == PinInv /\ [Pi!Next]_dePin => PinInv'
<1> SUFFICES ASSUME PinInv, [Pi!Next]_dePin PROVE PinInv'
  OBVIOUS
<1>1. CASE UNCHANGED dePin
  <2>1. PinTipo' /\ SinElQuitado'
    BY <1>1 DEF dePin, PinInv, PinTipo, SinElQuitado
  <2>3. PresupuestoDuro' /\ \A d \in Equipos : PresupuestoDeEquipo(d)'
    BY <1>1, MismosFallos, MismosIntentos DEF dePin, PinInv, PresupuestoDuro, PresupuestoDeEquipo
  <2> QED
    BY <2>1, <2>3 DEF PinInv
<1>2. CASE Pi!Next
  BY <1>2, PinEmpezar, PinVerEspera, PinComparar, PinRegistrarFallo, PinContar, PinBloquear,
     PinLimpiar, PinTic, PinAdmin, PinSubirVersion DEF Pi!Next
<1> QED
  BY <1>1, <1>2

\* The invariant has both properties.
LEMMA PinImplica == PinInv => IntentosAcotados /\ PinQuitadoFuera
<1> SUFFICES ASSUME PinInv PROVE IntentosAcotados /\ PinQuitadoFuera
  OBVIOUS
<1>1. PinTipo
  BY DEF PinInv
<1>2. Pi!EnLaHora \in Nat /\ \A d \in Equipos : DeLaRacha(d) \in Nat
  BY <1>1, FallosNaturales
<1>3. \A S : Pi!Cardinality(S) = Cardinality(S)
  BY DEF Pi!Cardinality, Cardinality
<1>4. Pi!Malos = Pi!EnLaHora + Cardinality(PorRegistrar)
  BY <1>3 DEF Pi!Malos, PorRegistrar
<1>5. ASSUME admin \notin {"borrar", "borrarYsubir"}
      PROVE  Pi!Malos < MaxDuro + Cardinality(Intentos)
  <2>1. PresupuestoDuro /\ usuario.bloqueado \in BOOLEAN
    BY <1>1 DEF PinInv, PinTipo
  <2> QED
    BY <1>1, <1>2, <1>4, <1>5, <2>1, Cuentas5, PinAssumption DEF PresupuestoDuro
<1>6. ASSUME NEW d \in Equipos PROVE Pi!MalosEquipo(d) < MaxEquipo + Cardinality(Intentos)
  <2>1. {k \in Intentos : intento[k].paso = "registrar" /\ intento[k].d = d} = RegistranEn(d)
    BY DEF RegistranEn, PorRegistrar
  <2>2. Pi!MalosEquipo(d) = DeLaRacha(d) + Cardinality(RegistranEn(d))
    BY <1>3, <2>1, SumaDePin DEF Pi!MalosEquipo, DeLaRacha, EnLaRacha
  <2> QED
    BY <1>1, <1>2, <2>2, Cuentas5, PinAssumption DEF PinInv, PresupuestoDeEquipo
<1>7. PinQuitadoFuera
  BY <1>1 DEF PinInv, PinTipo, SinElQuitado, PinQuitadoFuera, Pi!PinQuitadoFuera
<1> QED
  BY <1>3, <1>5, <1>6, <1>7 DEF IntentosAcotados, Pi!IntentosAcotados

-----------------------------------------------------------------------------
(* Catalogo                                                                *)

\* What a request has read, by the operation it is in.
BajaLeida    == [paso : {"cuenta", "borra", "reasigna"}, id : Categorias, nombre : Nombres,
                 destino : Nombres]
EscrituraDe  == [paso : {"escribe", "escrito"}, id : Articulos, producto : Articulos,
                 categoria : Nombres, proveedor : Proveedores]
CuentaLeida  == [paso : {"elimina"}, id : Proveedores]
FusionLeida  == [paso : {"fusiona"}, id : Proveedores, destino : Proveedores]
EnTramite    == {Ninguno} \cup BajaLeida \cup EscrituraDe \cup CuentaLeida \cup FusionLeida

Estados == {"ACTIVO", "INACTIVO", "BORRADO"}
Producto == [categoria : Nombres, proveedor : Proveedores]

CatTipo ==
    /\ categorias \in [Categorias -> {Ninguno} \cup Nombres]
    /\ productos \in [Articulos -> {Ninguno} \cup Producto]
    /\ proveedores \in [Proveedores -> Estados]
    /\ tx \in [Conexiones -> EnTramite]

\* A write that is not committed holds the row of its supplier by the foreign
\* key: it is there too.
EscritosConProveedor ==
    \A x \in Ca!En("escrito") : proveedores[tx[x].proveedor] # "BORRADO"

CatInv == CatTipo /\ EscritosConProveedor /\ HistorialConProveedor

\* At the start there are no products.
LEMMA CatInicio == Ca!Init => CatInv
BY DEF Ca!Init, CatInv, CatTipo, Estados, EscritosConProveedor, Ca!En, EnTramite,
   HistorialConProveedor, Ca!HistorialConProveedor, Ca!Guardados

\* A request that goes on to r and writes nothing of suppliers or products.
LEMMA CatSigue ==
    ASSUME CatInv, NEW x \in Conexiones, NEW r \in EnTramite, tx' = [tx EXCEPT ![x] = r],
           r # Ninguno /\ r.paso = "escrito" => proveedores[r.proveedor] # "BORRADO",
           categorias' \in [Categorias -> {Ninguno} \cup Nombres],
           productos' = productos, proveedores' = proveedores
    PROVE  CatInv'
<1>1. CatTipo'
  BY DEF CatInv, CatTipo
<1>2. \A y \in Conexiones : tx'[y] = IF y = x THEN r ELSE tx[y]
  BY DEF CatInv, CatTipo
<1>3. EscritosConProveedor'
  BY <1>2 DEF CatInv, EscritosConProveedor, Ca!En
<1>4. HistorialConProveedor'
  BY DEF CatInv, HistorialConProveedor, Ca!HistorialConProveedor, Ca!Guardados
<1> QED
  BY <1>1, <1>3, <1>4 DEF CatInv

\* A request that ends having written products or suppliers.
LEMMA CatTermina ==
    ASSUME CatInv, NEW x \in Conexiones, tx' = [tx EXCEPT ![x] = Ninguno],
           categorias' \in [Categorias -> {Ninguno} \cup Nombres],
           productos' \in [Articulos -> {Ninguno} \cup Producto],
           proveedores' \in [Proveedores -> Estados],
           \A y \in Ca!En("escrito") : y # x => proveedores'[tx[y].proveedor] # "BORRADO",
           \A p \in Articulos : productos'[p] # Ninguno =>
                proveedores'[productos'[p].proveedor] # "BORRADO"
    PROVE  CatInv'
<1>1. CatTipo'
  BY DEF CatInv, CatTipo, EnTramite
<1>2. \A y \in Conexiones : tx'[y] = IF y = x THEN Ninguno ELSE tx[y]
  BY DEF CatInv, CatTipo
<1>3. EscritosConProveedor'
  BY <1>2 DEF EscritosConProveedor, Ca!En
<1>4. HistorialConProveedor'
  BY DEF HistorialConProveedor, Ca!HistorialConProveedor, Ca!Guardados
<1> QED
  BY <1>1, <1>3, <1>4 DEF CatInv

\* What a request at a step has read.
LEMMA CatEn ==
    ASSUME CatInv, NEW x \in Conexiones
    PROVE  /\ x \in Ca!En("cuenta") \/ x \in Ca!En("borra") \/ x \in Ca!En("reasigna") => tx[x] \in BajaLeida
           /\ x \in Ca!En("escribe") \/ x \in Ca!En("escrito") => tx[x] \in EscrituraDe
           /\ x \in Ca!En("elimina") => tx[x] \in CuentaLeida
           /\ x \in Ca!En("fusiona") => tx[x] \in FusionLeida
<1>1. tx[x] \in EnTramite
  BY DEF CatInv, CatTipo
<1> QED
  BY <1>1 DEF Ca!En, EnTramite, BajaLeida, EscrituraDe, CuentaLeida, FusionLeida

\* Products that take another category keep their supplier.
LEMMA CatRenombrados ==
    ASSUME CatInv, NEW n \in Nombres, NEW S \in SUBSET Ca!Guardados
    PROVE  /\ Ca!Renombrados(S, n) \in [Articulos -> {Ninguno} \cup Producto]
           /\ \A p \in Articulos : Ca!Renombrados(S, n)[p] # Ninguno =>
                 proveedores[Ca!Renombrados(S, n)[p].proveedor] # "BORRADO"
<1>1. \A p \in Ca!Guardados : productos[p] \in Producto
  BY DEF CatInv, CatTipo, Ca!Guardados
<1>2. \A q \in Producto : LET r == [q EXCEPT !.categoria = n]
                          IN  r \in Producto /\ r.proveedor = q.proveedor
  BY DEF Producto
<1>3. ASSUME NEW p \in Articulos
      PROVE  /\ Ca!Renombrados(S, n)[p] \in {Ninguno} \cup Producto
             /\ Ca!Renombrados(S, n)[p] # Ninguno =>
                 proveedores[Ca!Renombrados(S, n)[p].proveedor] # "BORRADO"
  <2>1. CASE p \in S
    <3>1. Ca!Renombrados(S, n)[p] = [productos[p] EXCEPT !.categoria = n]
      BY <2>1 DEF Ca!Renombrados
    <3>2. p \in Ca!Guardados
      BY <2>1
    <3> QED
      BY <1>1, <1>2, <3>1, <3>2
         DEF CatInv, HistorialConProveedor, Ca!HistorialConProveedor
  <2>2. CASE p \notin S
    <3>1. Ca!Renombrados(S, n)[p] = productos[p]
      BY <2>2 DEF Ca!Renombrados
    <3> QED
      BY <3>1 DEF CatInv, CatTipo, HistorialConProveedor, Ca!HistorialConProveedor, Ca!Guardados
  <2> QED
    BY <2>1, <2>2
<1> QED
  BY <1>3 DEF Ca!Renombrados

\* Categories: create and update.
LEMMA CatCategorias ==
    ASSUME CatInv, NEW k \in Categorias, NEW n \in Nombres, Ca!Crear(k, n) \/ Ca!Renombrar(k, n)
    PROVE  CatInv'
<1>1. tx' = tx /\ proveedores' = proveedores /\ categorias' = [categorias EXCEPT ![k] = n]
      /\ categorias' \in [Categorias -> {Ninguno} \cup Nombres]
  BY DEF Ca!Crear, Ca!Renombrar, CatInv, CatTipo
<1>2. /\ productos' \in [Articulos -> {Ninguno} \cup Producto]
      /\ \A p \in Articulos : productos'[p] # Ninguno =>
            proveedores[productos'[p].proveedor] # "BORRADO"
  <2>1. CASE Ca!Crear(k, n)
    BY <2>1 DEF Ca!Crear, CatInv, CatTipo, HistorialConProveedor, Ca!HistorialConProveedor,
       Ca!Guardados
  <2>2. CASE Ca!Renombrar(k, n)
    <3>1. productos' = Ca!Renombrados(Ca!DeCategoria(categorias[k]), n)
      BY <2>2 DEF Ca!Renombrar
    <3>2. Ca!DeCategoria(categorias[k]) \in SUBSET Ca!Guardados
      BY DEF Ca!DeCategoria
    <3> QED
      BY <3>1, <3>2, CatRenombrados
  <2> QED
    BY <2>1, <2>2
<1>3. CatTipo' /\ EscritosConProveedor'
  BY <1>1, <1>2 DEF CatInv, CatTipo, EscritosConProveedor, Ca!En
<1>4. HistorialConProveedor'
  BY <1>1, <1>2 DEF HistorialConProveedor, Ca!HistorialConProveedor, Ca!Guardados
<1> QED
  BY <1>3, <1>4 DEF CatInv

\* Categories: remove, up to its last statement.
LEMMA CatBaja ==
    ASSUME CatInv, NEW x \in Conexiones,
           (\E k \in Categorias : Ca!LeerBaja(x, k)) \/ Ca!ContarUso(x) \/ Ca!Borrar(x)
    PROVE  CatInv'
<1>1. CASE \E k \in Categorias : Ca!LeerBaja(x, k)
  <2>1. PICK k \in Categorias, c \in Categorias :
            /\ categorias[k] # Ninguno /\ categorias[c] # Ninguno
            /\ tx' = [tx EXCEPT ![x] = [paso |-> IF c = k THEN "cuenta" ELSE "reasigna", id |-> k,
                                        nombre |-> categorias[k], destino |-> categorias[c]]]
            /\ categorias' = categorias /\ productos' = productos /\ proveedores' = proveedores
    BY <1>1 DEF Ca!LeerBaja, Ca!Seguir
  <2> DEFINE r == [paso |-> IF c = k THEN "cuenta" ELSE "reasigna", id |-> k,
                   nombre |-> categorias[k], destino |-> categorias[c]]
  <2>2. categorias[k] \in Nombres /\ categorias[c] \in Nombres
    BY <2>1 DEF CatInv, CatTipo
  <2>3. r \in EnTramite /\ r.paso # "escrito"
    BY <2>2 DEF EnTramite, BajaLeida
  <2> HIDE DEF r
  <2>4. tx' = [tx EXCEPT ![x] = r]
    BY <2>1 DEF r
  <2> QED
    BY <2>1, <2>3, <2>4, CatSigue DEF CatInv, CatTipo
<1>2. CASE Ca!ContarUso(x)
  <2>1. \E r \in EnTramite : /\ tx' = [tx EXCEPT ![x] = r]
                             /\ r # Ninguno => r.paso # "escrito"
    <3>1. tx[x] \in BajaLeida
      BY <1>2, CatEn DEF Ca!ContarUso
    <3>2. LET r == [tx[x] EXCEPT !.paso = "borra"]
          IN  r \in BajaLeida /\ r.paso = "borra"
      BY <3>1 DEF BajaLeida
    <3>3. \/ tx' = [tx EXCEPT ![x] = Ninguno]
          \/ tx' = [tx EXCEPT ![x] = [tx[x] EXCEPT !.paso = "borra"]]
      BY <1>2 DEF Ca!ContarUso, Ca!Seguir, Ca!Terminar
    <3> QED
      BY <3>2, <3>3 DEF EnTramite
  <2> QED
    BY <1>2, <2>1, CatSigue DEF Ca!ContarUso, CatInv, CatTipo
<1>3. CASE Ca!Borrar(x)
  <2>1. tx' = [tx EXCEPT ![x] = Ninguno] /\ Ninguno \in EnTramite
    BY <1>3 DEF Ca!Borrar, Ca!Terminar, Ca!Seguir, EnTramite
  <2>2. /\ categorias' \in [Categorias -> {Ninguno} \cup Nombres]
        /\ productos' = productos /\ proveedores' = proveedores
    BY <1>3 DEF Ca!Borrar, CatInv, CatTipo
  <2> QED
    BY <2>1, <2>2, CatSigue
<1> QED
  BY <1>1, <1>2, <1>3

\* ... and with a destination.
LEMMA CatReasignar ==
    ASSUME CatInv, NEW x \in Conexiones, Ca!Reasignar(x)
    PROVE  CatInv'
<1> DEFINE P == Ca!DeCategoria(tx[x].nombre)
<1>1. tx' = [tx EXCEPT ![x] = Ninguno] /\ proveedores' = proveedores
      /\ \/ categorias' = categorias /\ productos' = productos
         \/ /\ categorias' = [categorias EXCEPT ![tx[x].id] = Ninguno]
            /\ productos' = Ca!Renombrados(P, tx[x].destino)
  BY DEF Ca!Reasignar, Ca!Terminar, Ca!Seguir
<1>2. tx[x].destino \in Nombres
  BY CatEn DEF Ca!Reasignar, BajaLeida
<1>3. P \in SUBSET Ca!Guardados
  BY DEF Ca!DeCategoria
<1>4. /\ productos' \in [Articulos -> {Ninguno} \cup Producto]
      /\ \A p \in Articulos : productos'[p] # Ninguno =>
            proveedores[productos'[p].proveedor] # "BORRADO"
  <2> HIDE DEF P
  <2>1. CASE productos' = productos
    BY <2>1 DEF CatInv, CatTipo, HistorialConProveedor, Ca!HistorialConProveedor, Ca!Guardados
  <2>2. CASE productos' = Ca!Renombrados(P, tx[x].destino)
    BY <2>2, <1>2, <1>3, CatRenombrados
  <2> QED
    BY <1>1, <2>1, <2>2
<1>5. categorias' \in [Categorias -> {Ninguno} \cup Nombres]
  BY <1>1 DEF CatInv, CatTipo
<1>6. proveedores \in [Proveedores -> Estados] /\ EscritosConProveedor
  BY DEF CatInv, CatTipo
<1> QED
  BY <1>1, <1>4, <1>5, <1>6, CatTermina DEF EscritosConProveedor

\* Products: the check and the write.
LEMMA CatProducto ==
    ASSUME CatInv, NEW x \in Conexiones,
           \/ \E p \in Articulos, n \in Nombres, v \in Proveedores : Ca!Revisar(x, p, n, v)
           \/ Ca!Escribir(x)
    PROVE  CatInv'
<1>1. CASE \E p \in Articulos, n \in Nombres, v \in Proveedores : Ca!Revisar(x, p, n, v)
  <2>1. PICK p \in Articulos, n \in Nombres, v \in Proveedores : Ca!Revisar(x, p, n, v)
    BY <1>1
  <2> DEFINE r == [paso |-> "escribe", id |-> p, producto |-> p, categoria |-> n, proveedor |-> v]
  <2>2. r \in EnTramite /\ r.paso # "escrito"
    BY DEF EnTramite, EscrituraDe
  <2>3. tx' = [tx EXCEPT ![x] = r] /\ categorias' = categorias /\ productos' = productos
        /\ proveedores' = proveedores
    BY <2>1 DEF Ca!Revisar, Ca!Seguir
  <2> HIDE DEF r
  <2> QED
    BY <2>2, <2>3, CatSigue DEF CatInv, CatTipo
<1>2. CASE Ca!Escribir(x)
  <2>1. tx[x] \in EscrituraDe
    BY <1>2, CatEn DEF Ca!Escribir
  <2>2. categorias' = categorias /\ productos' = productos /\ proveedores' = proveedores
    BY <1>2 DEF Ca!Escribir
  <2>3. CASE tx' = [tx EXCEPT ![x] = Ninguno]
    BY <2>2, <2>3, CatSigue DEF EnTramite, CatInv, CatTipo
  <2>4. CASE /\ tx' = [tx EXCEPT ![x] = [tx[x] EXCEPT !.paso = "escrito"]]
             /\ proveedores[tx[x].proveedor] # "BORRADO"
    <3> DEFINE r == [tx[x] EXCEPT !.paso = "escrito"]
    <3>1. r \in EscrituraDe /\ r.proveedor = tx[x].proveedor
      BY <2>1 DEF EscrituraDe
    <3>2. tx' = [tx EXCEPT ![x] = r]
      BY <2>4
    <3> HIDE DEF r
    <3> QED
      BY <2>2, <2>4, <3>1, <3>2, CatSigue DEF EnTramite, CatInv, CatTipo
  <2> QED
    BY <1>2, <2>3, <2>4 DEF Ca!Escribir, Ca!Seguir, Ca!Terminar
<1> QED
  BY <1>1, <1>2

\* ... and the commit: the supplier is there, because the write held its row.
LEMMA CatConfirmar ==
    ASSUME CatInv, NEW x \in Conexiones, Ca!Confirmar(x)
    PROVE  CatInv'
<1> DEFINE q == [categoria |-> tx[x].categoria, proveedor |-> tx[x].proveedor]
<1>1. /\ tx[x] \in EscrituraDe /\ x \in Ca!En("escrito")
      /\ tx' = [tx EXCEPT ![x] = Ninguno]
      /\ productos' = [productos EXCEPT ![tx[x].producto] = q]
      /\ categorias' = categorias /\ proveedores' = proveedores
  BY CatEn DEF Ca!Confirmar, Ca!Terminar, Ca!Seguir
<1>2. q \in Producto /\ q.proveedor = tx[x].proveedor
  BY <1>1 DEF EscrituraDe, Producto
<1>3. proveedores[q.proveedor] # "BORRADO"
  BY <1>1, <1>2 DEF CatInv, EscritosConProveedor
<1> HIDE DEF q
<1>4. productos' \in [Articulos -> {Ninguno} \cup Producto]
  BY <1>1, <1>2 DEF CatInv, CatTipo
<1>5. \A p \in Articulos : productos'[p] = q \/ productos'[p] = productos[p]
  BY <1>1 DEF CatInv, CatTipo
<1>6. \A p \in Articulos : productos'[p] # Ninguno =>
          proveedores[productos'[p].proveedor] # "BORRADO"
  BY <1>3, <1>5 DEF CatInv, HistorialConProveedor, Ca!HistorialConProveedor, Ca!Guardados
<1> QED
  BY <1>1, <1>4, <1>6, CatTermina DEF CatInv, CatTipo, EscritosConProveedor

\* Suppliers: activo, and the reads of a deletion and of a merge.
LEMMA CatLecturas ==
    ASSUME CatInv, NEW x \in Conexiones,
           \/ \E v \in Proveedores : Ca!ContarReferencias(x, v)
           \/ \E v, w \in Proveedores : Ca!LeerFusion(x, v, w)
    PROVE  CatInv'
<1>1. /\ categorias' = categorias /\ productos' = productos /\ proveedores' = proveedores
      /\ \E r \in CuentaLeida \cup FusionLeida : tx' = [tx EXCEPT ![x] = r]
  BY DEF Ca!ContarReferencias, Ca!LeerFusion, Ca!Seguir, CuentaLeida, FusionLeida
<1>2. PICK r \in CuentaLeida \cup FusionLeida : tx' = [tx EXCEPT ![x] = r]
  BY <1>1
<1>3. r \in EnTramite /\ r.paso # "escrito"
  BY DEF EnTramite, CuentaLeida, FusionLeida
<1> QED
  BY <1>1, <1>2, <1>3, CatSigue DEF CatInv, CatTipo

LEMMA CatActivar ==
    ASSUME CatInv, NEW v \in Proveedores, NEW e \in {"ACTIVO", "INACTIVO"}, Ca!Activar(v, e)
    PROVE  CatInv'
<1>1. /\ categorias' = categorias /\ productos' = productos /\ tx' = tx
      /\ proveedores' \in [Proveedores -> Estados]
  BY DEF Ca!Activar, CatInv, CatTipo, Estados
<1>2. \A w \in Proveedores : proveedores[w] # "BORRADO" => proveedores'[w] # "BORRADO"
  BY DEF Ca!Activar, CatInv, CatTipo
<1>3. CatTipo'
  BY <1>1 DEF CatInv, CatTipo
<1>4. EscritosConProveedor'
  <2>1. \A x \in Ca!En("escrito") : tx[x].proveedor \in Proveedores
    BY CatEn DEF Ca!En, EscrituraDe
  <2> QED
    BY <1>1, <1>2, <2>1 DEF CatInv, EscritosConProveedor, Ca!En
<1>5. HistorialConProveedor'
  <2>1. \A p \in Ca!Guardados : productos[p].proveedor \in Proveedores
    BY DEF CatInv, CatTipo, Ca!Guardados, Producto
  <2> QED
    BY <1>1, <1>2, <2>1 DEF CatInv, HistorialConProveedor, Ca!HistorialConProveedor, Ca!Guardados
<1> QED
  BY <1>3, <1>4, <1>5 DEF CatInv

\* The deletion: no write holds the row, and no product has it.
LEMMA CatEliminar ==
    ASSUME CatInv, NEW x \in Conexiones, Ca!Eliminar(x)
    PROVE  CatInv'
<1> DEFINE v == tx[x].id
<1>1. /\ v \in Proveedores /\ tx' = [tx EXCEPT ![x] = Ninguno]
      /\ categorias' = categorias /\ productos' = productos
      /\ \A y \in Ca!En("escrito") : tx[y].proveedor # v
      /\ proveedores' = proveedores
         \/ (Ca!DeProveedor(v) = {} /\ proveedores' = [proveedores EXCEPT ![v] = "BORRADO"])
  BY CatEn DEF Ca!Eliminar, Ca!Terminar, Ca!Seguir, CuentaLeida
<1> HIDE DEF v
<1>2. proveedores' \in [Proveedores -> Estados]
  BY <1>1 DEF CatInv, CatTipo, Estados
<1>3. \A w \in Proveedores : w # v => proveedores'[w] = proveedores[w]
  BY <1>1 DEF CatInv, CatTipo
<1>4. \A y \in Ca!En("escrito") : tx[y].proveedor \in Proveedores
  BY CatEn DEF Ca!En, EscrituraDe
<1>5. \A y \in Ca!En("escrito") : proveedores'[tx[y].proveedor] # "BORRADO"
  BY <1>1, <1>3, <1>4 DEF CatInv, EscritosConProveedor
<1>6. ASSUME NEW p \in Articulos, productos[p] # Ninguno
      PROVE  proveedores'[productos[p].proveedor] # "BORRADO"
  <2>1. productos[p].proveedor \in Proveedores /\ p \in Ca!Guardados
    BY <1>6 DEF CatInv, CatTipo, Ca!Guardados, Producto
  <2>2. proveedores[productos[p].proveedor] # "BORRADO"
    BY <2>1 DEF CatInv, HistorialConProveedor, Ca!HistorialConProveedor
  <2> QED
    BY <1>1, <1>3, <2>1, <2>2 DEF Ca!DeProveedor
<1> QED
  BY <1>1, <1>2, <1>5, <1>6, CatTermina DEF CatInv, CatTipo

\* The merge: products go to a supplier that is there.
LEMMA CatFusionar ==
    ASSUME CatInv, NEW x \in Conexiones, Ca!Fusionar(x)
    PROVE  CatInv'
<1> DEFINE v == tx[x].id
           w == tx[x].destino
           P == Ca!DeProveedor(v)
<1>1. /\ v \in Proveedores /\ w \in Proveedores /\ tx' = [tx EXCEPT ![x] = Ninguno]
      /\ categorias' = categorias
  BY CatEn DEF Ca!Fusionar, Ca!Terminar, Ca!Seguir, FusionLeida
<1>2. CASE productos' = productos /\ proveedores' = proveedores
  BY <1>1, <1>2, CatTermina DEF CatInv, CatTipo, EscritosConProveedor, HistorialConProveedor,
     Ca!HistorialConProveedor, Ca!Guardados
<1>3. CASE /\ P = {} \/ proveedores[w] # "BORRADO"
           /\ productos' = [p \in Articulos |->
                  IF p \in P THEN [productos[p] EXCEPT !.proveedor = w] ELSE productos[p]]
           /\ proveedores' = [proveedores EXCEPT ![v] = IF @ = "BORRADO" THEN @ ELSE "INACTIVO"]
  <2>1. \A p \in P : productos[p] \in Producto
    BY DEF CatInv, CatTipo, Ca!DeProveedor, Ca!Guardados
  <2>2. \A q \in Producto : LET r == [q EXCEPT !.proveedor = w]
                            IN  r \in Producto /\ r.proveedor = w
    BY <1>1 DEF Producto
  <2> HIDE DEF v, w, P
  <2>3. proveedores' \in [Proveedores -> Estados]
    BY <1>1, <1>3 DEF CatInv, CatTipo, Estados
  <2>4. \A u \in Proveedores : proveedores[u] # "BORRADO" => proveedores'[u] # "BORRADO"
    BY <1>1, <1>3 DEF CatInv, CatTipo
  <2>5. \A y \in Ca!En("escrito") : proveedores'[tx[y].proveedor] # "BORRADO"
    <3>1. \A y \in Ca!En("escrito") : tx[y].proveedor \in Proveedores
      BY CatEn DEF Ca!En, EscrituraDe
    <3> QED
      BY <2>4, <3>1 DEF CatInv, EscritosConProveedor
  <2>6. ASSUME NEW p \in Articulos
        PROVE  /\ productos'[p] \in {Ninguno} \cup Producto
               /\ productos'[p] # Ninguno => proveedores'[productos'[p].proveedor] # "BORRADO"
    <3>1. CASE p \in P
      BY <1>1, <1>3, <2>1, <2>2, <2>4, <3>1
    <3>2. CASE p \notin P
      <4>1. productos'[p] = productos[p]
        BY <1>3, <3>2
      <4>2. productos[p] # Ninguno => productos[p].proveedor \in Proveedores /\ p \in Ca!Guardados
        BY DEF CatInv, CatTipo, Producto, Ca!Guardados
      <4> QED
        BY <2>4, <4>1, <4>2 DEF CatInv, CatTipo, HistorialConProveedor, Ca!HistorialConProveedor
    <3> QED
      BY <3>1, <3>2
  <2>7. productos' \in [Articulos -> {Ninguno} \cup Producto]
    BY <1>3, <2>6
  <2> QED
    BY <1>1, <2>3, <2>5, <2>6, <2>7, CatTermina DEF CatInv, CatTipo
<1> QED
  BY <1>2, <1>3 DEF Ca!Fusionar

\* Every step of the catalogues keeps their invariant.
LEMMA CatPaso == CatInv /\ [Ca!Next]_deCatalogo => CatInv'
<1> SUFFICES ASSUME CatInv, [Ca!Next]_deCatalogo PROVE CatInv'
  OBVIOUS
<1>1. CASE UNCHANGED deCatalogo
  BY <1>1 DEF deCatalogo, CatInv, CatTipo, EscritosConProveedor, HistorialConProveedor,
     Ca!HistorialConProveedor, Ca!Guardados, Ca!En
<1>2. CASE Ca!Next
  BY <1>2, CatCategorias, CatBaja, CatReasignar, CatProducto, CatConfirmar, CatLecturas,
     CatActivar, CatEliminar, CatFusionar DEF Ca!Next
<1> QED
  BY <1>1, <1>2

-----------------------------------------------------------------------------
(* Finanzas                                                                *)

Renglon == [estado : {"NADA", "VIVO", "ANULADO"}, monto : Int]

FinTipo ==
    /\ registros \in [Registros -> Renglon]
    /\ edicion \subseteq [fila : Registros, a : Int]
    /\ cuentas \in [Cuentas -> {"ABIERTA", "PAGADA", "CORTADA", "ANULADA"}]
    /\ corte \in Int
    /\ pedido \in BOOLEAN
    /\ DOMAIN resumen \subseteq Fi!Consultas
    /\ \A q \in DOMAIN resumen : resumen[q] \in Int
    /\ movido \in Int

\* The sums the queries answer with.
SumaFilas(t) == SumaDe(Fi!Montado, Fi!Vivos(t))
Pagado   == SumaDe(Importe, Fi!En({"PAGADA"}))
Cortado  == SumaDe(Importe, Fi!En({"CORTADA"}))
Esperado == SumaDe(Importe, Fi!En({"PAGADA", "CORTADA"}))

\* How far the answer of a query that has run is from what it would answer now.
Falta(q) == IF q \in DOMAIN resumen THEN resumen[q] - Fi!Respuesta(q) ELSE 0

\* The income of the cuts is what their accounts still amount to; the answers
\* of a summary under way, in each of the combinations that are compared, are
\* off by no more than what moved.  An answer that is not there yet will be
\* right when it comes.
CorteCuadra == corte = Cortado
SinPedido == ~pedido => DOMAIN resumen = {} /\ movido = 0
DesvioDelFlujo == Fi!Abs(Falta("ingresos") - Falta("compras") - Falta("gastos")) <= movido
DesvioDeVentas == Fi!Abs(Falta("ingresos") + Falta("posSinCorte")) <= movido
DesvioDelCorte ==
    Fi!Abs(Falta("ingresos") + Falta("posSinCorte") - Falta("posEsperado")) <= movido

FinInv == FinTipo /\ CorteCuadra /\ SinPedido /\ DesvioDelFlujo /\ DesvioDeVentas /\ DesvioDelCorte

-----------------------------------------------------------------------------
(* The sums.                                                               *)

LEMMA SumaDeFin == \A f, S : Fi!SumaDe(f, S) = SumaDe(f, S)
BY DEF Fi!SumaDe, Fi!FoldFunctionOnSet, Fi!MapThenFoldSet, SumaDe, FoldFunctionOnSet, MapThenFoldSet

LEMMA FinFinitos ==
    /\ \A t : IsFiniteSet(Fi!Vivos(t)) /\ Fi!Vivos(t) \subseteq Registros
    /\ \A S : IsFiniteSet(Fi!En(S)) /\ Fi!En(S) \subseteq Cuentas
<1>1. \A t : Fi!Vivos(t) \subseteq Registros
  BY DEF Fi!Vivos
<1>2. \A S : Fi!En(S) \subseteq Cuentas
  BY DEF Fi!En
<1> QED
  BY <1>1, <1>2, FinanzasAssumption, FS_Subset

\* What each query answers.
LEMMA FinRespuestas ==
    /\ Fi!Respuesta("ingresos") = SumaFilas("INGRESO") + corte
    /\ Fi!Respuesta("gastos") = SumaFilas("GASTO")
    /\ Fi!Respuesta("compras") = SumaFilas("COMPRA")
    /\ Fi!Respuesta("posSinCorte") = Pagado
    /\ Fi!Respuesta("posEsperado") = Esperado
BY SumaDeFin DEF Fi!Respuesta, Fi!Ingresos, Fi!Gastos, Fi!Compras, Fi!SinCorte, SumaFilas, Pagado, Esperado

LEMMA FinEnteros ==
    ASSUME FinTipo
    PROVE  /\ \A t : SumaFilas(t) \in Int
           /\ Pagado \in Int /\ Cortado \in Int
           /\ Esperado = Pagado + Cortado
<1>1. ASSUME NEW t PROVE SumaFilas(t) \in Int
  <2>1. \A r \in Fi!Vivos(t) : Fi!Montado[r] \in Int
    BY DEF FinTipo, Renglon, Fi!Vivos, Fi!Montado
  <2> QED
    BY <2>1, FinFinitos, SumaEntera DEF SumaFilas
<1>2. \A S : \A c \in Fi!En(S) : Importe[c] \in Int
  BY FinanzasAssumption DEF Fi!En
<1>3. Pagado \in Int /\ Cortado \in Int
  BY <1>2, FinFinitos, SumaEntera DEF Pagado, Cortado
<1>4. Esperado = Pagado + Cortado
  <2>1. Fi!En({"PAGADA", "CORTADA"}) = Fi!En({"PAGADA"}) \cup Fi!En({"CORTADA"})
        /\ Fi!En({"PAGADA"}) \cap Fi!En({"CORTADA"}) = {}
    BY DEF Fi!En
  <2>2. \A c \in Fi!En({"PAGADA"}) \cup Fi!En({"CORTADA"}) : Importe[c] \in Int
    BY <1>2
  <2> QED
    BY <2>1, <2>2, FinFinitos, SumaUnion DEF Esperado, Pagado, Cortado
<1> QED
  BY <1>1, <1>3, <1>4

LEMMA FinEnterosDespues ==
    ASSUME FinTipo'
    PROVE  /\ \A t : SumaFilas(t)' \in Int
           /\ Pagado' \in Int /\ Cortado' \in Int
           /\ Esperado' = Pagado' + Cortado'
<1>1. ASSUME NEW t PROVE SumaFilas(t)' \in Int
  <2>1. \A r \in Fi!Vivos(t)' : Fi!Montado'[r] \in Int
    BY DEF FinTipo, Renglon, Fi!Vivos, Fi!Montado
  <2>2. Fi!Vivos(t)' \subseteq Registros
    BY DEF Fi!Vivos
  <2>3. IsFiniteSet(Fi!Vivos(t)')
    BY <2>2, FinanzasAssumption, FS_Subset
  <2> QED
    BY <2>1, <2>3, SumaEntera DEF SumaFilas
<1>2. (FinTipo => /\ Pagado \in Int /\ Cortado \in Int
                  /\ Esperado = Pagado + Cortado)'
  BY FinEnteros, PTL
<1> QED
  BY <1>1, <1>2

\* What a row adds to the books.
Aporte(f) == IF f.estado = "VIVO" THEN f.monto ELSE 0

\* A row that changes moves the sum of its kind, and no other.
LEMMA FinFila ==
    ASSUME FinTipo, NEW r \in Registros, NEW f \in Renglon,
           registros' = [registros EXCEPT ![r] = f], NEW t
    PROVE  SumaFilas(t)' = SumaFilas(t) + (IF TipoDe[r] = t THEN Aporte(f) - Aporte(registros[r]) ELSE 0)
<1> DEFINE S == Fi!Vivos(t)
           T == Fi!Vivos(t)'
           g == Fi!Montado
           h == Fi!Montado'
<1>1. \A q \in Registros : registros'[q] = IF q = r THEN f ELSE registros[q]
  BY DEF FinTipo
<1>2. \A q \in Registros : g[q] = registros[q].monto /\ h[q] = registros'[q].monto
                           /\ registros[q] \in Renglon
  BY DEF Fi!Montado, FinTipo
<1>3. \A q \in Registros : g[q] \in Int /\ h[q] \in Int
  BY <1>1, <1>2 DEF Renglon
<1>4. S \ {r} = T \ {r} /\ S \subseteq Registros /\ T \subseteq Registros
  BY <1>1 DEF Fi!Vivos
<1>5. \A q \in S \ {r} : h[q] = g[q]
  BY <1>1, <1>2, <1>4
<1>6. IsFiniteSet(S) /\ IsFiniteSet(T)
  BY <1>4, FinanzasAssumption, FS_Subset
<1>7. SumaDe(h, T) = SumaDe(g, S) + (IF r \in T THEN h[r] ELSE 0) - (IF r \in S THEN g[r] ELSE 0)
  <2> HIDE DEF S, T, g, h
  <2>1. (\A y \in S : g[y] \in Int) /\ (\A y \in T : h[y] \in Int)
    BY <1>3, <1>4
  <2> QED
    BY <1>4, <1>5, <1>6, <2>1, SumaCambia
<1>8. /\ (IF r \in T THEN h[r] ELSE 0) = IF TipoDe[r] = t THEN Aporte(f) ELSE 0
      /\ (IF r \in S THEN g[r] ELSE 0) = IF TipoDe[r] = t THEN Aporte(registros[r]) ELSE 0
  BY <1>1, <1>2 DEF Aporte, Fi!Vivos
<1>9. SumaDe(g, S) \in Int /\ Aporte(f) \in Int /\ Aporte(registros[r]) \in Int
  <2>1. SumaDe(g, S) \in Int
    BY FinEnteros DEF SumaFilas
  <2>2. registros[r] \in Renglon
    BY <1>2
  <2> QED
    BY <2>1, <2>2 DEF Aporte, Renglon
<1> HIDE DEF S, T, g, h
<1>10. SumaDe(h, T) = SumaDe(g, S) + (IF TipoDe[r] = t THEN Aporte(f) ELSE 0)
                                   - (IF TipoDe[r] = t THEN Aporte(registros[r]) ELSE 0)
  BY <1>7, <1>8
<1>11. SumaDe(h, T) = SumaDe(g, S) + (IF TipoDe[r] = t THEN Aporte(f) - Aporte(registros[r]) ELSE 0)
  BY <1>9, <1>10
<1> QED
  BY <1>11 DEF SumaFilas, S, T, g, h

\* An account that changes moves the sums of its states.
LEMMA FinCuenta ==
    ASSUME FinTipo, NEW c \in Cuentas, NEW e, cuentas' = [cuentas EXCEPT ![c] = e], NEW s
    PROVE  SumaDe(Importe, Fi!En({s})') = SumaDe(Importe, Fi!En({s}))
             + (IF e = s THEN Importe[c] ELSE 0) - (IF cuentas[c] = s THEN Importe[c] ELSE 0)
<1> DEFINE S == Fi!En({s})
           T == Fi!En({s})'
<1>1. \A q \in Cuentas : cuentas'[q] = IF q = c THEN e ELSE cuentas[q]
  BY DEF FinTipo
<1>2. S \ {c} = T \ {c} /\ S \subseteq Cuentas /\ T \subseteq Cuentas
  BY <1>1 DEF Fi!En
<1>3. (c \in T <=> e = s) /\ (c \in S <=> cuentas[c] = s)
  BY <1>1 DEF Fi!En
<1>4. IsFiniteSet(S) /\ IsFiniteSet(T)
  BY <1>2, FinanzasAssumption, FS_Subset
<1> HIDE DEF S, T
<1>5. (\A y \in S : Importe[y] \in Int) /\ (\A y \in T : Importe[y] \in Int)
  BY <1>2, FinanzasAssumption
<1>6. SumaDe(Importe, T) = SumaDe(Importe, S) + (IF c \in T THEN Importe[c] ELSE 0)
                                              - (IF c \in S THEN Importe[c] ELSE 0)
  BY <1>2, <1>4, <1>5, SumaCambia
<1> QED
  BY <1>3, <1>6 DEF S, T

-----------------------------------------------------------------------------
(* What a write does to the answers.                                       *)

LEMMA FinAbs ==
    /\ \A a \in Int : Fi!Abs(a) \in Int /\ Fi!Abs(a) >= 0 /\ Fi!Abs(-a) = Fi!Abs(a)
    /\ \A a, b \in Int : Fi!Abs(a + b) <= Fi!Abs(a) + Fi!Abs(b)
BY DEF Fi!Abs

LEMMA FinMovido ==
    ASSUME FinTipo, NEW n \in Int, Fi!Mueve(n)
    PROVE  movido' \in Int
<1>1. movido' \in {movido + Fi!Abs(n), 0}
  BY DEF Fi!Mueve
<1>2. Fi!Abs(n) \in Int /\ movido \in Int
  BY FinAbs DEF FinTipo
<1> QED
  BY <1>1, <1>2

\* The answers that are there keep what they said; what they ought to say moves.
LEMMA FinFalta ==
    ASSUME FinTipo, resumen' = resumen, NEW q \in Fi!Consultas, NEW n \in Int,
           Fi!Respuesta(q) \in Int, Fi!Respuesta(q)' = Fi!Respuesta(q) + n
    PROVE  /\ Falta(q) \in Int
           /\ Falta(q)' = Falta(q) - (IF q \in DOMAIN resumen THEN n ELSE 0)
<1>1. CASE q \in DOMAIN resumen
  <2>1. resumen[q] \in Int
    BY <1>1 DEF FinTipo
  <2>2. Falta(q) = resumen[q] - Fi!Respuesta(q) /\ Falta(q)' = resumen[q] - Fi!Respuesta(q)'
    BY <1>1 DEF Falta
  <2> QED
    BY <1>1, <2>1, <2>2
<1>2. CASE q \notin DOMAIN resumen
  BY <1>2 DEF Falta
<1> QED
  BY <1>1, <1>2

\* A write that moves n is followed by answers that are off by n more at most,
\* if the five sums move together in one of the ways in which writes move them:
\* one kind of rows by n; a cut, from what is not cut to the income; or an
\* account, in what the POS expects and in one of the other two.
LEMMA FinMueve ==
    ASSUME FinInv, FinTipo', CorteCuadra', NEW n \in Int, Fi!Mueve(n),
           NEW di \in Int, NEW dg \in Int, NEW dc \in Int, NEW dp \in Int, NEW de \in Int,
           Fi!Respuesta("ingresos")' = Fi!Respuesta("ingresos") + di,
           Fi!Respuesta("gastos")' = Fi!Respuesta("gastos") + dg,
           Fi!Respuesta("compras")' = Fi!Respuesta("compras") + dc,
           Fi!Respuesta("posSinCorte")' = Fi!Respuesta("posSinCorte") + dp,
           Fi!Respuesta("posEsperado")' = Fi!Respuesta("posEsperado") + de,
           NEW s \in Int, Fi!Abs(s) = Fi!Abs(n),
           \/ di = s /\ dg = 0 /\ dc = 0 /\ dp = 0 /\ de = 0
           \/ di = 0 /\ dg = s /\ dc = 0 /\ dp = 0 /\ de = 0
           \/ di = 0 /\ dg = 0 /\ dc = s /\ dp = 0 /\ de = 0
           \/ di = s /\ dg = 0 /\ dc = 0 /\ dp = -s /\ de = 0
           \/ di = s /\ dg = 0 /\ dc = 0 /\ dp = 0 /\ de = s
           \/ di = 0 /\ dg = 0 /\ dc = 0 /\ dp = s /\ de = s
    PROVE  FinInv'
<1>1. /\ resumen' = resumen /\ pedido' = pedido
      /\ movido' = IF pedido THEN movido + Fi!Abs(n) ELSE 0
  BY DEF Fi!Mueve
<1>2. /\ Fi!Respuesta("ingresos") \in Int /\ Fi!Respuesta("gastos") \in Int
      /\ Fi!Respuesta("compras") \in Int /\ Fi!Respuesta("posSinCorte") \in Int
      /\ Fi!Respuesta("posEsperado") \in Int
  BY FinRespuestas, FinEnteros DEF FinInv, FinTipo
<1> DEFINE a(q, k) == IF q \in DOMAIN resumen THEN k ELSE 0
<1>3. /\ Falta("ingresos") \in Int /\ Falta("ingresos")' = Falta("ingresos") - a("ingresos", di)
      /\ Falta("gastos") \in Int /\ Falta("gastos")' = Falta("gastos") - a("gastos", dg)
      /\ Falta("compras") \in Int /\ Falta("compras")' = Falta("compras") - a("compras", dc)
      /\ Falta("posSinCorte") \in Int
      /\ Falta("posSinCorte")' = Falta("posSinCorte") - a("posSinCorte", dp)
      /\ Falta("posEsperado") \in Int
      /\ Falta("posEsperado")' = Falta("posEsperado") - a("posEsperado", de)
  BY <1>1, <1>2, FinFalta DEF FinInv, Fi!Consultas
<1>4. SinPedido'
  BY <1>1 DEF FinInv, SinPedido
<1> DEFINE f == a("ingresos", di) - a("compras", dc) - a("gastos", dg)
           v == a("ingresos", di) + a("posSinCorte", dp)
           e == a("ingresos", di) + a("posSinCorte", dp) - a("posEsperado", de)
<1>5. f \in {0, s, -s} /\ v \in {0, s, -s} /\ e \in {0, s, -s}
  OBVIOUS
<1>6. ASSUME NEW x \in Int, NEW y \in {0, s, -s}, Fi!Abs(x) <= movido, pedido
      PROVE  Fi!Abs(x - y) <= movido'
  <2>1. Fi!Abs(y) <= Fi!Abs(s) /\ y \in Int
    BY <1>6 DEF Fi!Abs
  <2>2. Fi!Abs(x + (-y)) <= Fi!Abs(x) + Fi!Abs(-y) /\ Fi!Abs(-y) = Fi!Abs(y)
    BY <2>1, FinAbs
  <2>3. movido' = movido + Fi!Abs(n) /\ movido \in Int
    BY <1>1, <1>6 DEF FinInv, FinTipo
  <2>4. Fi!Abs(x - y) = Fi!Abs(x + (-y))
    BY <2>1 DEF Fi!Abs
  <2>5. /\ Fi!Abs(x) \in Int /\ Fi!Abs(y) \in Int /\ Fi!Abs(s) \in Int /\ -y \in Int
        /\ Fi!Abs(x + (-y)) \in Int
    <3>1. -y \in Int /\ x + (-y) \in Int
      BY <2>1
    <3> QED
      BY <2>1, <3>1, FinAbs
  <2> QED
    BY <1>6, <2>1, <2>2, <2>3, <2>4, <2>5
<1>7. CASE pedido
  <2>1. DesvioDelFlujo'
    <3>1. Fi!Abs(Falta("ingresos") - Falta("compras") - Falta("gastos")) <= movido
      BY DEF FinInv, DesvioDelFlujo
    <3>2. Falta("ingresos")' - Falta("compras")' - Falta("gastos")'
            = (Falta("ingresos") - Falta("compras") - Falta("gastos")) - f
      BY <1>3
    <3> HIDE DEF f, a
    <3>3. Fi!Abs((Falta("ingresos") - Falta("compras") - Falta("gastos")) - f) <= movido'
      BY <1>3, <1>5, <1>6, <1>7, <3>1
    <3> QED
      BY <3>2, <3>3 DEF DesvioDelFlujo, Fi!Abs
  <2>2. DesvioDeVentas'
    <3>1. Fi!Abs(Falta("ingresos") + Falta("posSinCorte")) <= movido
      BY DEF FinInv, DesvioDeVentas
    <3>2. Falta("ingresos")' + Falta("posSinCorte")' = (Falta("ingresos") + Falta("posSinCorte")) - v
      BY <1>3
    <3> HIDE DEF v, a
    <3>3. Fi!Abs((Falta("ingresos") + Falta("posSinCorte")) - v) <= movido'
      BY <1>3, <1>5, <1>6, <1>7, <3>1
    <3> QED
      BY <3>2, <3>3 DEF DesvioDeVentas, Fi!Abs
  <2>3. DesvioDelCorte'
    <3>1. Fi!Abs(Falta("ingresos") + Falta("posSinCorte") - Falta("posEsperado")) <= movido
      BY DEF FinInv, DesvioDelCorte
    <3>2. Falta("ingresos")' + Falta("posSinCorte")' - Falta("posEsperado")'
            = (Falta("ingresos") + Falta("posSinCorte") - Falta("posEsperado")) - e
      BY <1>3
    <3> HIDE DEF e, a
    <3>3. Fi!Abs((Falta("ingresos") + Falta("posSinCorte") - Falta("posEsperado")) - e) <= movido'
      BY <1>3, <1>5, <1>6, <1>7, <3>1
    <3> QED
      BY <3>2, <3>3 DEF DesvioDelCorte, Fi!Abs
  <2> QED
    BY <1>4, <2>1, <2>2, <2>3 DEF FinInv
<1>8. CASE ~pedido
  <2>1. DOMAIN resumen' = {} /\ movido' = 0
    BY <1>1, <1>8 DEF FinInv, SinPedido
  <2>2. \A q : Falta(q)' = 0
    BY <2>1 DEF Falta
  <2> QED
    BY <1>4, <2>1, <2>2 DEF FinInv, DesvioDelFlujo, DesvioDeVentas, DesvioDelCorte, Fi!Abs
<1> QED
  BY <1>7, <1>8

-----------------------------------------------------------------------------
(* The operations.                                                         *)

\* A write of a row of a kind that moves what the row adds.
LEMMA FinEscribeFila ==
    ASSUME FinInv, NEW r \in Registros, NEW f \in Renglon, NEW n \in Int,
           registros' = [registros EXCEPT ![r] = f], Fi!Mueve(n),
           edicion' \subseteq [fila : Registros, a : Int], UNCHANGED <<cuentas, corte>>,
           Fi!Abs(Aporte(f) - Aporte(registros[r])) = Fi!Abs(n)
    PROVE  FinInv'
<1> DEFINE s == Aporte(f) - Aporte(registros[r])
           x(t) == IF TipoDe[r] = t THEN s ELSE 0
<1>1. s \in Int
  <2>1. registros[r] \in Renglon
    BY DEF FinInv, FinTipo
  <2> QED
    BY <2>1 DEF Aporte, Renglon
<1>2. FinTipo'
  <2>1. registros' \in [Registros -> Renglon]
    BY DEF FinInv, FinTipo
  <2> QED
    BY <2>1, FinMovido DEF FinInv, FinTipo, Fi!Mueve
<1>3. Pagado' = Pagado /\ Cortado' = Cortado /\ Esperado' = Esperado
  BY DEF Pagado, Cortado, Esperado, Fi!En
<1>4. CorteCuadra'
  BY <1>3 DEF FinInv, CorteCuadra
<1>5. \A t : SumaFilas(t)' = SumaFilas(t) + x(t)
  BY FinFila DEF FinInv
<1>6. (Fi!Respuesta("ingresos") = SumaFilas("INGRESO") + corte)'
      /\ (Fi!Respuesta("gastos") = SumaFilas("GASTO"))'
      /\ (Fi!Respuesta("compras") = SumaFilas("COMPRA"))'
      /\ (Fi!Respuesta("posSinCorte") = Pagado)'
      /\ (Fi!Respuesta("posEsperado") = Esperado)'
  BY FinRespuestas, PTL
<1>7. corte \in Int /\ Pagado \in Int /\ Esperado \in Int /\ \A t : SumaFilas(t) \in Int
  BY FinEnteros DEF FinInv, FinTipo
<1>8. TipoDe[r] \in {"INGRESO", "GASTO", "COMPRA"}
  BY FinanzasAssumption
<1> HIDE DEF s
<1>9. /\ Fi!Respuesta("ingresos")' = Fi!Respuesta("ingresos") + x("INGRESO")
      /\ Fi!Respuesta("gastos")' = Fi!Respuesta("gastos") + x("GASTO")
      /\ Fi!Respuesta("compras")' = Fi!Respuesta("compras") + x("COMPRA")
      /\ Fi!Respuesta("posSinCorte")' = Fi!Respuesta("posSinCorte") + 0
      /\ Fi!Respuesta("posEsperado")' = Fi!Respuesta("posEsperado") + 0
  BY <1>1, <1>3, <1>5, <1>6, <1>7, FinRespuestas
<1>10. Fi!Abs(s) = Fi!Abs(n)
  BY DEF s
<1>11. /\ x("INGRESO") \in Int /\ x("GASTO") \in Int /\ x("COMPRA") \in Int
       /\ \/ x("INGRESO") = s /\ x("GASTO") = 0 /\ x("COMPRA") = 0
          \/ x("INGRESO") = 0 /\ x("GASTO") = s /\ x("COMPRA") = 0
          \/ x("INGRESO") = 0 /\ x("GASTO") = 0 /\ x("COMPRA") = s
  BY <1>1, <1>8
<1> HIDE DEF x
<1> QED
  BY <1>1, <1>2, <1>4, <1>9, <1>10, <1>11, FinMueve

\* The same books answer the same.
LEMMA FinMismas == UNCHANGED <<registros, cuentas, corte>> => \A q : Fi!Respuesta(q)' = Fi!Respuesta(q)
BY DEF Fi!Respuesta, Fi!Ingresos, Fi!Gastos, Fi!Compras, Fi!SinCorte, Fi!Montado, Fi!Vivos, Fi!En

\* Nothing but the changes under way.
LEMMA FinIgual ==
    ASSUME FinInv, edicion' \subseteq [fila : Registros, a : Int],
           UNCHANGED <<registros, cuentas, corte, pedido, resumen, movido>>
    PROVE  FinInv'
<1>1. FinTipo' /\ SinPedido'
  BY DEF FinInv, FinTipo, SinPedido
<1>2. \A q : Falta(q)' = Falta(q)
  BY FinMismas DEF Falta
<1>3. Cortado' = Cortado
  BY DEF Cortado, Fi!En
<1> QED
  BY <1>1, <1>2, <1>3
     DEF FinInv, CorteCuadra, DesvioDelFlujo, DesvioDeVentas, DesvioDelCorte, Fi!Abs

LEMMA FinCrear ==
    ASSUME FinInv, NEW r \in Registros, NEW n \in Montos, Fi!Crear(r, n)
    PROVE  FinInv'
<1> DEFINE f == [estado |-> "VIVO", monto |-> n]
<1>1. n \in Int
  BY FinanzasAssumption
<1>2. f \in Renglon /\ Aporte(f) = n /\ Aporte(registros[r]) = 0
  BY <1>1 DEF Renglon, Aporte, Fi!Crear
<1>3. registros' = [registros EXCEPT ![r] = f] /\ Fi!Mueve(n)
  BY DEF Fi!Crear
<1>4. edicion' \subseteq [fila : Registros, a : Int] /\ UNCHANGED <<cuentas, corte>>
  BY DEF Fi!Crear, FinInv, FinTipo
<1> HIDE DEF f
<1>5. Aporte(f) - Aporte(registros[r]) = n
  BY <1>1, <1>2
<1> QED
  BY <1>1, <1>2, <1>3, <1>4, <1>5, FinEscribeFila

LEMMA FinValidar ==
    ASSUME FinInv, NEW r \in Registros, NEW a \in Montos \cup {Fi!ANULAR}, Fi!Validar(r, a)
    PROVE  FinInv'
<1>1. a \in Int
  BY FinanzasAssumption DEF Fi!ANULAR
<1>2. edicion' \subseteq [fila : Registros, a : Int]
  BY <1>1 DEF Fi!Validar, FinInv, FinTipo
<1>3. UNCHANGED <<registros, cuentas, corte, pedido, resumen, movido>>
  BY DEF Fi!Validar
<1> QED
  BY <1>2, <1>3, FinIgual

\* The changes of a row, whatever became of it since it was checked.
LEMMA FinCambiar ==
    ASSUME FinInv, NEW x \in edicion, Fi!Actualizar(x) \/ Fi!Anular(x)
    PROVE  FinInv'
<1> DEFINE r == x.fila
           f == IF Fi!Actualizar(x) THEN [registros[r] EXCEPT !.monto = x.a]
                                    ELSE [registros[r] EXCEPT !.estado = "ANULADO"]
           n == IF registros[r].estado # "VIVO" THEN 0
                ELSE IF Fi!Actualizar(x) THEN x.a - registros[r].monto ELSE registros[r].monto
<1>1. r \in Registros /\ x.a \in Int /\ registros[r] \in Renglon
      /\ registros \in [Registros -> Renglon]
  BY DEF FinInv, FinTipo
<1>2. registros' = [registros EXCEPT ![r] = f]
  BY <1>1 DEF Fi!Actualizar, Fi!Anular
<1>3. n \in Int /\ Fi!Mueve(n)
  BY <1>1 DEF Fi!Actualizar, Fi!Anular, Renglon
<1>4. /\ f \in Renglon
      /\ Aporte(f) - Aporte(registros[r]) \in {n, -n}
  <2>1. CASE Fi!Actualizar(x)
    BY <1>1, <2>1 DEF Renglon, Aporte
  <2>2. CASE ~Fi!Actualizar(x)
    BY <1>1, <2>2 DEF Renglon, Aporte
  <2> QED
    BY <2>1, <2>2
<1>5. edicion' \subseteq [fila : Registros, a : Int] /\ UNCHANGED <<cuentas, corte>>
  BY DEF Fi!Actualizar, Fi!Anular, FinInv, FinTipo
<1> HIDE DEF r, f, n
<1>6. Fi!Abs(Aporte(f) - Aporte(registros[r])) = Fi!Abs(n)
  BY <1>3, <1>4, FinAbs
<1> QED
  BY <1>1, <1>2, <1>3, <1>4, <1>5, <1>6, FinEscribeFila

LEMMA FinAnularCompra ==
    ASSUME FinInv, NEW r \in Registros, Fi!AnularCompra(r)
    PROVE  FinInv'
<1> DEFINE f == [registros[r] EXCEPT !.estado = "ANULADO"]
           n == registros[r].monto
<1>1. registros[r] \in Renglon /\ registros \in [Registros -> Renglon]
      /\ registros[r].estado = "VIVO"
  BY DEF FinInv, FinTipo, Fi!AnularCompra
<1>2. registros' = [registros EXCEPT ![r] = f] /\ Fi!Mueve(n)
  BY <1>1 DEF Fi!AnularCompra
<1>3. f \in Renglon /\ n \in Int /\ Aporte(f) - Aporte(registros[r]) = -n
  BY <1>1 DEF Renglon, Aporte
<1>4. edicion' \subseteq [fila : Registros, a : Int] /\ UNCHANGED <<cuentas, corte>>
  BY DEF Fi!AnularCompra, FinInv, FinTipo
<1> HIDE DEF f, n
<1>5. Fi!Abs(Aporte(f) - Aporte(registros[r])) = Fi!Abs(n)
  BY <1>3, FinAbs
<1> QED
  BY <1>2, <1>3, <1>4, <1>5, FinEscribeFila

\* An account whose state changes, with what the cuts have of it.
LEMMA FinEscribeCuenta ==
    ASSUME FinInv, NEW c \in Cuentas, NEW e \in {"PAGADA", "ANULADA"},
           cuentas' = [cuentas EXCEPT ![c] = e], Fi!Mueve(Importe[c]),
           IF e = "PAGADA" THEN cuentas[c] = "ABIERTA" ELSE cuentas[c] \in {"PAGADA", "CORTADA"},
           corte' = IF cuentas[c] = "CORTADA" THEN corte - Importe[c] ELSE corte,
           UNCHANGED <<registros, edicion>>
    PROVE  FinInv'
<1> DEFINE m == Importe[c]
           p == (IF e = "PAGADA" THEN m ELSE 0) - (IF cuentas[c] = "PAGADA" THEN m ELSE 0)
           k == IF cuentas[c] = "CORTADA" THEN -m ELSE 0
           s == IF e = "PAGADA" THEN m ELSE -m
<1>1. m \in Int
  BY FinanzasAssumption
<1>2. corte \in Int /\ Pagado \in Int /\ Cortado \in Int /\ Esperado = Pagado + Cortado
      /\ corte = Cortado /\ \A t : SumaFilas(t) \in Int
  BY FinEnteros DEF FinInv, FinTipo, CorteCuadra
<1>3. FinTipo'
  <2>1. cuentas' \in [Cuentas -> {"ABIERTA", "PAGADA", "CORTADA", "ANULADA"}]
    BY DEF FinInv, FinTipo
  <2>2. corte' \in Int
    BY <1>1, <1>2
  <2> QED
    BY <1>1, <2>1, <2>2, FinMovido DEF FinInv, FinTipo, Fi!Mueve
<1>4. Pagado' = Pagado + p /\ Cortado' = Cortado + k
  <2>1. Pagado' = Pagado + (IF e = "PAGADA" THEN m ELSE 0) - (IF cuentas[c] = "PAGADA" THEN m ELSE 0)
    BY FinCuenta DEF FinInv, Pagado
  <2>2. Cortado' = Cortado + (IF e = "CORTADA" THEN m ELSE 0)
                           - (IF cuentas[c] = "CORTADA" THEN m ELSE 0)
    BY FinCuenta DEF FinInv, Cortado
  <2> QED
    BY <1>1, <1>2, <2>1, <2>2
<1>5. Esperado' = Pagado' + Cortado'
  BY <1>3, FinEnterosDespues
<1>6. corte' = Cortado' /\ corte' = corte + k
  BY <1>1, <1>2, <1>4
<1>7. CorteCuadra'
  BY <1>6 DEF CorteCuadra
<1>8. \A t : SumaFilas(t)' = SumaFilas(t)
  BY DEF SumaFilas, Fi!Montado, Fi!Vivos
<1>9. (Fi!Respuesta("ingresos") = SumaFilas("INGRESO") + corte)'
      /\ (Fi!Respuesta("gastos") = SumaFilas("GASTO"))'
      /\ (Fi!Respuesta("compras") = SumaFilas("COMPRA"))'
      /\ (Fi!Respuesta("posSinCorte") = Pagado)'
      /\ (Fi!Respuesta("posEsperado") = Esperado)'
  BY FinRespuestas, PTL
<1>10. /\ p \in Int /\ k \in Int /\ s \in Int /\ p + k \in Int
       /\ \/ k = s /\ p = 0 /\ p + k = s
          \/ k = 0 /\ p = s /\ p + k = s
  BY <1>1
<1> HIDE DEF p, k
<1>11. /\ Fi!Respuesta("ingresos")' = Fi!Respuesta("ingresos") + k
       /\ Fi!Respuesta("gastos")' = Fi!Respuesta("gastos") + 0
       /\ Fi!Respuesta("compras")' = Fi!Respuesta("compras") + 0
       /\ Fi!Respuesta("posSinCorte")' = Fi!Respuesta("posSinCorte") + p
       /\ Fi!Respuesta("posEsperado")' = Fi!Respuesta("posEsperado") + (p + k)
  BY <1>2, <1>4, <1>5, <1>6, <1>8, <1>9, <1>10, FinRespuestas
<1>12. Fi!Abs(s) = Fi!Abs(m)
  BY <1>1, FinAbs
<1> HIDE DEF s, m
<1>13. Fi!Mueve(m)
  BY DEF m
<1> QED
  BY <1>1, <1>3, <1>7, <1>10, <1>11, <1>12, <1>13, FinMueve

LEMMA FinCuentas ==
    ASSUME FinInv, NEW c \in Cuentas, Fi!Cobrar(c) \/ Fi!AnularCuenta(c)
    PROVE  FinInv'
<1>1. CASE Fi!Cobrar(c)
  <2>1. /\ cuentas' = [cuentas EXCEPT ![c] = "PAGADA"] /\ Fi!Mueve(Importe[c])
        /\ cuentas[c] = "ABIERTA" /\ corte' = corte /\ UNCHANGED <<registros, edicion>>
    BY <1>1 DEF Fi!Cobrar
  <2> QED
    BY <2>1, FinEscribeCuenta
<1>2. CASE Fi!AnularCuenta(c)
  <2>1. /\ cuentas' = [cuentas EXCEPT ![c] = "ANULADA"] /\ Fi!Mueve(Importe[c])
        /\ cuentas[c] \in {"PAGADA", "CORTADA"}
        /\ corte' = IF cuentas[c] = "CORTADA" THEN corte - Importe[c] ELSE corte
        /\ UNCHANGED <<registros, edicion>>
    BY <1>2 DEF Fi!AnularCuenta
  <2> QED
    BY <2>1, FinEscribeCuenta
<1> QED
  BY <1>1, <1>2

\* The cut: what was paid becomes income.
LEMMA FinCortar == FinInv /\ Fi!Cortar => FinInv'
<1> SUFFICES ASSUME FinInv, Fi!Cortar PROVE FinInv'
  OBVIOUS
<1> DEFINE m == Pagado
<1>1. corte \in Int /\ m \in Int /\ Cortado \in Int /\ Esperado = m + Cortado
      /\ corte = Cortado /\ \A t : SumaFilas(t) \in Int
  BY FinEnteros DEF FinInv, FinTipo, CorteCuadra
<1>2. /\ cuentas' = [c \in Cuentas |-> IF cuentas[c] = "PAGADA" THEN "CORTADA" ELSE cuentas[c]]
      /\ corte' = corte + m /\ Fi!Mueve(m) /\ UNCHANGED <<registros, edicion>>
  BY SumaDeFin DEF Fi!Cortar, Pagado
<1>3. FinTipo'
  <2>1. cuentas' \in [Cuentas -> {"ABIERTA", "PAGADA", "CORTADA", "ANULADA"}]
    BY <1>2 DEF FinInv, FinTipo
  <2>2. corte' \in Int
    BY <1>1, <1>2
  <2>3. movido' \in Int
    BY <1>1, <1>2, FinMovido DEF FinInv
  <2> QED
    BY <1>2, <2>1, <2>2, <2>3 DEF FinInv, FinTipo, Fi!Mueve
<1>4. Pagado' = 0
  <2>1. Fi!En({"PAGADA"})' = {}
    BY <1>2 DEF Fi!En
  <2> QED
    BY <2>1, SumaVacia DEF Pagado
<1>5. Cortado' = Esperado
  <2>1. Fi!En({"CORTADA"})' = Fi!En({"PAGADA", "CORTADA"})
    BY <1>2 DEF Fi!En
  <2> QED
    BY <2>1 DEF Cortado, Esperado
<1>6. Esperado' = Pagado' + Cortado'
  BY <1>3, FinEnterosDespues
<1>7. \A t : SumaFilas(t)' = SumaFilas(t)
  BY <1>2 DEF SumaFilas, Fi!Montado, Fi!Vivos
<1>8. (Fi!Respuesta("ingresos") = SumaFilas("INGRESO") + corte)'
      /\ (Fi!Respuesta("gastos") = SumaFilas("GASTO"))'
      /\ (Fi!Respuesta("compras") = SumaFilas("COMPRA"))'
      /\ (Fi!Respuesta("posSinCorte") = Pagado)'
      /\ (Fi!Respuesta("posEsperado") = Esperado)'
  BY FinRespuestas, PTL
<1>9. /\ Fi!Respuesta("ingresos")' = Fi!Respuesta("ingresos") + m
      /\ Fi!Respuesta("gastos")' = Fi!Respuesta("gastos") + 0
      /\ Fi!Respuesta("compras")' = Fi!Respuesta("compras") + 0
      /\ Fi!Respuesta("posSinCorte")' = Fi!Respuesta("posSinCorte") + (-m)
      /\ Fi!Respuesta("posEsperado")' = Fi!Respuesta("posEsperado") + 0
  BY <1>1, <1>2, <1>4, <1>5, <1>6, <1>7, <1>8, FinRespuestas
<1>10. CorteCuadra' /\ -m \in Int
  BY <1>1, <1>2, <1>5 DEF CorteCuadra
<1> HIDE DEF m
<1> QED
  BY <1>1, <1>2, <1>3, <1>9, <1>10, FinMueve

-----------------------------------------------------------------------------
(* The summary.                                                            *)

LEMMA FinPedir == FinInv /\ Fi!Pedir => FinInv'
<1> SUFFICES ASSUME FinInv, Fi!Pedir PROVE FinInv'
  OBVIOUS
<1>1. pedido' = TRUE /\ UNCHANGED <<registros, edicion, cuentas, corte, resumen, movido>>
  BY DEF Fi!Pedir, Fi!libro
<1>2. SinPedido'
  BY <1>1 DEF SinPedido
<1>3. FinTipo'
  BY <1>1 DEF FinInv, FinTipo
<1>4. \A q : Falta(q)' = Falta(q)
  BY <1>1, FinMismas DEF Falta
<1>5. Cortado' = Cortado
  BY <1>1 DEF Cortado, Fi!En
<1> QED
  BY <1>1, <1>2, <1>3, <1>4, <1>5
     DEF FinInv, CorteCuadra, DesvioDelFlujo, DesvioDeVentas, DesvioDelCorte, Fi!Abs

\* A query that runs is right when it runs.
LEMMA FinConsultar ==
    ASSUME FinInv, NEW c \in Fi!Consultas, Fi!Consultar(c)
    PROVE  FinInv'
<1>1. /\ c \notin DOMAIN resumen
      /\ resumen' = [z \in DOMAIN resumen \cup {c} |->
                        IF z = c THEN Fi!Respuesta(c) ELSE resumen[z]]
      /\ pedido' = pedido /\ pedido /\ UNCHANGED <<registros, edicion, cuentas, corte, movido>>
  BY DEF Fi!Consultar, Fi!libro
<1>2. Fi!Respuesta(c) \in Int
  BY FinRespuestas, FinEnteros DEF FinInv, FinTipo, Fi!Consultas
<1>3. FinTipo' /\ SinPedido'
  BY <1>1, <1>2 DEF FinInv, FinTipo, SinPedido
<1>4. \A q : Fi!Respuesta(q)' = Fi!Respuesta(q)
  BY <1>1, FinMismas
<1>5. ASSUME NEW q PROVE Falta(q)' = Falta(q)
  <2>1. CASE q = c
    <3>1. resumen'[c] = Fi!Respuesta(c) /\ c \in DOMAIN resumen'
      BY <1>1
    <3>2. Falta(c)' = Fi!Respuesta(c) - Fi!Respuesta(c) /\ Falta(c) = 0
      BY <1>1, <1>4, <3>1 DEF Falta
    <3> QED
      BY <1>2, <2>1, <3>2
  <2>2. CASE q # c
    <3>1. (q \in DOMAIN resumen' <=> q \in DOMAIN resumen)
          /\ (q \in DOMAIN resumen => resumen'[q] = resumen[q])
      BY <1>1, <2>2
    <3> QED
      BY <1>4, <3>1 DEF Falta
  <2> QED
    BY <2>1, <2>2
<1>6. Cortado' = Cortado
  BY <1>1 DEF Cortado, Fi!En
<1> QED
  BY <1>1, <1>3, <1>5, <1>6
     DEF FinInv, CorteCuadra, DesvioDelFlujo, DesvioDeVentas, DesvioDelCorte, Fi!Abs

\* Without a summary, or with one that has just been asked for, nothing is off.
LEMMA FinVacio ==
    ASSUME FinTipo, CorteCuadra, SinPedido, DOMAIN resumen = {}, movido = 0
    PROVE  FinInv
<1>1. \A q : Falta(q) = 0
  BY DEF Falta
<1> QED
  BY <1>1 DEF FinInv, DesvioDelFlujo, DesvioDeVentas, DesvioDelCorte, Fi!Abs

LEMMA FinEntregar == FinInv /\ Fi!Entregar => FinInv'
<1> SUFFICES ASSUME FinInv, Fi!Entregar PROVE FinInv'
  OBVIOUS
<1>1. /\ pedido' = FALSE /\ movido' = 0 /\ resumen' = [q \in {} |-> 0]
      /\ UNCHANGED <<registros, edicion, cuentas, corte>>
  BY DEF Fi!Entregar, Fi!libro, Fi!Nada
<1>2. DOMAIN resumen' = {}
  BY <1>1
<1>3. FinTipo' /\ SinPedido'
  <2>1. DOMAIN resumen' \subseteq Fi!Consultas /\ \A q \in DOMAIN resumen' : resumen'[q] \in Int
    BY <1>2
  <2>2. movido' \in Int /\ UNCHANGED <<registros, edicion, cuentas, corte>>
    BY <1>1
  <2>3. pedido' \in BOOLEAN
    BY <1>1, Zenon
  <2>4. FinTipo'
    BY <2>1, <2>2, <2>3 DEF FinInv, FinTipo
  <2> QED
    BY <1>1, <1>2, <2>4 DEF SinPedido
<1>4. CorteCuadra'
  BY <1>1 DEF FinInv, CorteCuadra, Cortado, Fi!En
<1>5. (FinTipo /\ CorteCuadra /\ SinPedido /\ DOMAIN resumen = {} /\ movido = 0 => FinInv)'
  BY FinVacio, PTL
<1> QED
  BY <1>1, <1>2, <1>3, <1>4, <1>5

LEMMA FinInicio == Fi!Init => FinInv
<1> SUFFICES ASSUME Fi!Init PROVE FinInv
  OBVIOUS
<1>1. DOMAIN resumen = {} /\ movido = 0
  BY DEF Fi!Init, Fi!Nada
<1>2. FinTipo /\ SinPedido
  <2>1. DOMAIN resumen \subseteq Fi!Consultas /\ \A q \in DOMAIN resumen : resumen[q] \in Int
    BY <1>1
  <2>2. /\ registros \in [Registros -> Renglon]
        /\ cuentas \in [Cuentas -> {"ABIERTA", "PAGADA", "CORTADA", "ANULADA"}]
        /\ edicion \subseteq [fila : Registros, a : Int] /\ corte \in Int /\ movido \in Int
    BY DEF Fi!Init, Renglon
  <2>3. pedido \in BOOLEAN
    BY Zenon DEF Fi!Init
  <2>4. FinTipo
    BY <2>1, <2>2, <2>3 DEF FinTipo
  <2> QED
    BY <1>1, <2>4 DEF SinPedido
<1>3. CorteCuadra
  <2>1. Fi!En({"CORTADA"}) = {}
    BY DEF Fi!Init, Fi!En
  <2> QED
    BY <2>1, SumaVacia DEF Fi!Init, CorteCuadra, Cortado
<1> QED
  BY <1>1, <1>2, <1>3, FinVacio

\* Every step of the books keeps their invariant.
LEMMA FinPaso == FinInv /\ [Fi!Next]_deFinanzas => FinInv'
<1> SUFFICES ASSUME FinInv, [Fi!Next]_deFinanzas PROVE FinInv'
  OBVIOUS
<1>1. CASE UNCHANGED deFinanzas
  <2>1. UNCHANGED <<registros, edicion, cuentas, corte, pedido, resumen, movido>>
    BY <1>1 DEF deFinanzas
  <2>2. edicion \subseteq [fila : Registros, a : Int]
    BY DEF FinInv, FinTipo
  <2> QED
    BY <2>1, <2>2, FinIgual
<1>2. CASE Fi!Next
  BY <1>2, FinCrear, FinValidar, FinCambiar, FinAnularCompra, FinCuentas, FinCortar, FinPedir,
     FinConsultar, FinEntregar DEF Fi!Next
<1> QED
  BY <1>1, <1>2

\* The books, row by row, are the income less the expenses and the purchases.
LEMMA FinLibro ==
    ASSUME FinTipo
    PROVE  Fi!FlujoDelLibro = SumaFilas("INGRESO") - SumaFilas("GASTO") - SumaFilas("COMPRA") + corte
<1> DEFINE I == Fi!Vivos("INGRESO")
           G == Fi!Vivos("GASTO")
           C == Fi!Vivos("COMPRA")
           f == Fi!Montado
           g == Fi!ConSigno
<1>1. {r \in Registros : registros[r].estado = "VIVO"} = I \cup (G \cup C)
  BY FinanzasAssumption DEF Fi!Vivos
<1>2. I \cap (G \cup C) = {} /\ G \cap C = {}
  BY DEF Fi!Vivos
<1>3. IsFiniteSet(I) /\ IsFiniteSet(G) /\ IsFiniteSet(C) /\ IsFiniteSet(G \cup C)
  BY FinFinitos, FS_Union
<1>4. /\ \A r \in I : f[r] \in Int /\ g[r] = f[r]
      /\ \A r \in G \cup C : f[r] \in Int /\ g[r] = -f[r]
  BY DEF Fi!Vivos, Fi!Montado, Fi!ConSigno, FinTipo, Renglon
<1> HIDE DEF I, G, C, f, g
<1>5. \A r \in I \cup (G \cup C) : g[r] \in Int
  BY <1>4
<1>6. SumaDe(g, I \cup (G \cup C)) = SumaDe(g, I) + SumaDe(g, G \cup C)
  BY <1>2, <1>3, <1>5, SumaUnion
<1>7. SumaDe(g, G \cup C) = SumaDe(g, G) + SumaDe(g, C)
  BY <1>2, <1>3, <1>5, SumaUnion
<1>8. SumaDe(g, I) = SumaDe(f, I)
  BY <1>3, <1>4, SumaIgual
<1>9. SumaDe(g, G) = -SumaDe(f, G) /\ SumaDe(g, C) = -SumaDe(f, C)
  BY <1>3, <1>4, SumaOpuesta
<1>10. SumaDe(f, I) \in Int /\ SumaDe(f, G) \in Int /\ SumaDe(f, C) \in Int
  BY <1>3, <1>4, SumaEntera
<1>11. Fi!FlujoDelLibro = SumaDe(g, I \cup (G \cup C)) + corte
  BY <1>1, SumaDeFin DEF Fi!FlujoDelLibro, g
<1>12. SumaDe(g, I \cup (G \cup C)) = SumaDe(f, I) - SumaDe(f, G) - SumaDe(f, C)
  BY <1>6, <1>7, <1>8, <1>9, <1>10
<1> QED
  BY <1>11, <1>12 DEF SumaFilas, f, I, G, C

\* A summary with all its answers.
LEMMA FinImplica == FinInv => ResumenCuadra
<1> SUFFICES ASSUME FinInv, Fi!Completo
             PROVE  /\ Fi!Abs(Fi!Flujo(resumen) - Fi!FlujoDelLibro) <= movido
                    /\ Fi!Abs(Fi!Ventas(resumen) - Fi!Vendido) <= movido
                    /\ Fi!Abs(Fi!Ventas(resumen) - resumen["posEsperado"] - Fi!Ingresos + corte)
                         <= movido
  BY DEF ResumenCuadra, Fi!ResumenCuadra
<1>1. \A q \in Fi!Consultas : Falta(q) = resumen[q] - Fi!Respuesta(q) /\ resumen[q] \in Int
  BY DEF Falta, Fi!Completo, FinInv, FinTipo
<1>2. /\ Falta("ingresos") = resumen["ingresos"] - (SumaFilas("INGRESO") + corte)
      /\ Falta("gastos") = resumen["gastos"] - SumaFilas("GASTO")
      /\ Falta("compras") = resumen["compras"] - SumaFilas("COMPRA")
      /\ Falta("posSinCorte") = resumen["posSinCorte"] - Pagado
      /\ Falta("posEsperado") = resumen["posEsperado"] - Esperado
      /\ resumen["ingresos"] \in Int /\ resumen["gastos"] \in Int /\ resumen["compras"] \in Int
      /\ resumen["posSinCorte"] \in Int /\ resumen["posEsperado"] \in Int
  BY <1>1, FinRespuestas DEF Fi!Consultas
<1>3. /\ \A t : SumaFilas(t) \in Int
      /\ corte \in Int /\ corte = Cortado /\ Pagado \in Int /\ Esperado = Pagado + corte
  BY FinEnteros DEF FinInv, FinTipo, CorteCuadra
<1>4. Fi!Abs(Fi!Flujo(resumen) - Fi!FlujoDelLibro) <= movido
  <2>1. Fi!Flujo(resumen) - Fi!FlujoDelLibro = Falta("ingresos") - Falta("compras") - Falta("gastos")
    BY <1>2, <1>3, FinLibro DEF FinInv, Fi!Flujo
  <2> QED
    BY <2>1 DEF FinInv, DesvioDelFlujo, Fi!Abs
<1>5. Fi!Abs(Fi!Ventas(resumen) - Fi!Vendido) <= movido
  <2>1. Fi!Vendido = SumaFilas("INGRESO") + Esperado
    BY SumaDeFin DEF Fi!Vendido, SumaFilas, Esperado
  <2>2. Fi!Ventas(resumen) - Fi!Vendido = Falta("ingresos") + Falta("posSinCorte")
    BY <1>2, <1>3, <2>1 DEF Fi!Ventas
  <2> QED
    BY <2>2 DEF FinInv, DesvioDeVentas, Fi!Abs
<1>6. Fi!Abs(Fi!Ventas(resumen) - resumen["posEsperado"] - Fi!Ingresos + corte) <= movido
  <2>1. Fi!Ingresos = SumaFilas("INGRESO") + corte
    BY SumaDeFin DEF Fi!Ingresos, SumaFilas
  <2>2. Fi!Ventas(resumen) - resumen["posEsperado"] - Fi!Ingresos + corte
          = Falta("ingresos") + Falta("posSinCorte") - Falta("posEsperado")
    BY <1>2, <1>3, <2>1 DEF Fi!Ventas
  <2> QED
    BY <2>2 DEF FinInv, DesvioDelCorte, Fi!Abs
<1> QED
  BY <1>4, <1>5, <1>6

-----------------------------------------------------------------------------
(* Sesion                                                                  *)

\* A token, what cargar reads, and a request at each step.
Token   == [empresa : Se!Empresas, tv : Nat, pin : BOOLEAN]
Entrada == [activo : BOOLEAN, admin : BOOLEAN, tv : Nat, acceso : BOOLEAN,
            abierta : [Se!Empresas -> BOOLEAN]]
EnCola      == [paso : {"fila"}, s : Token, destino : {Ninguno} \cup Se!Empresas, espera : 0..MaxEspera]
Cargando    == [paso : {"accesos", "guardar"}, s : Token, destino : {Ninguno} \cup Se!Empresas,
                espera : 0..MaxEspera, e : Entrada]
PorEquipo   == [paso : {"equipo"}, s : Token, espera : 0..MaxEspera]
EquipoLeido == [paso : {"guardarEquipo"}, s : Token, espera : 0..MaxEspera, activo : BOOLEAN]
Admitida    == [paso : {"admitida"}, s : Token]
Peticion    == [paso : {"libre"}] \cup EnCola \cup Cargando \cup PorEquipo \cup EquipoLeido
                 \cup Admitida

\* What an entry says of a fact other than the device.
Dice(h, e) ==
    \/ h \in Se!Empresas /\ e.abierta[h]
    \/ h = "activo" /\ e.activo
    \/ h = "acceso" /\ e.acceso
    \/ h = "operativo" /\ ~e.admin
    \/ h = "version" /\ e.tv = 0

\* A request on what it has read: an entry that says so was read no longer ago
\* than the request waits; a request that waits for the device passed its
\* checks on an entry of the TTL at most, loaded in MaxEspera at most.
Bien(r) ==
    /\ r.paso \in {"accesos", "guardar"} /\ Dice(vigilado, r.e) => rota <= r.espera
    /\ r.paso \in {"equipo", "guardarEquipo"} /\ vigilado \in Se!HechosDe(r.s) /\ vigilado # "equipo"
         => rota < TTL + MaxEspera + r.espera
    /\ r.paso = "guardarEquipo" /\ vigilado = "equipo" /\ r.activo => rota <= r.espera

SesTipo ==
    /\ bd \in [activo : BOOLEAN, admin : BOOLEAN, tv : Nat, acceso : BOOLEAN, equipo : BOOLEAN,
               abierta : [Se!Empresas -> BOOLEAN]]
    /\ sesiones \subseteq Token
    /\ cache \in {Ninguno} \cup [e : Entrada, edad : Nat]
    /\ cacheEquipos \in {Ninguno} \cup [activo : BOOLEAN, edad : Nat]
    /\ pet \in [EnVuelo -> Peticion]
    /\ rota \in Nat
    /\ vigilado \in Se!Hechos

\* The clock of the watched fact, the entries of both caches while they are
\* fresh, and the requests.
Reloj == Se!Cierto(vigilado, bd) => rota = 0
CacheBien == Se!Fresca(cache) /\ Dice(vigilado, cache.e) => rota <= cache.edad + MaxEspera
EquiposBien ==
    Se!Fresca(cacheEquipos) /\ vigilado = "equipo" /\ cacheEquipos.activo
        => rota <= cacheEquipos.edad + MaxEspera
PeticionesBien == \A p \in EnVuelo : Bien(pet[p])

SesInv == SesTipo /\ Reloj /\ CacheBien /\ EquiposBien /\ PeticionesBien

\* What a step may let in.
Admite ==
    \A p \in EnVuelo :
        (pet[p].paso # "admitida" /\ pet'[p].paso = "admitida"
           /\ vigilado \in Se!HechosDe(pet'[p].s))
          => rota < Se!Cota

-----------------------------------------------------------------------------
\* At the start there is nothing read, and every fact that could be lost holds.
LEMMA SesInicio == Se!Init => SesInv
<1> SUFFICES ASSUME Se!Init PROVE SesInv
  OBVIOUS
<1>1. SesTipo
  <2>1. PICK esAdmin, acceso \in BOOLEAN :
          bd = [activo |-> TRUE, admin |-> esAdmin, tv |-> 0, acceso |-> acceso, equipo |-> TRUE,
                abierta |-> [e \in Se!Empresas |-> TRUE]]
    BY DEF Se!Init
  <2>2. bd \in [activo : BOOLEAN, admin : BOOLEAN, tv : Nat, acceso : BOOLEAN, equipo : BOOLEAN,
                abierta : [Se!Empresas -> BOOLEAN]]
    BY <2>1
  <2> QED
    BY <2>2 DEF Se!Init, SesTipo, Peticion
<1>2. rota = 0 /\ cache = Ninguno /\ cacheEquipos = Ninguno
      /\ \A p \in EnVuelo : pet[p].paso = "libre"
  BY DEF Se!Init
<1> QED
  BY <1>1, <1>2 DEF SesInv, Reloj, CacheBien, EquiposBien, PeticionesBien, Bien, Se!Fresca

-----------------------------------------------------------------------------
(* What is read and what is checked.                                       *)

\* The checks look at every fact of the session but the device.
LEMMA SesVale ==
    ASSUME NEW s \in Token, NEW e \in Entrada, Se!Vale(s, e),
           NEW h \in Se!HechosDe(s), h # "equipo"
    PROVE  Dice(h, e)
BY DEF Se!Vale, Se!HechosDe, Dice, Token, Entrada, Se!Empresas

\* What the first query reads is so, and it says nothing of the accesses.
LEMMA SesFila ==
    ASSUME SesTipo
    PROVE  Se!Fila \in Entrada /\ (Dice(vigilado, Se!Fila) => Se!Cierto(vigilado, bd))
<1>1. Se!Fila \in Entrada
  BY DEF SesTipo, Se!Fila, Entrada
<1>2. ASSUME Dice(vigilado, Se!Fila) PROVE Se!Cierto(vigilado, bd)
  BY <1>2 DEF SesTipo, Se!Fila, Dice, Se!Cierto, Se!Empresas, Se!Hechos
<1> QED
  BY <1>1, <1>2

\* What the second one adds is so too.
LEMMA SesAccesos ==
    ASSUME SesTipo, NEW e \in Entrada
    PROVE  LET f == [e EXCEPT !.acceso = bd.acceso, !.abierta["otra"] = bd.acceso /\ bd.abierta["otra"]]
           IN  /\ f \in Entrada
               /\ Dice(vigilado, f) => Dice(vigilado, e) \/ Se!Cierto(vigilado, bd)
<1> DEFINE b == bd.acceso /\ bd.abierta["otra"]
           f == [e EXCEPT !.acceso = bd.acceso, !.abierta["otra"] = b]
<1>1. bd.acceso \in BOOLEAN /\ b \in BOOLEAN
  BY DEF SesTipo, Se!Empresas
<1> HIDE DEF b
<1>2. /\ f \in Entrada
      /\ f.activo = e.activo /\ f.admin = e.admin /\ f.tv = e.tv /\ f.acceso = bd.acceso
      /\ f.abierta["base"] = e.abierta["base"] /\ f.abierta["otra"] = b
  BY <1>1 DEF Entrada, Se!Empresas
<1> HIDE DEF f
<1>3. ASSUME Dice(vigilado, f) PROVE Dice(vigilado, e) \/ Se!Cierto(vigilado, bd)
  BY <1>2, <1>3 DEF Dice, Se!Cierto, Se!Empresas, Se!Hechos, SesTipo, b
<1> QED
  BY <1>2, <1>3 DEF f, b

\* What follows the checks, on an entry that is not too old.
LEMMA SesDecidir ==
    ASSUME SesInv, NEW s \in Token, NEW e \in Entrada,
           Dice(vigilado, e) => rota < TTL + MaxEspera
    PROVE  LET r == Se!Decidir(s, e)
           IN  /\ r \in Peticion /\ Bien(r)
               /\ r.paso = "admitida" /\ vigilado \in Se!HechosDe(r.s) => rota < Se!Cota
<1> DEFINE r == Se!Decidir(s, e)
<1>1. CASE ~Se!Vale(s, e)
  BY <1>1 DEF Se!Decidir, Peticion, Bien
<1>2. CASE Se!Vale(s, e)
  <2>1. vigilado \in Se!HechosDe(s) /\ vigilado # "equipo" => rota < TTL + MaxEspera
    BY <1>2, SesVale
  <2>2. rota \in Nat /\ TTL \in Nat /\ MaxEspera \in Nat /\ Se!Cota = TTL + 2 * MaxEspera
    BY SesionAssumption DEF SesInv, SesTipo, Se!Cota
  <2>3. CASE ~s.pin
    <3>1. r = [paso |-> "admitida", s |-> s]
      BY <1>2, <2>3 DEF Se!Decidir
    <3>2. "equipo" \notin Se!HechosDe(s)
      BY <2>3 DEF Se!HechosDe, Token, Se!Empresas
    <3> QED
      BY <2>1, <2>2, <3>1, <3>2 DEF Peticion, Admitida, Bien
  <2>4. CASE s.pin /\ ~Se!Fresca(cacheEquipos)
    <3>1. r = [paso |-> "equipo", s |-> s, espera |-> 0]
      BY <1>2, <2>4 DEF Se!Decidir
    <3> QED
      BY <2>1, <2>2, <3>1 DEF Peticion, PorEquipo, Bien
  <2>5. CASE s.pin /\ Se!Fresca(cacheEquipos) /\ cacheEquipos.activo
    <3>1. r = [paso |-> "admitida", s |-> s]
      BY <1>2, <2>5 DEF Se!Decidir
    <3>2. vigilado = "equipo" => rota < TTL + MaxEspera
      BY <2>2, <2>5 DEF SesInv, SesTipo, EquiposBien, Se!Fresca
    <3> QED
      BY <2>1, <2>2, <3>1, <3>2 DEF Peticion, Admitida, Bien
  <2>6. CASE s.pin /\ Se!Fresca(cacheEquipos) /\ ~cacheEquipos.activo
    BY <1>2, <2>6 DEF Se!Decidir, Peticion, Bien
  <2> QED
    BY <2>3, <2>4, <2>5, <2>6
<1> QED
  BY <1>1, <1>2

\* One request goes on to r; the caches are as they were or right.
LEMMA SesSigue ==
    ASSUME SesInv, NEW p \in EnVuelo, NEW r \in Peticion, pet' = [pet EXCEPT ![p] = r], Bien(r),
           r.paso = "admitida" /\ vigilado \in Se!HechosDe(r.s)
             => pet[p].paso = "admitida" \/ rota < Se!Cota,
           sesiones' \subseteq Token, UNCHANGED <<bd, vigilado, rota>>,
           cache' \in {Ninguno} \cup [e : Entrada, edad : Nat], CacheBien',
           cacheEquipos' \in {Ninguno} \cup [activo : BOOLEAN, edad : Nat], EquiposBien'
    PROVE  SesInv' /\ Admite
<1>1. SesTipo'
  BY DEF SesInv, SesTipo
<1>2. \A q \in EnVuelo : pet'[q] = IF q = p THEN r ELSE pet[q]
  BY DEF SesInv, SesTipo
<1>3. Reloj'
  BY DEF SesInv, Reloj, Se!Cierto
<1>4. PeticionesBien'
  BY <1>2 DEF SesInv, PeticionesBien, Bien, Dice
<1>5. Admite
  BY <1>2 DEF Admite
<1> QED
  BY <1>1, <1>3, <1>4, <1>5 DEF SesInv

\* Most steps leave both caches alone.
LEMMA SesSigueSinCache ==
    ASSUME SesInv, NEW p \in EnVuelo, NEW r \in Peticion, pet' = [pet EXCEPT ![p] = r], Bien(r),
           r.paso = "admitida" /\ vigilado \in Se!HechosDe(r.s)
             => pet[p].paso = "admitida" \/ rota < Se!Cota,
           sesiones' \subseteq Token, UNCHANGED <<bd, vigilado, rota, cache, cacheEquipos>>
    PROVE  SesInv' /\ Admite
<1>1. cache' \in {Ninguno} \cup [e : Entrada, edad : Nat]
      /\ cacheEquipos' \in {Ninguno} \cup [activo : BOOLEAN, edad : Nat]
  BY DEF SesInv, SesTipo
<1>2. CacheBien' /\ EquiposBien'
  BY DEF SesInv, CacheBien, EquiposBien, Se!Fresca, Dice
<1> QED
  BY <1>1, <1>2, SesSigue

-----------------------------------------------------------------------------
(* The requests.                                                           *)

LEMMA SesRecibir ==
    ASSUME SesInv, NEW p \in EnVuelo, NEW s \in sesiones, Se!Recibir(p, s)
    PROVE  SesInv' /\ Admite
<1> DEFINE r == IF Se!Fresca(cache) THEN Se!Decidir(s, cache.e)
                ELSE [paso |-> "fila", s |-> s, destino |-> Ninguno, espera |-> 0]
<1>1. pet' = [pet EXCEPT ![p] = r] /\ UNCHANGED <<bd, sesiones, vigilado, rota, cache, cacheEquipos>>
  BY DEF Se!Recibir
<1>2. s \in Token /\ sesiones' \subseteq Token
  BY <1>1 DEF SesInv, SesTipo
<1>3. /\ r \in Peticion /\ Bien(r)
      /\ r.paso = "admitida" /\ vigilado \in Se!HechosDe(r.s) => rota < Se!Cota
  <2>1. CASE Se!Fresca(cache)
    <3>1. cache.e \in Entrada /\ cache.edad \in Nat /\ cache.edad < TTL
      BY <2>1 DEF SesInv, SesTipo, Se!Fresca
    <3>2. Dice(vigilado, cache.e) => rota < TTL + MaxEspera
      BY <2>1, <3>1, SesionAssumption DEF SesInv, SesTipo, CacheBien
    <3> QED
      BY <1>2, <2>1, <3>1, <3>2, SesDecidir
  <2>2. CASE ~Se!Fresca(cache)
    BY <1>2, <2>2, SesionAssumption DEF Peticion, EnCola, Bien
  <2> QED
    BY <2>1, <2>2
<1> HIDE DEF r
<1> QED
  BY <1>1, <1>2, <1>3, SesSigueSinCache

LEMMA SesLeerFila ==
    ASSUME SesInv, NEW p \in EnVuelo, Se!LeerFila(p)
    PROVE  SesInv' /\ Admite
<1> DEFINE r == [paso |-> "accesos", s |-> pet[p].s, destino |-> pet[p].destino,
                 espera |-> pet[p].espera, e |-> Se!Fila]
<1>1. pet[p] \in EnCola
  BY DEF Se!LeerFila, SesInv, SesTipo, Peticion, EnCola, Cargando, PorEquipo, EquipoLeido, Admitida
<1>2. pet' = [pet EXCEPT ![p] = r] /\ UNCHANGED <<bd, sesiones, vigilado, rota, cache, cacheEquipos>>
  BY DEF Se!LeerFila, SesInv, SesTipo
<1>3. Se!Fila \in Entrada /\ (Dice(vigilado, Se!Fila) => rota = 0)
  BY SesFila DEF SesInv, Reloj
<1>4. r \in Peticion
  BY <1>1, <1>3 DEF Peticion, EnCola, Cargando
<1>5. Bien(r)
  BY <1>1, <1>3 DEF Bien, EnCola
<1>6. r.paso # "admitida" /\ sesiones' \subseteq Token
  BY <1>2 DEF SesInv, SesTipo
<1> HIDE DEF r
<1> QED
  BY <1>2, <1>4, <1>5, <1>6, SesSigueSinCache

\* A request that has read the row.
LEMMA SesCargando ==
    ASSUME SesInv, NEW p \in EnVuelo, pet[p].paso \in {"accesos", "guardar"}
    PROVE  pet[p] \in Cargando /\ (Dice(vigilado, pet[p].e) => rota <= pet[p].espera)
BY DEF SesInv, SesTipo, Peticion, EnCola, Cargando, PorEquipo, EquipoLeido, Admitida,
   PeticionesBien, Bien

LEMMA SesLeerAccesos ==
    ASSUME SesInv, NEW p \in EnVuelo, Se!LeerAccesos(p)
    PROVE  SesInv' /\ Admite
<1> DEFINE f == [pet[p].e EXCEPT !.acceso = bd.acceso,
                                 !.abierta["otra"] = bd.acceso /\ bd.abierta["otra"]]
           r == [paso |-> "guardar", s |-> pet[p].s, destino |-> pet[p].destino,
                 espera |-> pet[p].espera, e |-> f]
<1>1. pet[p] \in Cargando /\ (Dice(vigilado, pet[p].e) => rota <= pet[p].espera)
  BY SesCargando DEF Se!LeerAccesos
<1>2. pet' = [pet EXCEPT ![p] = r] /\ UNCHANGED <<bd, sesiones, vigilado, rota, cache, cacheEquipos>>
  BY DEF Se!LeerAccesos, SesInv, SesTipo
<1>3. f \in Entrada /\ (Dice(vigilado, f) => Dice(vigilado, pet[p].e) \/ Se!Cierto(vigilado, bd))
  BY <1>1, SesAccesos DEF SesInv, Cargando
<1> HIDE DEF f
<1>4. r \in Peticion
  BY <1>1, <1>3 DEF Peticion, Cargando
<1>5. Bien(r)
  BY <1>1, <1>3 DEF Bien, Cargando, SesInv, Reloj
<1>6. r.paso # "admitida" /\ sesiones' \subseteq Token
  BY <1>2 DEF SesInv, SesTipo
<1> HIDE DEF r
<1> QED
  BY <1>2, <1>4, <1>5, <1>6, SesSigueSinCache

\* A session signed on an entry.
LEMMA SesFirmar ==
    ASSUME SesInv, NEW e \in Entrada, NEW destino \in Se!Empresas, Se!Firmar(e, destino)
    PROVE  sesiones' \subseteq Token
<1>1. [empresa |-> destino, tv |-> e.tv, pin |-> FALSE] \in Token
  BY DEF Token, Entrada
<1> QED
  BY <1>1 DEF Se!Firmar, Se!Emitir, SesInv, SesTipo

LEMMA SesGuardar ==
    ASSUME SesInv, NEW p \in EnVuelo, Se!Guardar(p)
    PROVE  SesInv' /\ Admite
<1> DEFINE e == pet[p].e
           r == IF pet[p].destino = Ninguno THEN Se!Decidir(pet[p].s, e) ELSE [paso |-> "libre"]
<1>1. pet[p] \in Cargando /\ (Dice(vigilado, e) => rota <= pet[p].espera)
  BY SesCargando DEF Se!Guardar
<1>2. e \in Entrada /\ pet[p].s \in Token /\ pet[p].espera \in 0..MaxEspera /\ rota \in Nat
      /\ pet[p].destino \in {Ninguno} \cup Se!Empresas
  BY <1>1 DEF Cargando, SesInv, SesTipo
<1>3. /\ pet' = [pet EXCEPT ![p] = r] /\ UNCHANGED <<bd, vigilado, rota, cacheEquipos>>
      /\ cache' = [e |-> e, edad |-> 0]
      /\ sesiones' = sesiones \/ (pet[p].destino # Ninguno /\ Se!Firmar(e, pet[p].destino))
  BY DEF Se!Guardar, SesInv, SesTipo
<1> HIDE DEF e
<1>4. sesiones' \subseteq Token
  BY <1>2, <1>3, SesFirmar DEF SesInv, SesTipo
<1>5. Dice(vigilado, e) => rota <= MaxEspera /\ rota < TTL + MaxEspera
  BY <1>1, <1>2, SesionAssumption
<1>6. /\ r \in Peticion /\ Bien(r)
      /\ r.paso = "admitida" /\ vigilado \in Se!HechosDe(r.s) => rota < Se!Cota
  <2>1. CASE pet[p].destino = Ninguno
    BY <1>2, <1>5, <2>1, SesDecidir
  <2>2. CASE pet[p].destino # Ninguno
    BY <2>2 DEF Peticion, Bien
  <2> QED
    BY <2>1, <2>2
<1>7. cache' \in {Ninguno} \cup [e : Entrada, edad : Nat] /\ CacheBien'
  <2>1. cache' \in [e : Entrada, edad : Nat] /\ cache'.e = e /\ cache'.edad = 0
    BY <1>2, <1>3
  <2>3. Dice(vigilado', cache'.e) <=> Dice(vigilado, e)
    BY <1>3, <2>1 DEF Dice
  <2>4. Dice(vigilado', cache'.e) => rota' <= cache'.edad + MaxEspera
    BY <1>2, <1>3, <1>5, <2>1, <2>3, SesionAssumption
  <2> QED
    BY <2>1, <2>4 DEF CacheBien
<1>8. cacheEquipos' \in {Ninguno} \cup [activo : BOOLEAN, edad : Nat] /\ EquiposBien'
  BY <1>3 DEF SesInv, SesTipo, EquiposBien, Se!Fresca
<1> HIDE DEF r
<1> QED
  BY <1>3, <1>4, <1>6, <1>7, <1>8, SesSigue

LEMMA SesLeerEquipo ==
    ASSUME SesInv, NEW p \in EnVuelo, Se!LeerEquipo(p)
    PROVE  SesInv' /\ Admite
<1> DEFINE b == bd.equipo /\ bd.abierta["base"]
           r == [paso |-> "guardarEquipo", s |-> pet[p].s, espera |-> pet[p].espera, activo |-> b]
<1>1. pet[p] \in PorEquipo
  BY DEF Se!LeerEquipo, SesInv, SesTipo, Peticion, EnCola, Cargando, PorEquipo, EquipoLeido, Admitida
<1>2. pet' = [pet EXCEPT ![p] = r] /\ UNCHANGED <<bd, sesiones, vigilado, rota, cache, cacheEquipos>>
  BY DEF Se!LeerEquipo, SesInv, SesTipo
<1>3. b \in BOOLEAN /\ (vigilado = "equipo" /\ b => rota = 0)
  BY DEF SesInv, SesTipo, Reloj, Se!Cierto, Se!Empresas
<1> HIDE DEF b
<1>4. r \in Peticion
  BY <1>1, <1>3 DEF Peticion, PorEquipo, EquipoLeido
<1>5. Bien(r)
  <2>1. vigilado \in Se!HechosDe(r.s) /\ vigilado # "equipo" => rota < TTL + MaxEspera + r.espera
    <3>1. Bien(pet[p]) /\ pet[p].paso = "equipo"
      BY <1>1 DEF SesInv, PeticionesBien, PorEquipo
    <3> QED
      BY <3>1 DEF Bien
  <2>2. vigilado = "equipo" /\ r.activo => rota <= r.espera
    BY <1>1, <1>3 DEF PorEquipo
  <2> QED
    BY <2>1, <2>2 DEF Bien
<1>6. r.paso # "admitida" /\ sesiones' \subseteq Token
  BY <1>2 DEF SesInv, SesTipo
<1> HIDE DEF r
<1> QED
  BY <1>2, <1>4, <1>5, <1>6, SesSigueSinCache

LEMMA SesGuardarEquipo ==
    ASSUME SesInv, NEW p \in EnVuelo, Se!GuardarEquipo(p)
    PROVE  SesInv' /\ Admite
<1> DEFINE r == IF pet[p].activo THEN [paso |-> "admitida", s |-> pet[p].s] ELSE [paso |-> "libre"]
<1>1. pet[p] \in EquipoLeido /\ Bien(pet[p]) /\ pet[p].paso = "guardarEquipo"
  BY DEF Se!GuardarEquipo, SesInv, SesTipo, Peticion, EnCola, Cargando, PorEquipo, EquipoLeido,
     Admitida, PeticionesBien
<1>2. /\ pet' = [pet EXCEPT ![p] = r] /\ UNCHANGED <<bd, sesiones, vigilado, rota, cache>>
      /\ cacheEquipos' = [activo |-> pet[p].activo, edad |-> 0]
  BY DEF Se!GuardarEquipo, SesInv, SesTipo
<1>3. /\ pet[p].espera \in 0..MaxEspera /\ pet[p].activo \in BOOLEAN /\ pet[p].s \in Token
      /\ rota \in Nat /\ TTL \in Nat \ {0} /\ MaxEspera \in Nat /\ Se!Cota = TTL + 2 * MaxEspera
  BY <1>1, SesionAssumption DEF EquipoLeido, SesInv, SesTipo, Se!Cota
<1>4. vigilado = "equipo" /\ pet[p].activo => rota <= MaxEspera
  BY <1>1, <1>3 DEF Bien
<1>5. vigilado \in Se!HechosDe(pet[p].s) /\ vigilado # "equipo" => rota < Se!Cota
  BY <1>1, <1>3 DEF Bien
<1>6. /\ r \in Peticion /\ Bien(r)
      /\ r.paso = "admitida" /\ vigilado \in Se!HechosDe(r.s) => rota < Se!Cota
  BY <1>3, <1>4, <1>5 DEF Peticion, Admitida, Bien
<1>7. cacheEquipos' \in {Ninguno} \cup [activo : BOOLEAN, edad : Nat] /\ EquiposBien'
  <2>1. /\ cacheEquipos' \in [activo : BOOLEAN, edad : Nat]
        /\ cacheEquipos'.activo = pet[p].activo /\ cacheEquipos'.edad = 0
    BY <1>2, <1>3
  <2>2. vigilado' = "equipo" /\ cacheEquipos'.activo => rota' <= cacheEquipos'.edad + MaxEspera
    BY <1>2, <1>3, <1>4, <2>1
  <2> QED
    BY <2>1, <2>2 DEF EquiposBien
<1>8. cache' \in {Ninguno} \cup [e : Entrada, edad : Nat] /\ CacheBien' /\ sesiones' \subseteq Token
  BY <1>2 DEF SesInv, SesTipo, CacheBien, Se!Fresca, Dice
<1> HIDE DEF r
<1> QED
  BY <1>2, <1>6, <1>7, <1>8, SesSigue

\* The handlers of a request that was let in.
LEMMA SesManejador ==
    ASSUME SesInv, NEW p \in EnVuelo,
           (\E destino \in Se!Empresas : Se!CambiarEmpresa(p, destino)) \/ Se!Terminar(p)
    PROVE  SesInv' /\ Admite
<1>1. pet[p] \in Admitida
  BY DEF Se!CambiarEmpresa, Se!Terminar, SesInv, SesTipo, Peticion, EnCola, Cargando, PorEquipo,
     EquipoLeido, Admitida
<1>2. /\ UNCHANGED <<bd, vigilado, rota, cache, cacheEquipos>>
      /\ sesiones' \subseteq Token
      /\ \E r \in [paso : {"libre"}] \cup EnCola : pet' = [pet EXCEPT ![p] = r]
  <2>1. CASE Se!Terminar(p)
    BY <2>1 DEF Se!Terminar, SesInv, SesTipo
  <2>2. CASE \E destino \in Se!Empresas : Se!CambiarEmpresa(p, destino)
    <3>1. PICK destino \in Se!Empresas : Se!CambiarEmpresa(p, destino)
      BY <2>2
    <3>2. CASE Se!Fresca(cache)
      <4>1. cache.e \in Entrada
        BY <3>2 DEF SesInv, SesTipo, Se!Fresca
      <4>2. sesiones' \subseteq Token
        BY <3>1, <3>2, <4>1, SesFirmar DEF Se!CambiarEmpresa
      <4> QED
        BY <3>1, <3>2, <4>2 DEF Se!CambiarEmpresa
    <3>3. CASE ~Se!Fresca(cache)
      <4> DEFINE r == [paso |-> "fila", s |-> pet[p].s, destino |-> destino, espera |-> 0]
      <4>1. r \in EnCola
        BY <1>1, SesionAssumption DEF Admitida, EnCola
      <4>2. pet' = [pet EXCEPT ![p] = r]
            /\ UNCHANGED <<bd, vigilado, rota, cache, cacheEquipos, sesiones>>
        BY <3>1, <3>3 DEF Se!CambiarEmpresa, SesInv, SesTipo
      <4> HIDE DEF r
      <4> QED
        BY <4>1, <4>2 DEF SesInv, SesTipo
    <3> QED
      BY <3>2, <3>3
  <2> QED
    BY <2>1, <2>2
<1>3. PICK r \in [paso : {"libre"}] \cup EnCola : pet' = [pet EXCEPT ![p] = r]
  BY <1>2
<1>4. r \in Peticion /\ Bien(r) /\ r.paso # "admitida"
  BY DEF Peticion, EnCola, Bien
<1> QED
  BY <1>2, <1>3, <1>4, SesSigueSinCache

-----------------------------------------------------------------------------
(* The rest.                                                               *)

\* Sessions that are issued, and the writes of the administrators.
LEMMA SesEmitir == SesInv /\ (Se!Login \/ Se!EntrarConPin) => SesInv' /\ Admite
<1> SUFFICES ASSUME SesInv, Se!Login \/ Se!EntrarConPin PROVE SesInv' /\ Admite
  OBVIOUS
<1>1. UNCHANGED <<bd, cache, cacheEquipos, pet, vigilado, rota>>
  BY DEF Se!Login, Se!EntrarConPin
<1>2. sesiones' \subseteq Token
  <2>1. \A b \in BOOLEAN : [empresa |-> "base", tv |-> bd.tv, pin |-> b] \in Token
    BY DEF SesInv, SesTipo, Token, Se!Empresas
  <2>2. \E b \in BOOLEAN : sesiones' = sesiones \cup {[empresa |-> "base", tv |-> bd.tv, pin |-> b]}
    BY DEF Se!Login, Se!EntrarConPin, Se!Emitir
  <2> QED
    BY <2>1, <2>2 DEF SesInv, SesTipo
<1>3. SesTipo'
  BY <1>1, <1>2 DEF SesInv, SesTipo
<1>4. Reloj' /\ CacheBien' /\ EquiposBien'
  BY <1>1 DEF SesInv, Reloj, Se!Cierto, CacheBien, Se!Fresca, Dice, EquiposBien
<1>5. PeticionesBien' /\ Admite
  BY <1>1 DEF SesInv, PeticionesBien, Bien, Dice, Admite
<1> QED
  BY <1>3, <1>4, <1>5 DEF SesInv

\* Less time lost, or as much, and nothing read anew.
LEMMA SesRotaBaja ==
    ASSUME SesInv, SesTipo', rota' <= rota, Reloj',
           UNCHANGED <<cache, cacheEquipos, pet, vigilado>>
    PROVE  SesInv' /\ Admite
<1>1. rota \in Nat /\ rota' \in Nat /\ TTL \in Nat /\ MaxEspera \in Nat
  BY SesionAssumption DEF SesInv, SesTipo
<1>2. CacheBien'
  <2> SUFFICES ASSUME Se!Fresca(cache)', Dice(vigilado, cache.e)'
               PROVE  rota' <= cache'.edad + MaxEspera
    BY DEF CacheBien
  <2>1. Se!Fresca(cache) /\ Dice(vigilado, cache.e)
    BY DEF Se!Fresca, Dice
  <2>2. rota <= cache.edad + MaxEspera /\ cache.edad \in Nat
    BY <2>1 DEF SesInv, SesTipo, CacheBien, Se!Fresca
  <2> QED
    BY <1>1, <2>2
<1>3. EquiposBien'
  <2> SUFFICES ASSUME Se!Fresca(cacheEquipos)', vigilado' = "equipo", cacheEquipos'.activo
               PROVE  rota' <= cacheEquipos'.edad + MaxEspera
    BY DEF EquiposBien
  <2>1. rota <= cacheEquipos.edad + MaxEspera /\ cacheEquipos.edad \in Nat
    BY DEF SesInv, SesTipo, EquiposBien, Se!Fresca
  <2> QED
    BY <1>1, <2>1
<1>4. ASSUME NEW p \in EnVuelo PROVE Bien(pet[p])'
  <2>1. Bien(pet[p]) /\ pet[p] \in Peticion
    BY DEF SesInv, SesTipo, PeticionesBien
  <2>2. pet[p].paso \notin {"libre", "admitida", "fila"} => pet[p].espera \in Nat
    BY <2>1, <1>1 DEF Peticion, EnCola, Cargando, PorEquipo, EquipoLeido, Admitida
  <2> QED
    BY <1>1, <2>1, <2>2 DEF Bien, Dice
<1>5. PeticionesBien'
  BY <1>4 DEF PeticionesBien
<1>6. Admite
  BY DEF Admite
<1> QED
  BY <1>2, <1>3, <1>5, <1>6 DEF SesInv

LEMMA SesEscribir ==
    ASSUME SesInv, NEW b, NEW entrada, Se!Escribir(b, entrada),
           b \in [activo : BOOLEAN, admin : BOOLEAN, tv : Nat, acceso : BOOLEAN, equipo : BOOLEAN,
                  abierta : [Se!Empresas -> BOOLEAN]]
    PROVE  SesInv' /\ Admite
<1>1. /\ UNCHANGED <<cache, cacheEquipos, pet, vigilado, sesiones>> /\ bd' = b
      /\ rota' = IF Se!Cierto(vigilado, b) THEN 0 ELSE rota
  BY DEF Se!Escribir
<1>2. rota' \in Nat /\ rota' <= rota
  BY <1>1 DEF SesInv, SesTipo
<1>3. SesTipo'
  BY <1>1, <1>2 DEF SesInv, SesTipo
<1>4. Reloj'
  BY <1>1 DEF Reloj, Se!Cierto
<1> QED
  BY <1>1, <1>2, <1>3, <1>4, SesRotaBaja

LEMMA SesAdministrar ==
    ASSUME SesInv,
           \/ Se!SubirVersion \/ Se!CambiarActivo \/ Se!CambiarAdmin \/ Se!Conceder \/ Se!Retirar
           \/ Se!RevocarEquipo \/ \E e \in Se!Empresas : Se!CambiarEstado(e)
    PROVE  SesInv' /\ Admite
<1> DEFINE B == [activo : BOOLEAN, admin : BOOLEAN, tv : Nat, acceso : BOOLEAN, equipo : BOOLEAN,
                 abierta : [Se!Empresas -> BOOLEAN]]
<1>1. bd \in B
  BY DEF SesInv, SesTipo
<1>2. \A b \in B : /\ [b EXCEPT !.tv = @ + 1] \in B
                   /\ \A v \in BOOLEAN : /\ [b EXCEPT !.activo = v] \in B
                                         /\ [b EXCEPT !.admin = v] \in B
                                         /\ [b EXCEPT !.acceso = v] \in B
                                         /\ [b EXCEPT !.equipo = v] \in B
  OBVIOUS
<1>3. \A b \in B, e \in Se!Empresas : [b EXCEPT !.abierta[e] = ~@] \in B
  OBVIOUS
<1>4. bd.activo \in BOOLEAN /\ bd.admin \in BOOLEAN
  BY <1>1
<1> HIDE DEF B
<1>5. \E b \in B, entrada \in {{}, {"usuario"}, {"equipo"}} : Se!Escribir(b, entrada)
  <2>1. CASE Se!SubirVersion
    BY <1>1, <1>2, <2>1 DEF Se!SubirVersion
  <2>2. CASE Se!CambiarActivo
    <3>1. (~bd.activo) \in BOOLEAN
      OBVIOUS
    <3>2. [bd EXCEPT !.activo = ~@] \in B
      BY <1>1, <1>2, <3>1
    <3> QED
      BY <2>2, <3>2 DEF Se!CambiarActivo
  <2>3. CASE Se!CambiarAdmin
    <3>1. (~bd.admin) \in BOOLEAN
      OBVIOUS
    <3>2. [bd EXCEPT !.admin = ~@] \in B
      BY <1>1, <1>2, <3>1
    <3> QED
      BY <2>3, <3>2 DEF Se!CambiarAdmin
  <2>4. CASE Se!Conceder
    BY <1>1, <1>2, <2>4 DEF Se!Conceder
  <2>5. CASE Se!Retirar
    BY <1>1, <1>2, <2>5 DEF Se!Retirar
  <2>6. CASE Se!RevocarEquipo
    BY <1>1, <1>2, <2>6 DEF Se!RevocarEquipo
  <2>7. CASE \E e \in Se!Empresas : Se!CambiarEstado(e)
    BY <1>1, <1>3, <2>7 DEF Se!CambiarEstado
  <2> QED
    BY <2>1, <2>2, <2>3, <2>4, <2>5, <2>6, <2>7
<1> QED
  BY <1>5, SesEscribir DEF B

\* An invalidation, or a restart, forgets.
LEMMA SesOlvidar ==
    ASSUME SesInv, Se!Reiniciar \/ \E cual \in {"usuario", "equipo"} : Se!Invalidar(cual)
    PROVE  SesInv' /\ Admite
<1>1. /\ UNCHANGED <<bd, sesiones, vigilado, rota>>
      /\ cache' \in {cache, Ninguno} /\ cacheEquipos' \in {cacheEquipos, Ninguno}
      /\ pet' = pet \/ pet' = [p \in EnVuelo |-> [paso |-> "libre"]]
  BY DEF Se!Reiniciar, Se!Invalidar
<1>2. SesTipo'
  BY <1>1 DEF SesInv, SesTipo, Peticion
<1>3. Reloj' /\ CacheBien' /\ EquiposBien'
  BY <1>1 DEF SesInv, Reloj, Se!Cierto, CacheBien, Se!Fresca, Dice, EquiposBien
<1>4. PeticionesBien' /\ Admite
  BY <1>1 DEF SesInv, PeticionesBien, Bien, Dice, Admite
<1> QED
  BY <1>2, <1>3, <1>4 DEF SesInv

\* Time: whatever waits, and whatever is fresh, ages with the fact.
LEMMA SesTic == SesInv /\ Se!Tic => SesInv' /\ Admite
<1> SUFFICES ASSUME SesInv, Se!Tic PROVE SesInv' /\ Admite
  OBVIOUS
<1>1. /\ UNCHANGED <<bd, sesiones, vigilado>>
      /\ cache' = Se!Envejecer(cache) /\ cacheEquipos' = Se!Envejecer(cacheEquipos)
      /\ rota' = IF Se!Cierto(vigilado, bd) THEN 0 ELSE IF rota < Se!Cota THEN rota + 1 ELSE rota
  BY DEF Se!Tic
<1>2. rota \in Nat /\ rota' \in Nat /\ rota' <= rota + 1 /\ TTL \in Nat /\ MaxEspera \in Nat
  BY <1>1, SesionAssumption DEF SesInv, SesTipo
<1>3. ASSUME NEW p \in EnVuelo
      PROVE  /\ pet'[p] \in Peticion /\ pet'[p].paso = pet[p].paso /\ Bien(pet[p])'
  <2>1. pet[p] \in Peticion /\ Bien(pet[p])
    BY DEF SesInv, SesTipo, PeticionesBien
  <2>2. CASE ~Se!EnEspera(p)
    <3>1. pet'[p] = pet[p] /\ pet[p].paso \in {"libre", "admitida"}
      BY <2>2 DEF Se!Tic, Se!EnEspera
    <3> QED
      BY <2>1, <3>1 DEF Bien
  <2>3. CASE Se!EnEspera(p)
    <3>1. pet'[p] = [pet[p] EXCEPT !.espera = @ + 1] /\ pet[p].espera < MaxEspera
      BY <2>3 DEF Se!Tic
    <3>2. pet[p] \in EnCola \cup Cargando \cup PorEquipo \cup EquipoLeido
      BY <2>1, <2>3 DEF Peticion, Admitida, Se!EnEspera
    <3>3. CASE pet[p] \in EnCola
      <4>1. pet'[p] \in EnCola
        BY <1>2, <3>1, <3>3 DEF EnCola
      <4> QED
        BY <3>3, <4>1 DEF EnCola, Peticion, Bien
    <3>4. CASE pet[p] \in Cargando
      <4>1. /\ pet'[p] \in Cargando /\ pet'[p].e = pet[p].e /\ pet'[p].paso = pet[p].paso
            /\ pet'[p].espera = pet[p].espera + 1 /\ pet[p].espera \in Nat
            /\ pet[p].paso \in {"accesos", "guardar"}
        BY <1>2, <3>1, <3>4 DEF Cargando
      <4>2. Dice(vigilado, pet[p].e)' <=> Dice(vigilado, pet[p].e)
        BY <1>1, <4>1 DEF Dice
      <4> QED
        BY <1>2, <2>1, <4>1, <4>2 DEF Peticion, Bien
    <3>5. CASE pet[p] \in PorEquipo
      <4>1. /\ pet'[p] \in PorEquipo /\ pet'[p].s = pet[p].s /\ pet'[p].paso = "equipo"
            /\ pet[p].paso = "equipo" /\ pet'[p].espera = pet[p].espera + 1 /\ pet[p].espera \in Nat
        BY <1>2, <3>1, <3>5 DEF PorEquipo
      <4> QED
        BY <1>1, <1>2, <2>1, <4>1 DEF Peticion, Bien
    <3>6. CASE pet[p] \in EquipoLeido
      <4>1. /\ pet'[p] \in EquipoLeido /\ pet'[p].s = pet[p].s /\ pet'[p].paso = "guardarEquipo"
            /\ pet[p].paso = "guardarEquipo" /\ pet'[p].activo = pet[p].activo
            /\ pet'[p].espera = pet[p].espera + 1 /\ pet[p].espera \in Nat
        BY <1>2, <3>1, <3>6 DEF EquipoLeido
      <4> QED
        BY <1>1, <1>2, <2>1, <4>1 DEF Peticion, Bien
    <3> QED
      BY <3>2, <3>3, <3>4, <3>5, <3>6
  <2> QED
    BY <2>2, <2>3
<1>4. cache' \in {Ninguno} \cup [e : Entrada, edad : Nat] /\ CacheBien'
  <2>1. CASE cache = Ninguno \/ cache.edad = TTL
    <3>1. cache' = cache
      BY <1>1, <2>1 DEF Se!Envejecer
    <3>2. ~Se!Fresca(cache)'
      BY <1>2, <2>1, <3>1 DEF Se!Fresca
    <3> QED
      BY <3>1, <3>2 DEF SesInv, SesTipo, CacheBien
  <2>2. CASE ~(cache = Ninguno \/ cache.edad = TTL)
    <3>1. cache \in [e : Entrada, edad : Nat] /\ cache' = [cache EXCEPT !.edad = @ + 1]
      BY <1>1, <2>2 DEF SesInv, SesTipo, Se!Envejecer
    <3>2. cache' \in [e : Entrada, edad : Nat] /\ cache'.e = cache.e /\ cache'.edad = cache.edad + 1
          /\ cache.edad \in Nat
      BY <3>1
    <3>3. ASSUME Se!Fresca(cache)', Dice(vigilado, cache.e)' PROVE rota' <= cache'.edad + MaxEspera
      <4>1. Se!Fresca(cache) /\ Dice(vigilado, cache.e)
        BY <1>1, <1>2, <2>2, <3>2, <3>3 DEF Se!Fresca, Dice
      <4>2. rota <= cache.edad + MaxEspera
        BY <4>1 DEF SesInv, CacheBien
      <4> QED
        BY <1>2, <3>2, <4>2
    <3> QED
      BY <3>2, <3>3 DEF CacheBien
  <2> QED
    BY <2>1, <2>2
<1>5. cacheEquipos' \in {Ninguno} \cup [activo : BOOLEAN, edad : Nat] /\ EquiposBien'
  <2>1. CASE cacheEquipos = Ninguno \/ cacheEquipos.edad = TTL
    <3>1. cacheEquipos' = cacheEquipos
      BY <1>1, <2>1 DEF Se!Envejecer
    <3>2. ~Se!Fresca(cacheEquipos)'
      BY <1>2, <2>1, <3>1 DEF Se!Fresca
    <3> QED
      BY <3>1, <3>2 DEF SesInv, SesTipo, EquiposBien
  <2>2. CASE ~(cacheEquipos = Ninguno \/ cacheEquipos.edad = TTL)
    <3>1. cacheEquipos \in [activo : BOOLEAN, edad : Nat]
          /\ cacheEquipos' = [cacheEquipos EXCEPT !.edad = @ + 1]
      BY <1>1, <2>2 DEF SesInv, SesTipo, Se!Envejecer
    <3>2. /\ cacheEquipos' \in [activo : BOOLEAN, edad : Nat]
          /\ cacheEquipos'.activo = cacheEquipos.activo
          /\ cacheEquipos'.edad = cacheEquipos.edad + 1 /\ cacheEquipos.edad \in Nat
      BY <3>1
    <3>3. ASSUME Se!Fresca(cacheEquipos)', vigilado' = "equipo", cacheEquipos'.activo
          PROVE  rota' <= cacheEquipos'.edad + MaxEspera
      <4>1. Se!Fresca(cacheEquipos) /\ vigilado = "equipo" /\ cacheEquipos.activo
        BY <1>1, <1>2, <2>2, <3>2, <3>3 DEF Se!Fresca
      <4>2. rota <= cacheEquipos.edad + MaxEspera
        BY <4>1 DEF SesInv, EquiposBien
      <4> QED
        BY <1>2, <3>2, <4>2
    <3> QED
      BY <3>2, <3>3 DEF EquiposBien
  <2> QED
    BY <2>1, <2>2
<1>6. Reloj'
  BY <1>1 DEF Reloj, Se!Cierto
<1>7. pet' \in [EnVuelo -> Peticion]
  BY <1>3 DEF Se!Tic
<1>8. PeticionesBien' /\ Admite
  BY <1>3 DEF PeticionesBien, Admite
<1>9. SesTipo'
  BY <1>1, <1>2, <1>4, <1>5, <1>7 DEF SesInv, SesTipo
<1> QED
  BY <1>4, <1>5, <1>6, <1>8, <1>9 DEF SesInv

\* Every step of the sessions keeps their invariant, and lets in nobody it
\* should not.
LEMMA SesPaso == SesInv /\ [Se!Next]_deSesion => SesInv' /\ [Admite]_deSesion
<1> SUFFICES ASSUME SesInv, [Se!Next]_deSesion PROVE SesInv' /\ [Admite]_deSesion
  OBVIOUS
<1>1. CASE UNCHANGED deSesion
  <2>1. UNCHANGED <<bd, sesiones, cache, cacheEquipos, pet, vigilado, rota>>
    BY <1>1 DEF deSesion
  <2>2. SesTipo'
    BY <2>1 DEF SesInv, SesTipo
  <2>3. Reloj'
    BY <2>1 DEF SesInv, Reloj, Se!Cierto
  <2>4. rota' <= rota
    BY <2>1 DEF SesInv, SesTipo
  <2> QED
    BY <1>1, <2>1, <2>2, <2>3, <2>4, SesRotaBaja
<1>2. CASE Se!Next
  <2>1. SesInv' /\ Admite
    BY <1>2, SesEmitir, SesAdministrar, SesOlvidar, SesRecibir, SesLeerFila, SesLeerAccesos,
       SesGuardar, SesLeerEquipo, SesGuardarEquipo, SesManejador, SesTic DEF Se!Next
  <2> QED
    BY <2>1
<1> QED
  BY <1>1, <1>2

-----------------------------------------------------------------------------
(* Costeo: the cascade of an operation changes no cost of what is bought,  *)
(* so that cost is the one of the purchase it was taken from.              *)

Ficha == [estado : {"no", "existe", "borrada"}, proteccion : Int, rendimiento : Nat \ {0},
          total : Int, elaborado : Preparados \cup {Ninguno}]
Escandallo == [Co!Productos -> Int]
TablasDe == [costo : [Co!Productos -> Int], factor : [Co!Productos -> Int],
             receta : [Fichas -> Ficha], detalle : [Fichas -> Escandallo],
             snap : [Fichas -> Escandallo], vistos : SUBSET Co!Productos]

\* The tables of a transaction that left the costs c of what is bought.
ConCosto(c) == {t \in TablasDe : \A p \in Materias : t.costo[p] = c[p]}

\* A stage of its cascade, for recipes that come in the order o.
EtapaDe(c, o) == [tablas : ConCosto(c), pendientes : Seq((SUBSET DOMAIN o) \ {{}})]

EsOrden(o) == DOMAIN o \subseteq Fichas /\ \A r \in DOMAIN o : o[r] \in Nat

Recibida == [precio : UNION {[S -> Int] : S \in SUBSET Materias}, anulada : BOOLEAN]

CosTipo ==
    /\ costo \in [Co!Productos -> Int]
    /\ factor \in [Co!Productos -> Int]
    /\ receta \in [Fichas -> Ficha]
    /\ detalle \in [Fichas -> Escandallo]
    /\ snap \in [Fichas -> Escandallo]
    /\ compras \in Seq(Recibida)

CosInv == CosTipo /\ CostoDeLaUltimaCompra

\* Rounding gives whole numbers.
LEMMA RedondeoEntero ==
    ASSUME NEW n \in Int, NEW m \in Nat \ {0}
    PROVE  Co!Redondeo(n, m) \in Int
<1>1. 2 * n + m \in Int /\ 2 * m \in Nat \ {0}
  OBVIOUS
<1>2. \A i \in Int, j \in Nat \ {0} : i \div j \in Int
  OBVIOUS
<1> QED
  BY <1>1, <1>2 DEF Co!Redondeo

LEMMA CardinalDeCos == \A S : Co!Cardinality(S) = Cardinality(S)
BY DEF Co!Cardinality, Cardinality

LEMMA SumaDeCos == \A f, S : Co!SumaDe(f, S) = SumaDe(f, S)
BY DEF Co!SumaDe, Co!FoldFunctionOnSet, Co!MapThenFoldSet, SumaDe, FoldFunctionOnSet, MapThenFoldSet

\* The total of a recipe is a number.
LEMMA CostoTotalEntero ==
    ASSUME NEW t \in TablasDe, NEW r \in Fichas
    PROVE  Co!CostoTotal(t, r) \in Int
<1> DEFINE f == [p \in Co!Productos |-> t.detalle[r][p] * t.snap[r][p]]
<1>1. IsFiniteSet(Co!Productos)
  BY CosteoAssumption, FS_Union DEF Co!Productos
<1>2. \A p \in Co!Productos : f[p] \in Int
  <2>1. t.detalle[r] \in Escandallo /\ t.snap[r] \in Escandallo
    BY DEF TablasDe
  <2>2. \A p \in Co!Productos : t.detalle[r][p] \in Int /\ t.snap[r][p] \in Int
    BY <2>1 DEF Escandallo
  <2> QED
    BY <2>2
<1>3. SumaDe(f, Co!Productos) \in Int
  <2> HIDE DEF f
  <2> QED
    BY <1>1, <1>2, SumaEntera
<1>4. t.receta[r].proteccion \in Int
  BY DEF TablasDe, Ficha
<1>5. SumaDe(f, Co!Productos) * (100 + t.receta[r].proteccion) \in Int
  <2> DEFINE s == SumaDe(f, Co!Productos)
             q == t.receta[r].proteccion
  <2>1. s \in Int /\ q \in Int
    BY <1>3, <1>4
  <2> HIDE DEF s, q
  <2>2. s * (100 + q) \in Int
    BY <2>1
  <2> QED
    BY <2>2 DEF s, q
<1>6. Co!CostoTotal(t, r) = Co!Redondeo(SumaDe(f, Co!Productos) * (100 + t.receta[r].proteccion), 100)
  BY SumaDeCos DEF Co!CostoTotal
<1> QED
  BY <1>5, <1>6, RedondeoEntero

\* What is recalculated is the total of a recipe and the cost of what it makes,
\* which is not bought.
LEMMA CalculadoIgual ==
    ASSUME NEW c, NEW t \in ConCosto(c), NEW r \in Fichas
    PROVE  Co!Calculado(t, r) \in ConCosto(c)
<1> DEFINE suma == Co!CostoTotal(t, r)
           q == t.receta[r].elaborado
           u == [t EXCEPT !.receta[r].total = suma]
           v == Co!Redondeo(suma, t.receta[r].rendimiento)
<1>1. t \in TablasDe /\ \A p \in Materias : t.costo[p] = c[p]
  BY DEF ConCosto
<1>2. t.receta[r] \in Ficha /\ t.receta \in [Fichas -> Ficha]
  BY <1>1 DEF TablasDe
<1>3. suma \in Int /\ v \in Int
  <2>1. suma \in Int
    BY <1>1, CostoTotalEntero
  <2>2. t.receta[r].rendimiento \in Nat \ {0}
    BY <1>2 DEF Ficha
  <2> HIDE DEF suma
  <2> QED
    BY <2>1, <2>2, RedondeoEntero
<1>4. q \in Preparados \cup {Ninguno}
  BY <1>2 DEF Ficha
<1> HIDE DEF suma, v
<1>5. u \in TablasDe /\ u.costo = t.costo
  <2>1. [t.receta EXCEPT ![r].total = suma] \in [Fichas -> Ficha]
    BY <1>2, <1>3 DEF Ficha
  <2> QED
    BY <1>1, <2>1 DEF TablasDe
<1>6. CASE q = Ninguno
  BY <1>1, <1>5, <1>6 DEF Co!Calculado, ConCosto, suma
<1>7. CASE q # Ninguno
  <2> DEFINE w == [u EXCEPT !.costo[q] = v]
  <2>1. Co!Calculado(t, r) = w
    BY <1>7 DEF Co!Calculado, v, suma
  <2>2. q \in Preparados /\ q \notin Materias
    BY <1>4, <1>7, CosteoAssumption
  <2> HIDE DEF q, u
  <2>3. w \in TablasDe
    BY <1>3, <1>5 DEF TablasDe
  <2>4. \A p \in Materias : w.costo[p] = t.costo[p]
    BY <1>5, <2>2 DEF TablasDe
  <2> QED
    BY <1>1, <2>1, <2>3, <2>4 DEF ConCosto
<1> QED
  BY <1>6, <1>7

\* The next recipe is one of those that wait.
LEMMA PrimeraEsta ==
    ASSUME NEW o, EsOrden(o), NEW S \in (SUBSET DOMAIN o) \ {{}}
    PROVE  Co!Primera(o, S) \in S
<1> DEFINE T == {o[q] : q \in S}
<1>1. T \in SUBSET Nat /\ T # {}
  BY DEF EsOrden
<1>2. PICK x \in T : \A y \in T : x <= y
  <2> HIDE DEF T
  <2> QED
    BY <1>1, Menor
<1>3. PICK r \in S : o[r] = x
  BY <1>2
<1>4. \A q \in S : o[r] <= o[q]
  BY <1>2, <1>3
<1> QED
  BY <1>4 DEF Co!Primera

\* What waits stays a list of sets of recipes, none of them empty.
LEMMA ApilarTipo ==
    ASSUME NEW D, NEW S \in SUBSET D, NEW pila \in Seq((SUBSET D) \ {{}})
    PROVE  Co!Apilar(S, pila) \in Seq((SUBSET D) \ {{}})
<1>1. CASE S = {}
  BY <1>1 DEF Co!Apilar
<1>2. CASE S # {}
  <2>1. <<S>> \in Seq((SUBSET D) \ {{}})
    BY <1>2
  <2> QED
    BY <1>2, <2>1, ConcatProperties DEF Co!Apilar
<1> QED
  BY <1>1, <1>2

\* Refreshing copies writes no cost.
LEMMA RefrescarIgual ==
    ASSUME NEW c, NEW o, EsOrden(o), NEW e \in EtapaDe(c, o), NEW ps \in SUBSET Co!Productos
    PROVE  Co!Refrescar(e, ps, o) \in EtapaDe(c, o)
<1> DEFINE t == e.tablas
           nuevos == ps \ t.vistos
           tocadas == {r \in DOMAIN o : \E p \in nuevos : Co!Vieja(t, r, p)}
           copias == [r \in Fichas |-> [p \in Co!Productos |->
                         IF p \in nuevos /\ Co!Vieja(t, r, p) THEN Co!CostoUtil(t, p)
                         ELSE t.snap[r][p]]]
           u == [t EXCEPT !.vistos = @ \cup nuevos, !.snap = copias]
<1>1. t \in ConCosto(c) /\ t \in TablasDe /\ e.pendientes \in Seq((SUBSET DOMAIN o) \ {{}})
  BY DEF EtapaDe, ConCosto
<1>2. Co!Refrescar(e, ps, o)
        = [tablas |-> u, pendientes |-> Co!Apilar(tocadas, e.pendientes)]
  BY Zenon DEF Co!Refrescar
<1>3. Co!Apilar(tocadas, e.pendientes) \in Seq((SUBSET DOMAIN o) \ {{}})
  <2>1. tocadas \in SUBSET DOMAIN o
    OBVIOUS
  <2> HIDE DEF tocadas
  <2> QED
    BY <1>1, <2>1, ApilarTipo
<1>4. copias \in [Fichas -> Escandallo]
  <2>1. ASSUME NEW p \in Co!Productos
        PROVE  Co!CostoUtil(t, p) \in Int
    <3>1. t.costo[p] \in Int /\ t.factor[p] \in Int
      BY <1>1 DEF TablasDe
    <3> QED
      BY <3>1 DEF Co!CostoUtil
  <2>2. \A r \in Fichas : \A p \in Co!Productos : t.snap[r][p] \in Int
    BY <1>1 DEF TablasDe, Escandallo
  <2> QED
    BY <2>1, <2>2 DEF Escandallo
<1> HIDE DEF copias
<1>5. u \in ConCosto(c)
  BY <1>1, <1>4 DEF ConCosto, TablasDe
<1> QED
  BY <1>2, <1>3, <1>5 DEF EtapaDe

LEMMA RecalcularIgual ==
    ASSUME NEW c, NEW o, EsOrden(o), NEW e \in EtapaDe(c, o), NEW r \in Fichas
    PROVE  Co!Recalcular(e, r, o) \in EtapaDe(c, o)
<1> DEFINE q == e.tablas.receta[r].elaborado
           v == Co!Calculado(e.tablas, r)
           u == [e EXCEPT !.tablas = v]
<1>1. e.tablas \in ConCosto(c)
  BY DEF EtapaDe
<1>2. v \in ConCosto(c)
  BY <1>1, CalculadoIgual
<1>3. q \in Preparados \cup {Ninguno}
  BY <1>1 DEF ConCosto, TablasDe, Ficha
<1>4. Co!Recalcular(e, r, o) = IF q = Ninguno THEN u ELSE Co!Refrescar(u, {q}, o)
  BY DEF Co!Recalcular
<1> HIDE DEF v, q
<1>5. u \in EtapaDe(c, o)
  BY <1>2 DEF EtapaDe
<1>6. q # Ninguno => {q} \in SUBSET Co!Productos
  BY <1>3 DEF Co!Productos
<1> HIDE DEF u
<1> QED
  BY <1>4, <1>5, <1>6, RefrescarIgual

LEMMA AvanzarIgual ==
    ASSUME NEW c, NEW o, EsOrden(o), NEW e \in EtapaDe(c, o)
    PROVE  Co!Avanzar(e, o) \in EtapaDe(c, o)
<1> DEFINE F == (SUBSET DOMAIN o) \ {{}}
           S == Head(e.pendientes)
           r == Co!Primera(o, S)
           resto == Co!Apilar(S \ {r}, Tail(e.pendientes))
           u == [e EXCEPT !.pendientes = resto]
<1>1. e.tablas \in ConCosto(c) /\ e.pendientes \in Seq(F)
  BY DEF EtapaDe
<1>2. Co!Avanzar(e, o) = IF e.pendientes = <<>> THEN e ELSE Co!Recalcular(u, r, o)
  BY DEF Co!Avanzar
<1>3. CASE e.pendientes = <<>>
  BY <1>2, <1>3
<1>4. CASE e.pendientes # <<>>
  <2> HIDE DEF F
  <2>1. S \in F /\ Tail(e.pendientes) \in Seq(F)
    BY <1>1, <1>4, HeadTailProperties
  <2> USE DEF F
  <2> HIDE DEF S
  <2>2. r \in S /\ r \in Fichas
    BY <2>1, PrimeraEsta DEF EsOrden
  <2> HIDE DEF r
  <2>3. resto \in Seq(F)
    BY <2>1, ApilarTipo
  <2> HIDE DEF resto
  <2>4. u \in EtapaDe(c, o)
    BY <1>1, <2>3 DEF EtapaDe
  <2> HIDE DEF u
  <2> QED
    BY <1>2, <1>4, <2>2, <2>4, RecalcularIgual
<1> QED
  BY <1>3, <1>4

\* A cascade, stage by stage, keeps the costs of what is bought.
LEMMA CascadaIgual ==
    ASSUME NEW c, NEW o, EsOrden(o), NEW b \in EtapaDe(c, o)
    PROVE  Co!Cascada(b, o) \in ConCosto(c)
<1> DEFINE n == Co!MaxPasos
           V == EtapaDe(c, o)
           Es(h) == h = [i \in 0..n |-> IF i = 0 THEN b ELSE Co!Avanzar(h[i-1], o)]
           G == [i \in 1..n |-> [v \in V |-> Co!Avanzar(v, o)]]
<1>1. n \in Nat
  <2>1. Cardinality(Fichas) \in Nat /\ Cardinality(Preparados) \in Nat
    BY CosteoAssumption, FS_CardinalityType
  <2>2. \A i, j \in Nat : i * (1 + j) \in Nat
    OBVIOUS
  <2> QED
    BY <2>1, <2>2, CardinalDeCos DEF Co!MaxPasos
<1>2. b \in V
  OBVIOUS
<1>3. \A v \in V : Co!Avanzar(v, o) \in V
  BY AvanzarIgual
<1> HIDE DEF V, n
<1>4. \E h : Es(h)
  <2>0. \A i \in 1..n : \A v \in V : G[i][v] \in V
    BY <1>3
  <2>1. PICK h \in [0..n -> V] : Recorre(h, n, b, G)
    <3> HIDE DEF G
    <3> QED
      BY <1>1, <1>2, <2>0, RecorreExiste
  <2>2. ASSUME NEW i \in 0..n
        PROVE  h[i] = IF i = 0 THEN b ELSE Co!Avanzar(h[i-1], o)
    <3>1. CASE i = 0
      BY <2>1, <3>1 DEF Recorre
    <3>2. CASE i # 0
      <4>1. i \in 1..n /\ i-1 \in 0..n
        BY <1>1, <3>2
      <4>2. h[i-1] \in V
        BY <4>1
      <4>3. h[i] = G[i][h[i-1]]
        BY <2>1, <3>2 DEF Recorre
      <4>4. G[i][h[i-1]] = Co!Avanzar(h[i-1], o)
        BY <4>1, <4>2
      <4> QED
        BY <3>2, <4>3, <4>4
    <3> QED
      BY <3>1, <3>2
  <2>3. Es(h)
    BY Zenon, <2>2
  <2> QED
    BY <2>3
<1> DEFINE r == CHOOSE h : Es(h)
<1>5. Es(r)
  BY <1>4
<1>6. Co!Cascada(b, o) = r[n].tablas
  BY DEF Co!Cascada, n
<1> HIDE DEF r
<1>7. r[0] = b /\ \A i \in 1..n : r[i] = Co!Avanzar(r[i-1], o)
  <2>1. 0 \in 0..n /\ \A i \in 1..n : i \in 0..n /\ i # 0
    BY <1>1
  <2> QED
    BY <1>5, <2>1
<1> HIDE DEF Es
<1>8. \A i \in 1..n : r[i-1] \in V => r[i] \in V
  BY <1>3, <1>7
<1>9. r[n] \in V
  BY <1>1, <1>2, <1>7, <1>8, RecorreTipo
<1> QED
  BY <1>6, <1>9 DEF V, EtapaDe

LEMMA ParadoEtapa ==
    ASSUME NEW c, NEW o, NEW t \in ConCosto(c)
    PROVE  Co!Parado(t) \in EtapaDe(c, o)
BY DEF Co!Parado, EtapaDe

\* So do the two entries of the cascade.
LEMMA PropagarIgual ==
    ASSUME NEW c, NEW o, EsOrden(o), NEW t \in ConCosto(c), NEW ps \in SUBSET Co!Productos
    PROVE  Co!PropagarCostoInsumos(t, ps, o) \in ConCosto(c)
BY ParadoEtapa, RefrescarIgual, CascadaIgual DEF Co!PropagarCostoInsumos

LEMMA RecalcularTodoIgual ==
    ASSUME NEW c, NEW o, EsOrden(o), NEW t \in ConCosto(c), NEW r \in Fichas
    PROVE  Co!RecalcularCostoTotal(t, r, o) \in ConCosto(c)
BY ParadoEtapa, RecalcularIgual, CascadaIgual DEF Co!RecalcularCostoTotal

\* The orders of the recipes there are.
LEMMA OrdenesSon == CosTipo => \A o \in Co!Ordenes : EsOrden(o)
<1> SUFFICES ASSUME CosTipo, NEW o \in Co!Ordenes PROVE EsOrden(o)
  OBVIOUS
<1> DEFINE hay == {r \in Fichas : receta[r].estado = "existe"}
<1>1. o \in [hay -> 1..Cardinality(hay)]
  BY CardinalDeCos DEF Co!Ordenes
<1>2. hay \subseteq Fichas /\ Cardinality(hay) \in Nat
  BY CosteoAssumption, FS_Subset, FS_CardinalityType
<1> HIDE DEF hay
<1> QED
  BY <1>1, <1>2 DEF EsOrden

-----------------------------------------------------------------------------
\* The operations write tables that are tables.
LEMMA GuardarTipo ==
    ASSUME NEW c, NEW t \in ConCosto(c), Co!Guardar(t)
    PROVE  /\ costo' \in [Co!Productos -> Int]
           /\ factor' \in [Co!Productos -> Int]
           /\ receta' \in [Fichas -> Ficha]
           /\ detalle' \in [Fichas -> Escandallo]
           /\ snap' \in [Fichas -> Escandallo]
           /\ \A p \in Materias : costo'[p] = c[p]
BY DEF Co!Guardar, ConCosto, TablasDe

\* The purchases of a product that are in force, in a list of purchases.
Vigentes(k, p) == {i \in 1..Len(k) : ~k[i].anulada /\ p \in DOMAIN k[i].precio}

\* The cost of p is the price of the last one.
DeLaUltima(k, c, p) ==
    Vigentes(k, p) # {} =>
        \E m \in Vigentes(k, p) :
            (\A i \in Vigentes(k, p) : i <= m) /\ c[p] = k[m].precio[p]

\* Max is the greatest of a set of places, when there is one.
LEMMA MaxEs ==
    ASSUME NEW S \in SUBSET Nat, NEW m \in S, \A i \in S : i <= m
    PROVE  Co!Max(S) = m
<1>1. \A i \in S : m >= i
  OBVIOUS
<1>2. Co!Max(S) \in S /\ \A i \in S : Co!Max(S) >= i
  BY <1>1 DEF Co!Max
<1>3. m \in Nat /\ Co!Max(S) \in Nat /\ Co!Max(S) >= m /\ Co!Max(S) <= m
  BY <1>2
<1> QED
  BY <1>3

\* And there is one among the purchases.
LEMMA UltimaHay ==
    ASSUME NEW k \in Seq(Recibida), NEW S \in SUBSET (1..Len(k)), S # {}
    PROVE  \E m \in S : \A i \in S : i <= m
<1>1. Len(k) \in Nat
  BY LenProperties
<1>2. S \in SUBSET Nat
  BY <1>1
<1>3. IsFiniteSet(1..Len(k))
  BY <1>1, FS_Interval
<1>4. IsFiniteSet(S)
  BY <1>3, FS_Subset
<1> QED
  BY <1>2, <1>4, Mayor

\* The property, without the operators of the module.
LEMMA UltimaEs ==
    CosTipo =>
        (CostoDeLaUltimaCompra <=> \A p \in Materias \ editado : DeLaUltima(compras, costo, p))
<1> SUFFICES ASSUME CosTipo
             PROVE  CostoDeLaUltimaCompra
                      <=> \A p \in Materias \ editado : DeLaUltima(compras, costo, p)
  OBVIOUS
<1>1. Len(compras) \in Nat
  BY LenProperties DEF CosTipo
<1>2. CostoDeLaUltimaCompra
        <=> \A p \in Materias \ editado :
               Vigentes(compras, p) # {} =>
                   costo[p] = compras[Co!Max(Vigentes(compras, p))].precio[p]
  BY DEF CostoDeLaUltimaCompra, Co!CostoDeLaUltimaCompra, Vigentes
<1>3. ASSUME NEW p \in Materias, Vigentes(compras, p) # {}
      PROVE  DeLaUltima(compras, costo, p)
               <=> costo[p] = compras[Co!Max(Vigentes(compras, p))].precio[p]
  <2> DEFINE S == Vigentes(compras, p)
  <2>1. S \in SUBSET (1..Len(compras)) /\ S \in SUBSET Nat
    BY <1>1 DEF Vigentes
  <2>2. PICK m \in S : \A i \in S : i <= m
    <3> HIDE DEF S
    <3>1. S # {}
      BY <1>3 DEF S
    <3> QED
      BY <2>1, <3>1, UltimaHay DEF CosTipo
  <2>3. Co!Max(S) = m
    <3> HIDE DEF S
    <3> QED
      BY <2>1, <2>2, MaxEs
  <2>4. \A n \in S : (\A i \in S : i <= n) => n = m
    <3> HIDE DEF S
    <3>1. ASSUME NEW n \in S, \A i \in S : i <= n
          PROVE  n = m
      <4>1. n \in Nat /\ m \in Nat /\ n <= m /\ m <= n
        BY <2>1, <2>2, <3>1
      <4> QED
        BY <4>1
    <3> QED
      BY <3>1
  <2> HIDE DEF S
  <2>5. DeLaUltima(compras, costo, p)
          <=> (S # {} => \E n \in S : (\A i \in S : i <= n) /\ costo[p] = compras[n].precio[p])
    BY DEF DeLaUltima, S
  <2>6. S # {}
    BY <1>3 DEF S
  <2>7. DeLaUltima(compras, costo, p) <=> costo[p] = compras[m].precio[p]
    BY <2>2, <2>4, <2>5, <2>6
  <2> QED
    BY <2>3, <2>7 DEF S
<1>4. \A p \in Materias \ editado :
        DeLaUltima(compras, costo, p)
          <=> (Vigentes(compras, p) # {} =>
                  costo[p] = compras[Co!Max(Vigentes(compras, p))].precio[p])
  BY <1>3 DEF DeLaUltima
<1> QED
  BY <1>2, <1>4

-----------------------------------------------------------------------------
(* The operations.                                                         *)

\* What a transaction sees first.
LEMMA TablasTipo == CosTipo => Co!Tablas \in ConCosto(costo)
BY DEF CosTipo, Co!Tablas, ConCosto, TablasDe

\* A transaction that leaves the costs c of what is bought.
LEMMA CosPasa ==
    ASSUME CosInv, NEW c, NEW t \in ConCosto(c), Co!Guardar(t), compras' \in Seq(Recibida),
           \A p \in Materias \ editado' : DeLaUltima(compras', c, p)
    PROVE  CosInv'
<1>1. CosTipo'
  BY GuardarTipo DEF CosTipo
<1>2. \A p \in Materias : costo'[p] = c[p]
  BY GuardarTipo
<1>3. \A p \in Materias \ editado' : DeLaUltima(compras', costo', p)
  BY <1>2 DEF DeLaUltima
<1>4. (CosTipo =>
        (CostoDeLaUltimaCompra
           <=> \A p \in Materias \ editado : DeLaUltima(compras, costo, p)))'
  BY UltimaEs, PTL
<1> QED
  BY <1>1, <1>3, <1>4 DEF CosInv

\* One that touches no purchase and keeps those costs.
LEMMA CosIgual ==
    ASSUME CosInv, NEW t \in ConCosto(costo), Co!Guardar(t),
           UNCHANGED compras, editado \subseteq editado'
    PROVE  CosInv'
<1>1. compras' \in Seq(Recibida)
  BY DEF CosInv, CosTipo
<1>2. \A p \in Materias \ editado : DeLaUltima(compras, costo, p)
  BY UltimaEs DEF CosInv
<1>3. \A p \in Materias \ editado' : DeLaUltima(compras', costo, p)
  BY <1>2
<1> QED
  BY <1>1, <1>3, CosPasa

\* A purchase: the price of its products is that of the last one in force.
LEMMA ComprarCos ==
    ASSUME CosInv, NEW o \in Co!Ordenes, NEW ps \in SUBSET Materias, NEW precios \in [ps -> Tarifas],
           Co!Comprar(precios, o)
    PROVE  CosInv'
<1> DEFINE c == [p \in Co!Productos |->
                    IF p \in DOMAIN precios THEN precios[p] ELSE Co!Tablas.costo[p]]
           t == [Co!Tablas EXCEPT !.costo = c]
           u == Co!PropagarCostoInsumos(t, DOMAIN precios, o)
           nueva == [precio |-> precios, anulada |-> FALSE]
           n == Len(compras)
<1>0. DOMAIN precios = ps /\ \A p \in ps : precios[p] \in Int
  <2>1. \A p \in ps : precios[p] \in Tarifas
    OBVIOUS
  <2>2. Tarifas \subseteq Int
    BY CosteoAssumption
  <2>3. DOMAIN precios = ps
    OBVIOUS
  <2> QED
    BY <2>1, <2>2, <2>3
<1>1. CosTipo /\ compras \in Seq(Recibida) /\ n \in Nat
  BY LenProperties DEF CosInv, CosTipo
<1>c. Co!Tablas.costo = costo
  BY DEF Co!Tablas
<1>2. c \in [Co!Productos -> Int]
  <2>1. \A p \in Co!Productos : costo[p] \in Int
    BY <1>1 DEF CosTipo
  <2> QED
    BY <1>0, <1>c, <2>1
<1>3. Co!Guardar(u) /\ compras' = Append(compras, nueva) /\ editado' = editado \ ps
  BY <1>0 DEF Co!Comprar
<1>4. \A p \in Materias : c[p] = IF p \in ps THEN precios[p] ELSE costo[p]
  BY <1>0, <1>c DEF Co!Productos
<1> HIDE DEF c
<1>5. t \in ConCosto(c)
  BY <1>1, <1>2, TablasTipo DEF ConCosto, TablasDe
<1>6. u \in ConCosto(c)
  <2>1. DOMAIN precios \in SUBSET Co!Productos
    BY <1>0 DEF Co!Productos
  <2> HIDE DEF t
  <2> QED
    BY <1>1, <1>5, <2>1, OrdenesSon, PropagarIgual
<1> HIDE DEF u, n
<1>7. nueva \in Recibida
  BY <1>0 DEF Recibida
<1>8. compras' \in Seq(Recibida) /\ Len(compras') = n + 1 /\ compras'[n+1] = nueva
      /\ \A i \in 1..n : compras'[i] = compras[i]
  BY <1>1, <1>3, <1>7, AppendProperties DEF n
<1>9. ASSUME NEW p \in Materias \ editado'
      PROVE  DeLaUltima(compras', c, p)
  <2>1. CASE p \in ps
    <3>1. n+1 \in Vigentes(compras', p)
      BY <1>0, <1>1, <1>8, <2>1 DEF Vigentes
    <3>2. \A i \in Vigentes(compras', p) : i <= n+1
      BY <1>1, <1>8 DEF Vigentes
    <3>3. c[p] = compras'[n+1].precio[p]
      BY <1>4, <1>8, <2>1
    <3> QED
      BY <3>1, <3>2, <3>3 DEF DeLaUltima
  <2>2. CASE p \notin ps
    <3>1. DeLaUltima(compras, costo, p)
      BY <1>3, <2>2, UltimaEs DEF CosInv
    <3>2. 1..(n+1) = (1..n) \cup {n+1}
      BY <1>1
    <3>3. Vigentes(compras', p) = Vigentes(compras, p)
      BY <1>0, <1>8, <2>2, <3>2 DEF Vigentes, n
    <3>4. \A i \in Vigentes(compras, p) : compras'[i] = compras[i]
      BY <1>8 DEF Vigentes, n
    <3> QED
      BY <1>4, <2>2, <3>1, <3>3, <3>4 DEF DeLaUltima
  <2> QED
    BY <2>1, <2>2
<1> QED
  BY <1>3, <1>6, <1>8, <1>9, CosPasa

\* A cancellation: the cost goes back where this purchase was the last one.
LEMMA AnularCos ==
    ASSUME CosInv, NEW o \in Co!Ordenes, NEW k \in 1..Len(compras), Co!AnularCompra(k, o)
    PROVE  CosInv'
<1> DEFINE Otras(p) == Co!Referencias(k, p) \ {k}
           afectados == {p \in DOMAIN compras[k].precio :
                            Otras(p) # {} /\ Co!Max(Co!Referencias(k, p)) = k}
           c == [p \in Co!Productos |->
                    IF p \in afectados THEN compras[Co!Max(Otras(p))].precio[p]
                    ELSE Co!Tablas.costo[p]]
           t == [Co!Tablas EXCEPT !.costo = c]
           u == Co!PropagarCostoInsumos(t, afectados, o)
<1>1. CosTipo /\ compras \in Seq(Recibida) /\ Len(compras) \in Nat
  BY LenProperties DEF CosInv, CosTipo
<1>2. Co!Guardar(u) /\ compras' = [compras EXCEPT ![k].anulada = TRUE] /\ editado' = editado
      /\ ~compras[k].anulada
  BY Zenon DEF Co!AnularCompra
<1>3. \A i \in 1..Len(compras) : compras[i] \in Recibida
  BY <1>1, ElementOfSeq
<1>4. \A i \in 1..Len(compras) : \A p \in DOMAIN compras[i].precio :
        p \in Materias /\ compras[i].precio[p] \in Int
  BY <1>3 DEF Recibida
<1>5. /\ Len(compras') = Len(compras) /\ compras' \in Seq(Recibida)
      /\ \A i \in 1..Len(compras) : compras'[i].precio = compras[i].precio
      /\ \A i \in 1..Len(compras) : compras'[i].anulada = (i = k \/ compras[i].anulada)
  <2> DEFINE ficha == [compras[k] EXCEPT !.anulada = TRUE]
  <2>1. ficha \in Recibida /\ ficha.precio = compras[k].precio /\ ficha.anulada = TRUE
    BY <1>3 DEF Recibida
  <2>2. compras' = [compras EXCEPT ![k] = ficha]
    BY <1>2
  <2> HIDE DEF ficha
  <2>3. compras' \in Seq(Recibida) /\ Len(compras') = Len(compras)
    BY <1>1, <2>1, <2>2, ExceptSeq
  <2>4. \A i \in 1..Len(compras) : compras'[i] = IF i = k THEN ficha ELSE compras[i]
    BY <1>1, <2>2
  <2>5. \A i \in 1..Len(compras) : compras[i].anulada \in BOOLEAN
    BY <1>3 DEF Recibida
  <2>6. \A i \in 1..Len(compras) : compras'[i].anulada = (i = k \/ compras[i].anulada)
    BY <2>1, <2>4, <2>5
  <2> QED
    BY <2>1, <2>3, <2>4, <2>6
<1>6. \A p : Co!Referencias(k, p) = {i \in 1..Len(compras) :
                 p \in DOMAIN compras[i].precio /\ (~compras[i].anulada \/ i = k)}
  BY DEF Co!Referencias
<1>7. \A p : Vigentes(compras', p) = Otras(p)
  BY <1>2, <1>5, <1>6 DEF Vigentes
<1>8. \A p : Vigentes(compras, p) = {i \in Co!Referencias(k, p) : i # k \/ p \in DOMAIN compras[k].precio}
  BY <1>2, <1>6 DEF Vigentes
<1>9. ASSUME NEW p, Otras(p) # {}
      PROVE  /\ Co!Max(Otras(p)) \in Otras(p)
             /\ \A i \in Otras(p) : i <= Co!Max(Otras(p))
  <2>1. Otras(p) \in SUBSET (1..Len(compras)) /\ Otras(p) \in SUBSET Nat
    BY <1>1, <1>6
  <2> HIDE DEF Otras
  <2>2. PICK m \in Otras(p) : \A i \in Otras(p) : i <= m
    BY <1>1, <1>9, <2>1, UltimaHay
  <2>3. Co!Max(Otras(p)) = m
    BY <2>1, <2>2, MaxEs
  <2> QED
    BY <2>2, <2>3
<1>10. afectados \in SUBSET Materias
  BY <1>4
<1>c. Co!Tablas.costo = costo
  BY DEF Co!Tablas
<1>11. c \in [Co!Productos -> Int]
  <2>1. \A p \in Co!Productos : costo[p] \in Int
    BY <1>1 DEF CosTipo
  <2>2. ASSUME NEW p \in afectados
        PROVE  compras[Co!Max(Otras(p))].precio[p] \in Int
    <3>1. Otras(p) # {}
      BY <2>2
    <3>2. Co!Max(Otras(p)) \in Otras(p)
      BY <1>9, <3>1
    <3>3. \A i \in Otras(p) : i \in 1..Len(compras) /\ p \in DOMAIN compras[i].precio
      BY <1>6
    <3> HIDE DEF Otras
    <3> QED
      BY <1>4, <3>2, <3>3
  <2> HIDE DEF afectados, Otras
  <2> QED
    BY <1>c, <2>1, <2>2
<1>12. \A p \in Materias : c[p] = IF p \in afectados THEN compras[Co!Max(Otras(p))].precio[p] ELSE costo[p]
  <2> HIDE DEF afectados, Otras
  <2> QED
    BY <1>c DEF Co!Productos
<1> HIDE DEF c
<1>13. u \in ConCosto(c)
  <2>1. t \in ConCosto(c)
    BY <1>1, <1>11, TablasTipo DEF ConCosto, TablasDe
  <2>2. afectados \in SUBSET Co!Productos
    BY <1>10 DEF Co!Productos
  <2> HIDE DEF t, afectados
  <2> QED
    BY <1>1, <2>1, <2>2, OrdenesSon, PropagarIgual
<1> HIDE DEF u
<1>14. ASSUME NEW p \in Materias \ editado', Otras(p) # {}
       PROVE  \E m \in Otras(p) : (\A i \in Otras(p) : i <= m) /\ c[p] = compras'[m].precio[p]
  <2>0. \A i \in Otras(p) : i \in 1..Len(compras) /\ i # k
    BY <1>6
  <2>1. CASE p \in afectados
    <3>1. c[p] = compras[Co!Max(Otras(p))].precio[p]
      BY <1>12, <2>1
    <3> HIDE DEF Otras, afectados
    <3> QED
      BY <1>5, <1>9, <1>14, <2>0, <3>1
  <2>2. CASE p \notin afectados
    <3>1. c[p] = costo[p]
      BY <1>12, <2>2
    <3>2. Vigentes(compras, p) # {}
      BY <1>8, <1>14
    <3>3. PICK m \in Vigentes(compras, p) :
            (\A i \in Vigentes(compras, p) : i <= m) /\ costo[p] = compras[m].precio[p]
      BY <1>2, <3>2, UltimaEs DEF CosInv, DeLaUltima
    <3>4. m # k
      <4>1. ASSUME m = k
            PROVE  FALSE
        <5>1. k \in Vigentes(compras, p)
          BY <3>3, <4>1
        <5>2. p \in DOMAIN compras[k].precio
          BY <5>1 DEF Vigentes
        <5>3. Co!Referencias(k, p) = Vigentes(compras, p)
          BY <1>8, <5>2
        <5>4. Vigentes(compras, p) \in SUBSET Nat
          BY <1>1 DEF Vigentes
        <5>5. Co!Max(Vigentes(compras, p)) = k
          BY <3>3, <4>1, <5>1, <5>4, MaxEs
        <5> QED
          BY <1>14, <2>2, <5>2, <5>3, <5>5
      <4> QED
        BY <4>1
    <3>5. m \in Otras(p) /\ Otras(p) \subseteq Vigentes(compras, p)
      BY <1>8, <3>3, <3>4
    <3> HIDE DEF Otras, afectados
    <3> QED
      BY <1>5, <2>0, <3>1, <3>3, <3>5
  <2> QED
    BY <2>1, <2>2
<1>15. \A p \in Materias \ editado' : DeLaUltima(compras', c, p)
  <2> HIDE DEF Otras
  <2> QED
    BY <1>7, <1>14 DEF DeLaUltima
<1> QED
  BY <1>2, <1>5, <1>13, <1>15, CosPasa

\* An edition: a product whose cost is edited by hand is asked nothing until it
\* is bought again.
LEMMA EditarCos ==
    ASSUME CosInv, NEW o \in Co!Ordenes, NEW q \in Materias, NEW nuevo \in Tarifas, NEW f \in Factores,
           Co!EditarProducto(q, nuevo, f, o)
    PROVE  CosInv'
<1> DEFINE t == [Co!Tablas EXCEPT !.costo[q] = nuevo, !.factor[q] = f]
           u == Co!PropagarCostoInsumos(t, {q}, o)
           c == t.costo
<1>1. CosTipo
  BY DEF CosInv
<1>2. Co!Guardar(u) /\ compras' = compras
      /\ editado' = IF nuevo = costo[q] THEN editado ELSE editado \cup {q}
  BY DEF Co!EditarProducto
<1>3. nuevo \in Int /\ f \in Int /\ q \in Co!Productos
  BY CosteoAssumption DEF Co!Productos
<1>4. t \in ConCosto(c) /\ c = [costo EXCEPT ![q] = nuevo]
  <2>1. Co!Tablas \in TablasDe /\ Co!Tablas.costo = costo
    BY <1>1, TablasTipo DEF ConCosto, Co!Tablas
  <2>2. t \in TablasDe
    BY <1>3, <2>1 DEF TablasDe
  <2>3. c = [costo EXCEPT ![q] = nuevo]
    BY <2>1 DEF TablasDe
  <2> QED
    BY <2>2, <2>3 DEF ConCosto
<1> HIDE DEF t, c
<1>5. u \in ConCosto(c)
  BY <1>1, <1>3, <1>4, OrdenesSon, PropagarIgual
<1>6. ASSUME NEW p \in Materias \ editado'
      PROVE  DeLaUltima(compras, c, p)
  <2>1. p \notin editado /\ (p = q => nuevo = costo[q])
    BY <1>2, <1>6
  <2>2. DeLaUltima(compras, costo, p)
    BY <2>1, UltimaEs DEF CosInv
  <2>3. c[p] = costo[p]
    BY <1>1, <1>3, <1>4, <2>1 DEF CosTipo, Co!Productos
  <2> QED
    BY <2>2, <2>3 DEF DeLaUltima
<1>7. compras' \in Seq(Recibida)
  BY <1>1, <1>2 DEF CosTipo
<1> HIDE DEF u
<1> QED
  BY <1>2, <1>5, <1>6, <1>7, CosPasa

\* What a recipe is given to start from.
LEMMA EscribirIgual ==
    ASSUME NEW c, NEW t \in ConCosto(c), NEW r \in Fichas, NEW lista \in [Co!Productos -> Nat]
    PROVE  Co!EscribirEscandallo(t, r, lista) \in ConCosto(c)
<1> DEFINE copias == [p \in Co!Productos |-> IF lista[p] > 0 THEN Co!CostoUtil(t, p) ELSE 0]
           u == [t EXCEPT !.detalle[r] = lista, !.snap[r] = copias]
<1>1. t \in TablasDe
  BY DEF ConCosto
<1>2. copias \in Escandallo /\ lista \in Escandallo
  <2>1. ASSUME NEW p \in Co!Productos
        PROVE  Co!CostoUtil(t, p) \in Int
    <3>1. t.costo[p] \in Int /\ t.factor[p] \in Int
      BY <1>1 DEF TablasDe
    <3> QED
      BY <3>1 DEF Co!CostoUtil
  <2> QED
    BY <2>1 DEF Escandallo
<1>3. Co!EscribirEscandallo(t, r, lista) = u
  BY DEF Co!EscribirEscandallo
<1> HIDE DEF copias
<1>4. u \in TablasDe /\ u.costo = t.costo
  BY <1>1, <1>2 DEF TablasDe
<1> QED
  BY <1>3, <1>4 DEF ConCosto

\* createConDetalle: what it makes is a product of its own.
LEMMA CrearCos ==
    ASSUME CosInv, NEW o \in Co!Ordenes, NEW r \in Fichas, NEW lista \in Escandallos[r],
           NEW prot \in Protecciones, Co!CrearReceta(r, lista, prot, o)
    PROVE  CosInv'
<1> DEFINE ficha == [Co!SinReceta EXCEPT !.estado = "existe", !.proteccion = prot]
           a == [Co!Tablas EXCEPT !.receta[r] = ficha]
           t == Co!RecalcularCostoTotal(Co!EscribirEscandallo(a, r, lista), r, o)
           w == [t EXCEPT !.costo[Produce[r]] = t.receta[r].total, !.receta[r].elaborado = Produce[r]]
<1>1. CosTipo
  BY DEF CosInv
<1>2. Co!Guardar(IF Produce[r] = Ninguno THEN t ELSE w) /\ compras' = compras /\ editado' = editado
  BY DEF Co!CrearReceta
<1>3. lista \in [Co!Productos -> Nat]
  BY CosteoAssumption DEF Co!Productos
<1>4. ficha \in Ficha
  <2>1. prot \in Int
    BY CosteoAssumption
  <2>2. Co!SinReceta \in Ficha
    BY CosteoAssumption DEF Ficha, Co!SinReceta
  <2> QED
    BY <2>1, <2>2 DEF Ficha
<1> HIDE DEF ficha
<1>5. a \in ConCosto(costo)
  BY <1>1, <1>4, TablasTipo DEF ConCosto, TablasDe
<1> HIDE DEF a
<1>6. t \in ConCosto(costo)
  BY <1>1, <1>3, <1>5, EscribirIgual, OrdenesSon, RecalcularTodoIgual
<1> HIDE DEF t
<1>7. CASE Produce[r] = Ninguno
  BY <1>2, <1>6, <1>7, CosIgual
<1>8. CASE Produce[r] # Ninguno
  <2> DEFINE e == Produce[r]
             n == t.receta[r].total
  <2>1. e \in Preparados /\ e \notin Materias
    BY <1>8, CosteoAssumption
  <2>2. t \in TablasDe /\ \A p \in Materias : t.costo[p] = costo[p]
    BY <1>6 DEF ConCosto
  <2>3. n \in Int /\ t.receta[r] \in Ficha
    BY <2>2 DEF TablasDe, Ficha
  <2> HIDE DEF e, n
  <2>4. [t.receta EXCEPT ![r].elaborado = e] \in [Fichas -> Ficha]
    BY <2>1, <2>2, <2>3 DEF TablasDe, Ficha
  <2>5. [t.costo EXCEPT ![e] = n] \in [Co!Productos -> Int]
    BY <2>2, <2>3 DEF TablasDe
  <2>6. w = [t EXCEPT !.costo = [t.costo EXCEPT ![e] = n],
                      !.receta = [t.receta EXCEPT ![r].elaborado = e]]
    BY DEF e, n
  <2>7. w \in TablasDe /\ w.costo = [t.costo EXCEPT ![e] = n]
    BY <2>2, <2>4, <2>5, <2>6 DEF TablasDe
  <2>8. \A p \in Materias : w.costo[p] = t.costo[p]
    BY <2>1, <2>2, <2>7 DEF TablasDe
  <2>9. w \in ConCosto(costo)
    BY <2>2, <2>7, <2>8 DEF ConCosto
  <2> HIDE DEF w
  <2> QED
    BY <1>2, <1>8, <2>9, CosIgual
<1> QED
  BY <1>7, <1>8

\* The rest of the operations write no cost of what is bought.
LEMMA EncabezadoCos ==
    ASSUME CosInv, NEW o \in Co!Ordenes, NEW r \in Fichas, NEW prot \in Protecciones,
           NEW rend \in Rendimientos, Co!EditarEncabezado(r, prot, rend, o)
    PROVE  CosInv'
<1> DEFINE a == [Co!Tablas EXCEPT !.receta[r].proteccion = prot, !.receta[r].rendimiento = rend]
           u == Co!RecalcularCostoTotal(a, r, o)
<1>1. CosTipo
  BY DEF CosInv
<1>2. Co!Guardar(u) /\ compras' = compras /\ editado' = editado
  BY DEF Co!EditarEncabezado
<1>3. prot \in Int /\ rend \in Nat \ {0}
  BY CosteoAssumption
<1>4. a \in ConCosto(costo)
  <2>1. Co!Tablas \in TablasDe /\ Co!Tablas.receta = receta /\ Co!Tablas.costo = costo
    BY <1>1, TablasTipo DEF ConCosto, Co!Tablas
  <2>2. [[receta EXCEPT ![r].proteccion = prot] EXCEPT ![r].rendimiento = rend] \in [Fichas -> Ficha]
    BY <1>1, <1>3 DEF CosTipo, Ficha
  <2>3. a \in TablasDe /\ a.costo = costo
    BY <2>1, <2>2 DEF TablasDe
  <2> QED
    BY <2>3 DEF ConCosto
<1> HIDE DEF a
<1>5. u \in ConCosto(costo)
  BY <1>1, <1>4, OrdenesSon, RecalcularTodoIgual
<1> HIDE DEF u
<1> QED
  BY <1>2, <1>5, CosIgual

LEMMA ReemplazarCos ==
    ASSUME CosInv, NEW o \in Co!Ordenes, NEW r \in Fichas, NEW lista \in Escandallos[r],
           Co!ReemplazarEscandallo(r, lista, o)
    PROVE  CosInv'
<1> DEFINE u == Co!RecalcularCostoTotal(Co!EscribirEscandallo(Co!Tablas, r, lista), r, o)
<1>1. CosTipo
  BY DEF CosInv
<1>2. Co!Guardar(u) /\ compras' = compras /\ editado' = editado
  BY DEF Co!ReemplazarEscandallo
<1>3. lista \in [Co!Productos -> Nat]
  BY CosteoAssumption DEF Co!Productos
<1>4. u \in ConCosto(costo)
  BY <1>1, <1>3, TablasTipo, EscribirIgual, OrdenesSon, RecalcularTodoIgual
<1> HIDE DEF u
<1> QED
  BY <1>2, <1>4, CosIgual

LEMMA BorrarCos ==
    ASSUME CosInv, NEW r \in Fichas, Co!BorrarReceta(r)
    PROVE  CosInv'
<1> DEFINE ficha == [Co!SinReceta EXCEPT !.estado = "borrada"]
           u == [Co!Tablas EXCEPT !.receta[r] = ficha,
                                  !.detalle[r] = Co!SinLista, !.snap[r] = Co!SinLista]
<1>1. CosTipo
  BY DEF CosInv
<1>2. Co!Guardar(u) /\ compras' = compras /\ editado' = editado
  BY DEF Co!BorrarReceta
<1>3. ficha \in Ficha /\ Co!SinLista \in Escandallo
  BY CosteoAssumption DEF Ficha, Co!SinReceta, Co!SinLista, Escandallo
<1> HIDE DEF ficha
<1>4. u \in ConCosto(costo)
  BY <1>1, <1>3, TablasTipo DEF ConCosto, TablasDe
<1> HIDE DEF u
<1> QED
  BY <1>2, <1>4, CosIgual

LEMMA CosInicio == Co!Init => CosInv
<1> SUFFICES ASSUME Co!Init PROVE CosInv
  OBVIOUS
<1>1. Co!SinReceta \in Ficha /\ Co!SinLista \in Escandallo
  BY DEF Ficha, Co!SinReceta, Co!SinLista, Escandallo
<1>2. CosTipo
  BY <1>1 DEF Co!Init, CosTipo
<1>3. \A p \in Materias : Vigentes(compras, p) = {}
  BY DEF Co!Init, Vigentes
<1>4. \A p \in Materias \ editado : DeLaUltima(compras, costo, p)
  BY <1>3 DEF DeLaUltima
<1> QED
  BY <1>2, <1>4, UltimaEs DEF CosInv

LEMMA CosPaso == CosInv /\ [Co!Next]_deCosteo => CosInv'
<1> SUFFICES ASSUME CosInv, [Co!Next]_deCosteo PROVE CosInv'
  OBVIOUS
<1>1. CASE UNCHANGED deCosteo
  BY <1>1 DEF deCosteo, CosInv, CosTipo, CostoDeLaUltimaCompra, Co!CostoDeLaUltimaCompra
<1>2. CASE Co!Next
  <2>1. ASSUME NEW o \in Co!Ordenes, NEW ps \in (SUBSET Materias) \ {{}},
               NEW precios \in [ps -> Tarifas], Co!Comprar(precios, o)
        PROVE  CosInv'
    BY <2>1, ComprarCos
  <2>2. ASSUME NEW o \in Co!Ordenes, NEW k \in 1..Len(compras), Co!AnularCompra(k, o)
        PROVE  CosInv'
    BY <2>2, AnularCos
  <2>3. ASSUME NEW o \in Co!Ordenes, NEW q \in Materias, NEW nuevo \in Tarifas,
               NEW f \in Factores, Co!EditarProducto(q, nuevo, f, o)
        PROVE  CosInv'
    BY <2>3, EditarCos
  <2>4. ASSUME NEW o \in Co!Ordenes, NEW r \in Fichas, NEW lista \in Escandallos[r],
               \/ \E prot \in Protecciones : Co!CrearReceta(r, lista, prot, o)
               \/ Co!ReemplazarEscandallo(r, lista, o)
        PROVE  CosInv'
    BY <2>4, CrearCos, ReemplazarCos
  <2>5. ASSUME NEW o \in Co!Ordenes, NEW r \in Fichas, NEW prot \in Protecciones,
               NEW rend \in Rendimientos, Co!EditarEncabezado(r, prot, rend, o)
        PROVE  CosInv'
    BY <2>5, EncabezadoCos
  <2>6. ASSUME NEW r \in Fichas, Co!BorrarReceta(r)
        PROVE  CosInv'
    BY <2>6, BorrarCos
  <2> QED
    BY <1>2, <2>1, <2>2, <2>3, <2>4, <2>5, <2>6 DEF Co!Next
<1> QED
  BY <1>1, <1>2

-----------------------------------------------------------------------------
(* Cascadas                                                                *)

\* A sequence of whatever its values are.
EsSeq(s) == s \in Seq({s[i] : i \in 1..Len(s)})

Campos == {"activa", "edita", "pila", "filas", "costo", "copia", "total", "vistos"}

\* A purchase at its lines: the rows of inventario that it still has to take go
\* up and are past the ones it holds, the cost of a product is written after its
\* row of inventario is taken, and the cascade is last.
CadaLinea(t) ==
    \A i \in 1..Len(t.pila) :
        /\ t.pila[i][1] \in {"inventario", "productos", "copias"}
        /\ t.pila[i][1] # "copias" => t.pila[i][2] \in Insumos
        /\ t.pila[i][1] = "copias" => i = Len(t.pila) /\ t.pila[i][2] # {}
PasadosLosTomados(t) ==
    \A i \in 1..Len(t.pila), p \in Insumos :
        t.pila[i][1] = "inventario" /\ <<"inventario", p>> \in t.filas => p < t.pila[i][2]
Suben(t) ==
    \A i, j \in 1..Len(t.pila) :
        i < j /\ t.pila[i][1] = "inventario" /\ t.pila[j][1] = "inventario"
            => t.pila[i][2] < t.pila[j][2]
TrasSuRenglon(t) ==
    \A i \in 1..Len(t.pila) :
        t.pila[i][1] = "productos" =>
             \/ <<"inventario", t.pila[i][2]>> \in t.filas
             \/ \E j \in 1..Len(t.pila) :
                  j < i /\ t.pila[j][1] = "inventario" /\ t.pila[j][2] = t.pila[i][2]
EnLineas(t) ==
    /\ t.filas \subseteq {"inventario", "productos"} \X Insumos
    /\ CadaLinea(t) /\ PasadosLosTomados(t) /\ Suben(t) /\ TrasSuRenglon(t)

\* A purchase at its cascade only takes rows of products that are made, and of
\* recipes.
DeCascada(s) ==
    \A i \in 1..Len(s) :
        /\ s[i][1] \in {"productos", "copias", "sumar", "recetas"}
        /\ s[i][1] = "productos" => s[i][2] \in Cd!Elaborados
        /\ s[i][1] \in {"sumar", "recetas"} => s[i][2] \in Recetas

\* Whoever holds a bought product holds its row of inventario.
ConSuRenglon(t) ==
    \A p \in Insumos : <<"productos", p>> \in t.filas => <<"inventario", p>> \in t.filas

\* A transaction that is not the edition of a product.
BienTx(t) ==
    ~t.edita => /\ t.vistos = {} => EnLineas(t)
                /\ t.vistos # {} => DeCascada(t.pila)
                /\ ConSuRenglon(t)

CasForma ==
    /\ DOMAIN txs = Conexiones
    /\ \A x \in Conexiones : DOMAIN txs[x] = Campos /\ EsSeq(txs[x].pila)

CasInv ==
    /\ CasForma
    /\ \A x \in Conexiones : BienTx(txs[x])
    /\ \A x, y \in Conexiones : x # y => txs[x].filas \cap txs[y].filas = {}

-----------------------------------------------------------------------------
LEMMA EsSeqDe == \A U : \A s \in Seq(U) : EsSeq(s)
<1> SUFFICES ASSUME NEW U, NEW s \in Seq(U) PROVE EsSeq(s)
  OBVIOUS
<1>1. s \in [1..Len(s) -> {s[i] : i \in 1..Len(s)}] /\ Len(s) \in Nat
  OBVIOUS
<1> QED
  BY <1>1 DEF EsSeq

\* A function on the first naturals is one.
LEMMA EsSeqFun ==
    ASSUME NEW n \in Nat, NEW f, f = [i \in 1..n |-> f[i]]
    PROVE  EsSeq(f) /\ Len(f) = n
<1>1. f \in [1..n -> {f[i] : i \in 1..n}]
  OBVIOUS
<1>2. f \in Seq({f[i] : i \in 1..n}) /\ Len(f) = n
  BY <1>1
<1> QED
  BY <1>2, EsSeqDe

\* One sequence after another.
LEMMA Pegar ==
    ASSUME NEW s, NEW t, EsSeq(s), EsSeq(t)
    PROVE  /\ EsSeq(s \o t)
           /\ Len(s) \in Nat /\ Len(t) \in Nat
           /\ Len(s \o t) = Len(s) + Len(t)
           /\ \A i \in 1..(Len(s) + Len(t)) :
                (s \o t)[i] = IF i <= Len(s) THEN s[i] ELSE t[i - Len(s)]
<1> DEFINE A == {s[i] : i \in 1..Len(s)}
           B == {t[i] : i \in 1..Len(t)}
<1>1. s \in Seq(A \cup B) /\ t \in Seq(A \cup B)
  <2>1. s \in Seq(A) /\ t \in Seq(B)
    BY DEF EsSeq
  <2> QED
    BY <2>1
<1> HIDE DEF A, B
<1>2. s \o t \in Seq(A \cup B)
  BY <1>1
<1>3. EsSeq(s \o t)
  BY <1>2, EsSeqDe
<1> QED
  BY <1>1, <1>3

LEMMA Colita ==
    ASSUME NEW s, EsSeq(s), s # <<>>
    PROVE  /\ EsSeq(Tail(s))
           /\ Len(s) \in Nat \ {0}
           /\ Len(Tail(s)) = Len(s) - 1
           /\ \A i \in 1..(Len(s) - 1) : Tail(s)[i] = s[i + 1]
<1> DEFINE A == {s[i] : i \in 1..Len(s)}
<1>1. s \in Seq(A)
  BY DEF EsSeq
<1> HIDE DEF A
<1>2. Tail(s) \in Seq(A)
  BY <1>1
<1>3. EsSeq(Tail(s))
  BY <1>2, EsSeqDe
<1> QED
  BY <1>1, <1>3

\* What is left to do after the first statement, with others before.
LEMMA Resto ==
    ASSUME NEW s, NEW t, EsSeq(s), EsSeq(t), s # <<>>
    PROVE  /\ EsSeq(t \o Tail(s))
           /\ Len(s) \in Nat \ {0} /\ Len(t) \in Nat
           /\ Len(t \o Tail(s)) = Len(t) + Len(s) - 1
           /\ \A i \in 1..(Len(t) + Len(s) - 1) :
                (t \o Tail(s))[i] = IF i <= Len(t) THEN t[i] ELSE s[i - Len(t) + 1]
<1>1. EsSeq(Tail(s)) /\ Len(s) \in Nat \ {0} /\ Len(Tail(s)) = Len(s) - 1
      /\ \A i \in 1..(Len(s) - 1) : Tail(s)[i] = s[i + 1]
  BY Colita
<1>2. /\ EsSeq(t \o Tail(s)) /\ Len(t) \in Nat
      /\ Len(t \o Tail(s)) = Len(t) + Len(Tail(s))
      /\ \A i \in 1..(Len(t) + Len(Tail(s))) :
           (t \o Tail(s))[i] = IF i <= Len(t) THEN t[i] ELSE Tail(s)[i - Len(t)]
  BY <1>1, Pegar
<1>3. ASSUME NEW i \in 1..(Len(t) + Len(s) - 1), i > Len(t)
      PROVE  Tail(s)[i - Len(t)] = s[i - Len(t) + 1]
  <2>1. i - Len(t) \in 1..(Len(s) - 1)
    BY <1>1, <1>2, <1>3
  <2> QED
    BY <2>1, <1>1
<1> QED
  BY <1>1, <1>2, <1>3

\* The transaction of x becomes n.
LEMMA CasSigue ==
    ASSUME CasInv, NEW x \in Conexiones, NEW n, txs' = [txs EXCEPT ![x] = n],
           DOMAIN n = Campos, EsSeq(n.pila), BienTx(n),
           \A y \in Conexiones \ {x} : n.filas \cap txs[y].filas = {}
    PROVE  CasInv'
<1>1. DOMAIN txs' = Conexiones /\ txs'[x] = n
      /\ \A y \in Conexiones : y # x => txs'[y] = txs[y]
  BY DEF CasInv, CasForma
<1>2. CasForma'
  BY <1>1 DEF CasInv, CasForma
<1>3. ASSUME NEW y \in Conexiones PROVE BienTx(txs'[y])
  <2>1. CASE y = x
    BY <1>1, <2>1
  <2>2. CASE y # x
    <3>1. BienTx(txs[y])
      BY DEF CasInv
    <3>2. txs'[y] = txs[y]
      BY <1>1, <2>2, SMTT(30)
    <3> QED
      BY <3>1, <3>2
  <2> QED
    BY <2>1, <2>2
<1>4. \A y \in Conexiones : BienTx(txs[y])'
  BY <1>3 DEF BienTx, EnLineas, CadaLinea, PasadosLosTomados, Suben, TrasSuRenglon,
     DeCascada, ConSuRenglon, Cd!Elaborados
<1>5. \A y, z \in Conexiones : y # z => txs'[y].filas \cap txs'[z].filas = {}
  BY <1>1 DEF CasInv
<1> QED
  BY <1>2, <1>4, <1>5 DEF CasInv

\* No transaction.
LEMMA CasVacia ==
    /\ DOMAIN Cd!SinTx = Campos /\ EsSeq(Cd!SinTx.pila) /\ BienTx(Cd!SinTx)
    /\ Cd!SinTx.filas = {}
<1>1. EsSeq(<<>>)
  <2>1. <<>> \in Seq({})
    OBVIOUS
  <2> QED
    BY <2>1, EsSeqDe
<1>2. DOMAIN Cd!SinTx = Campos /\ Cd!SinTx.pila = <<>> /\ Cd!SinTx.filas = {}
      /\ Cd!SinTx.vistos = {}
  BY DEF Cd!SinTx, Campos
<1>3. Len(<<>>) = 0
  OBVIOUS
<1> QED
  BY <1>1, <1>2, <1>3 DEF BienTx, EnLineas, CadaLinea, PasadosLosTomados, Suben, TrasSuRenglon,
     ConSuRenglon

LEMMA CasInicio == Cd!Init => CasInv
<1> SUFFICES ASSUME Cd!Init PROVE CasInv
  OBVIOUS
<1>1. DOMAIN txs = Conexiones /\ \A x \in Conexiones : txs[x] = Cd!SinTx
  BY DEF Cd!Init
<1> HIDE DEF Cd!SinTx
<1> QED
  BY <1>1, CasVacia DEF CasInv, CasForma

-----------------------------------------------------------------------------
(* The beginning of a transaction.                                         *)

\* The lines of a purchase, before its cascade.
LineasBien(s) ==
    \A i \in 1..Len(s) :
        /\ s[i][1] \in {"inventario", "productos"}
        /\ s[i][2] \in Insumos
        /\ s[i][1] = "inventario" =>
             \A j \in 1..Len(s) : i < j /\ s[j][1] = "inventario" => s[i][2] < s[j][2]
        /\ s[i][1] = "productos" =>
             \E j \in 1..Len(s) : j < i /\ s[j][1] = "inventario" /\ s[j][2] = s[i][2]

LEMMA CasEmpezar ==
    ASSUME CasInv, NEW x \in Conexiones, NEW edita, NEW s, NEW ps,
           EsSeq(s), ps # {}, ~edita => LineasBien(s), Cd!Empezar(x, edita, s, ps)
    PROVE  CasInv'
<1> DEFINE c == <<"copias", ps, 0>>
           n == [Cd!SinTx EXCEPT !.activa = TRUE, !.edita = edita, !.pila = s \o <<c>>]
<1>1. txs' = [txs EXCEPT ![x] = n]
  BY DEF Cd!Empezar
<1>2. /\ DOMAIN n = Campos /\ n.pila = s \o <<c>> /\ n.filas = {} /\ n.vistos = {}
      /\ n.edita = edita
  BY DEF Cd!SinTx, Campos
<1>3. EsSeq(<<c>>) /\ Len(<<c>>) = 1 /\ <<c>>[1] = c
  <2>1. <<c>> \in Seq({c})
    OBVIOUS
  <2> QED
    BY <2>1, EsSeqDe
<1>4. /\ EsSeq(n.pila) /\ Len(s) \in Nat /\ Len(n.pila) = Len(s) + 1
      /\ \A i \in 1..(Len(s) + 1) : n.pila[i] = IF i <= Len(s) THEN s[i] ELSE c
  <2>1. /\ EsSeq(s \o <<c>>) /\ Len(s) \in Nat /\ Len(s \o <<c>>) = Len(s) + 1
        /\ \A i \in 1..(Len(s) + 1) :
             (s \o <<c>>)[i] = IF i <= Len(s) THEN s[i] ELSE <<c>>[i - Len(s)]
    BY <1>3, Pegar
  <2>2. \A i \in 1..(Len(s) + 1) : ~(i <= Len(s)) => i - Len(s) = 1
    BY <2>1
  <2> QED
    BY <1>2, <1>3, <2>1, <2>2
<1>5. c[1] = "copias" /\ c[2] = ps
  OBVIOUS
<1> HIDE DEF n, c
<1>6. ~edita => EnLineas(n)
  <2> SUFFICES ASSUME ~edita PROVE EnLineas(n)
    OBVIOUS
  <2>1. LineasBien(s)
    OBVIOUS
  <2>2. ASSUME NEW i \in 1..Len(n.pila)
        PROVE  /\ n.pila[i][1] \in {"inventario", "productos", "copias"}
               /\ n.pila[i][1] # "copias" => n.pila[i][2] \in Insumos
               /\ n.pila[i][1] = "copias" => i = Len(n.pila) /\ n.pila[i][2] # {}
    BY <2>1, <1>4, <1>5 DEF LineasBien
  <2>3. ASSUME NEW i \in 1..Len(n.pila), NEW j \in 1..Len(n.pila), i < j,
               n.pila[i][1] = "inventario", n.pila[j][1] = "inventario"
        PROVE  n.pila[i][2] < n.pila[j][2]
    <3>1. i \in 1..Len(s) /\ j \in 1..Len(s) /\ n.pila[i] = s[i] /\ n.pila[j] = s[j]
      BY <2>3, <1>4, <1>5
    <3> QED
      BY <3>1, <2>1, <2>3 DEF LineasBien
  <2>4. ASSUME NEW i \in 1..Len(n.pila), n.pila[i][1] = "productos"
        PROVE  \E j \in 1..Len(n.pila) :
                 j < i /\ n.pila[j][1] = "inventario" /\ n.pila[j][2] = n.pila[i][2]
    <3>1. i \in 1..Len(s) /\ n.pila[i] = s[i]
      BY <2>4, <1>4, <1>5
    <3>2. PICK j \in 1..Len(s) : j < i /\ s[j][1] = "inventario" /\ s[j][2] = s[i][2]
      BY <3>1, <2>1, <2>4 DEF LineasBien
    <3>3. j \in 1..Len(n.pila) /\ n.pila[j] = s[j]
      BY <1>4
    <3> QED
      BY <3>1, <3>2, <3>3
  <2> QED
    BY <1>2, <2>2, <2>3, <2>4
    DEF EnLineas, CadaLinea, PasadosLosTomados, Suben, TrasSuRenglon
<1>7. BienTx(n)
  BY <1>2, <1>6 DEF BienTx, ConSuRenglon
<1> QED
  BY <1>1, <1>2, <1>4, <1>7, CasSigue

LEMMA CardinalDeCas == \A S : Cd!Cardinality(S) = Cardinality(S)
BY DEF Cd!Cardinality, Cardinality

\* A set in some order.
LEMMA CasOrden ==
    ASSUME NEW S, IsFiniteSet(S), NEW orden \in Cd!SetToSeqs(S)
    PROVE  /\ orden \in Seq(S) /\ DOMAIN orden = 1..Len(orden) /\ Len(orden) \in Nat
           /\ \A i \in 1..Len(orden) : orden[i] \in S
<1>1. Cardinality(S) \in Nat
  BY FS_CardinalityType
<1>2. orden \in [1..Cardinality(S) -> S]
  BY CardinalDeCas DEF Cd!SetToSeqs
<1> QED
  BY <1>1, <1>2

\* The lines of a purchase in order.
LEMMA CasLineas ==
    ASSUME NEW ps \in SUBSET Insumos, NEW lineas \in Cd!EnOrden(ps)
    PROVE  /\ Len(lineas) \in Nat
           /\ \A i \in 1..Len(lineas) : lineas[i] \in Insumos /\ lineas[i] \in Int
           /\ \A i, j \in 1..Len(lineas) : i < j => lineas[i] < lineas[j]
<1>1. IsFiniteSet(ps)
  BY FS_Subset, CascadasAssumption
<1>2. lineas \in Cd!SetToSeqs(ps)
      /\ \A i, j \in DOMAIN lineas : i < j => lineas[i] < lineas[j]
  BY DEF Cd!EnOrden
<1> QED
  BY <1>1, <1>2, CasOrden, CascadasAssumption

\* The lines of two statements on inventario.
LEMMA Mitades ==
    ASSUME NEW i \in Nat, NEW j \in Nat, i % 2 = 1, j % 2 = 1, i < j
    PROVE  (i + 1) \div 2 < (j + 1) \div 2
<1>1. i + 1 = 2 * ((i + 1) \div 2) /\ j + 1 = 2 * ((j + 1) \div 2)
  OBVIOUS
<1>2. (i + 1) \div 2 \in Int /\ (j + 1) \div 2 \in Int
  OBVIOUS
<1> QED
  BY <1>1, <1>2

LEMMA CasComprar ==
    ASSUME CasInv, NEW x \in Conexiones, NEW ps \in (SUBSET Insumos) \ {{}}, NEW valor,
           Cd!Comprar(x, ps, valor)
    PROVE  CasInv'
<1>1. PICK lineas \in Cd!EnOrden(ps) :
        Cd!Empezar(x, FALSE, Cd!SentenciasDeCompra(lineas, valor), ps)
  BY DEF Cd!Comprar
<1> DEFINE s == Cd!SentenciasDeCompra(lineas, valor)
           m == Len(lineas)
<1>2. /\ m \in Nat /\ \A i \in 1..m : lineas[i] \in Insumos /\ lineas[i] \in Int
      /\ \A i, j \in 1..m : i < j => lineas[i] < lineas[j]
  BY CasLineas
<1>3. EsSeq(s) /\ Len(s) = 2 * m
  <2>1. s = [k \in 1..2 * m |-> s[k]]
    BY DEF Cd!SentenciasDeCompra
  <2>2. 2 * m \in Nat
    BY <1>2
  <2> HIDE DEF s, m
  <2> QED
    BY <2>1, <2>2, EsSeqFun
<1>4. ASSUME NEW k \in 1..2 * m
      PROVE  /\ (k + 1) \div 2 \in 1..m
             /\ k % 2 = 1 => s[k][1] = "inventario" /\ s[k][2] = lineas[(k + 1) \div 2]
             /\ k % 2 # 1 => s[k][1] = "productos" /\ s[k][2] = lineas[(k + 1) \div 2]
  <2>1. (k + 1) \div 2 \in 1..m
    BY <1>2
  <2>2. s[k] = IF k % 2 = 1 THEN <<"inventario", lineas[(k + 1) \div 2], 0>>
                            ELSE <<"productos", lineas[(k + 1) \div 2], valor>>
    BY DEF Cd!SentenciasDeCompra, Cd!Renglon, Cd!Costear
  <2> QED
    BY <2>1, <2>2
<1> HIDE DEF s
<1>5. LineasBien(s)
  <2>1. ASSUME NEW i \in 1..2 * m
        PROVE  s[i][1] \in {"inventario", "productos"} /\ s[i][2] \in Insumos
    <3>1. i % 2 = 1 \/ i % 2 # 1
      OBVIOUS
    <3> QED
      BY <1>4, <1>2, <3>1
  <2>2. ASSUME NEW i \in 1..2 * m, NEW j \in 1..2 * m, i < j, s[i][1] = "inventario",
               s[j][1] = "inventario"
        PROVE  s[i][2] < s[j][2]
    <3>1. i % 2 = 1 /\ j % 2 = 1
      BY <1>4, <2>2
    <3>2. (i + 1) \div 2 < (j + 1) \div 2
      <4>1. i \in Nat /\ j \in Nat /\ i < j
        BY <1>2, <2>2
      <4> QED
        BY <3>1, <4>1, Mitades
    <3> QED
      BY <3>1, <3>2, <1>4, <1>2
  <2>3. ASSUME NEW i \in 1..2 * m, s[i][1] = "productos"
        PROVE  \E j \in 1..2 * m : j < i /\ s[j][1] = "inventario" /\ s[j][2] = s[i][2]
    <3>1. i % 2 # 1
      BY <1>4, <2>3
    <3>2. i - 1 \in 1..2 * m /\ (i - 1) % 2 = 1 /\ (i - 1 + 1) \div 2 = (i + 1) \div 2
      BY <3>1, <1>2
    <3>3. i - 1 < i
      OBVIOUS
    <3>4. s[i][2] = lineas[(i + 1) \div 2]
      BY <3>1, <1>4
    <3>5. s[i - 1][1] = "inventario" /\ s[i - 1][2] = lineas[(i - 1 + 1) \div 2]
      BY <3>2, <1>4
    <3> QED
      BY <3>2, <3>3, <3>4, <3>5
  <2> QED
    BY <1>3, <2>1, <2>2, <2>3 DEF LineasBien
<1> QED
  BY <1>1, <1>3, <1>5, CasEmpezar DEF s

LEMMA CasAnular ==
    ASSUME CasInv, NEW x \in Conexiones, NEW ps \in (SUBSET Insumos) \ {{}}, NEW valor,
           Cd!AnularCompra(x, ps, valor)
    PROVE  CasInv'
<1>1. PICK lineas \in Cd!EnOrden(ps) :
        Cd!Empezar(x, FALSE, Cd!SentenciasDeAnulacion(lineas, valor), ps)
  BY DEF Cd!AnularCompra
<1> DEFINE s == Cd!SentenciasDeAnulacion(lineas, valor)
           m == Len(lineas)
           u == [k \in 1..m |-> <<"inventario", lineas[k], 0>>]
           v == [k \in 1..m |-> <<"productos", lineas[k], valor>>]
<1>2. /\ m \in Nat /\ \A i \in 1..m : lineas[i] \in Insumos /\ lineas[i] \in Int
      /\ \A i, j \in 1..m : i < j => lineas[i] < lineas[j]
  BY CasLineas
<1>3. s = u \o v
  BY DEF Cd!SentenciasDeAnulacion, Cd!Renglon, Cd!Costear
<1>4. EsSeq(u) /\ EsSeq(v) /\ Len(u) = m /\ Len(v) = m
  <2>1. u \in Seq({u[i] : i \in 1..m}) /\ Len(u) = m
    BY <1>2
  <2>2. v \in Seq({v[i] : i \in 1..m}) /\ Len(v) = m
    BY <1>2
  <2> QED
    BY <2>1, <2>2, EsSeqDe
<1>5. \A i \in 1..m : /\ u[i][1] = "inventario" /\ u[i][2] = lineas[i]
                      /\ v[i][1] = "productos" /\ v[i][2] = lineas[i]
  OBVIOUS
<1> HIDE DEF s, u, v
<1>6. EsSeq(s) /\ Len(s) = m + m
      /\ \A i \in 1..(m + m) : s[i] = IF i <= m THEN u[i] ELSE v[i - m]
  BY <1>3, <1>4, Pegar
<1>7. ASSUME NEW i \in 1..(m + m)
      PROVE  /\ i <= m => s[i][1] = "inventario" /\ s[i][2] = lineas[i]
             /\ ~(i <= m) => /\ i - m \in 1..m
                             /\ s[i][1] = "productos" /\ s[i][2] = lineas[i - m]
  <2>1. i <= m => i \in 1..m
    BY <1>2
  <2>2. ~(i <= m) => i - m \in 1..m
    BY <1>2
  <2> QED
    BY <2>1, <2>2, <1>5, <1>6
<1>8. LineasBien(s)
  <2>1. ASSUME NEW i \in 1..(m + m)
        PROVE  s[i][1] \in {"inventario", "productos"} /\ s[i][2] \in Insumos
    <3>1. i <= m => i \in 1..m
      BY <1>2
    <3> QED
      BY <1>7, <1>2, <3>1
  <2>2. ASSUME NEW i \in 1..(m + m), NEW j \in 1..(m + m), i < j, s[i][1] = "inventario",
               s[j][1] = "inventario"
        PROVE  s[i][2] < s[j][2]
    <3>1. i <= m /\ j <= m
      BY <1>7, <2>2
    <3> QED
      BY <3>1, <2>2, <1>7, <1>2
  <2>3. ASSUME NEW i \in 1..(m + m), s[i][1] = "productos"
        PROVE  \E j \in 1..(m + m) : j < i /\ s[j][1] = "inventario" /\ s[j][2] = s[i][2]
    <3>1. ~(i <= m) /\ i - m \in 1..m /\ s[i][2] = lineas[i - m]
      BY <1>7, <2>3
    <3>2. i - m \in 1..(m + m) /\ i - m < i /\ i - m <= m
      BY <3>1, <1>2
    <3>3. s[i - m][1] = "inventario" /\ s[i - m][2] = lineas[i - m]
      BY <3>2, <1>7
    <3> QED
      BY <3>1, <3>2, <3>3
  <2> QED
    BY <1>6, <2>1, <2>2, <2>3 DEF LineasBien
<1> QED
  BY <1>1, <1>6, <1>8, CasEmpezar DEF s

LEMMA CasEditar ==
    ASSUME CasInv, NEW x \in Conexiones, NEW p, NEW valor, Cd!EditarProducto(x, p, valor)
    PROVE  CasInv'
<1> DEFINE s == <<Cd!Costear(p, valor), Cd!Renglon(p)>>
<1>1. EsSeq(s)
  <2>1. s \in Seq({Cd!Costear(p, valor), Cd!Renglon(p)})
    OBVIOUS
  <2> QED
    BY <2>1, EsSeqDe
<1>2. Cd!Empezar(x, TRUE, s, {p})
  BY DEF Cd!EditarProducto
<1> HIDE DEF s
<1> QED
  BY <1>1, <1>2, CasEmpezar

-----------------------------------------------------------------------------
(* The statements.                                                         *)

\* A statement is done: its row is taken and the rest is left, whatever else of
\* the transaction changes to v.
LEMMA CasHecha ==
    ASSUME CasInv, NEW x \in Conexiones, NEW que, Cd!Sentencia(x, que), NEW t, EsSeq(t)
    PROVE  LET n == Cd!Hecha(x, t)
               s == txs[x].pila
           IN  /\ DOMAIN n = Campos
               /\ n.edita = txs[x].edita /\ n.vistos = txs[x].vistos
               /\ n.filas = txs[x].filas \cup Cd!Pide(x)
               /\ \A y \in Conexiones \ {x} : n.filas \cap txs[y].filas = {}
               /\ Len(s) \in Nat \ {0} /\ Len(t) \in Nat /\ s[1][1] = que
               /\ EsSeq(n.pila)
               /\ Len(n.pila) = Len(t) + Len(s) - 1
               /\ \A i \in 1..(Len(t) + Len(s) - 1) :
                    n.pila[i] = IF i <= Len(t) THEN t[i] ELSE s[i - Len(t) + 1]
<1> DEFINE n == Cd!Hecha(x, t)
           s == txs[x].pila
<1>1. DOMAIN txs[x] = Campos /\ EsSeq(s)
  BY DEF CasInv, CasForma
<1>2. s # <<>> /\ s[1][1] = que /\ Cd!Espera(x) = {}
  BY DEF Cd!Sentencia
<1>3. /\ DOMAIN n = Campos /\ n.pila = t \o Tail(s)
      /\ n.edita = txs[x].edita /\ n.vistos = txs[x].vistos
      /\ n.filas = txs[x].filas \cup Cd!Pide(x)
  BY <1>1 DEF Cd!Hecha, Campos
<1>4. \A y \in Conexiones \ {x} : n.filas \cap txs[y].filas = {}
  <2>1. \A y \in Conexiones \ {x} : Cd!Pide(x) \cap txs[y].filas = {}
    BY <1>2 DEF Cd!Espera
  <2>2. \A y \in Conexiones \ {x} : txs[x].filas \cap txs[y].filas = {}
    BY DEF CasInv
  <2> QED
    BY <1>3, <2>1, <2>2
<1> HIDE DEF n, s
<1>5. /\ EsSeq(t \o Tail(s))
      /\ Len(s) \in Nat \ {0} /\ Len(t) \in Nat
      /\ Len(t \o Tail(s)) = Len(t) + Len(s) - 1
      /\ \A i \in 1..(Len(t) + Len(s) - 1) :
           (t \o Tail(s))[i] = IF i <= Len(t) THEN t[i] ELSE s[i - Len(t) + 1]
  BY <1>1, <1>2, Resto
<1> QED
  BY <1>2, <1>3, <1>4, <1>5 DEF n, s

\* The empty sequence.
SinNada(s) == Len(s) = 0
LEMMA Vacia == EsSeq(<<>>) /\ Len(<<>>) = 0
<1>1. <<>> \in Seq({})
  OBVIOUS
<1> QED
  BY <1>1, EsSeqDe

\* What is left of the lines of a purchase when their first statement is done.
LEMMA LineasSiguen ==
    ASSUME NEW t, NEW n, t.vistos = {}, EnLineas(t), ConSuRenglon(t),
           Len(t.pila) \in Nat \ {0}, t.pila[1][1] # "copias",
           n.filas = t.filas \cup {<<t.pila[1][1], t.pila[1][2]>>},
           Len(n.pila) = Len(t.pila) - 1,
           \A i \in 1..(Len(t.pila) - 1) : n.pila[i] = t.pila[i + 1]
    PROVE  EnLineas(n) /\ ConSuRenglon(n)
<1> DEFINE q == t.pila[1][2]
           m == Len(t.pila)
<1>1. q \in Insumos /\ t.pila[1][1] \in {"inventario", "productos"} /\ 1 \in 1..m
  <2>1. 1 \in 1..m
    OBVIOUS
  <2> QED
    BY <2>1 DEF EnLineas, CadaLinea
<1>2. n.filas \subseteq {"inventario", "productos"} \X Insumos
  BY <1>1 DEF EnLineas
<1>3. ASSUME NEW i \in 1..Len(n.pila)
      PROVE  i + 1 \in 1..m /\ n.pila[i] = t.pila[i + 1]
  OBVIOUS
<1>4. CadaLinea(n)
  <2> SUFFICES ASSUME NEW i \in 1..Len(n.pila)
               PROVE  /\ n.pila[i][1] \in {"inventario", "productos", "copias"}
                      /\ n.pila[i][1] # "copias" => n.pila[i][2] \in Insumos
                      /\ n.pila[i][1] = "copias" => i = Len(n.pila) /\ n.pila[i][2] # {}
    BY DEF CadaLinea
  <2>1. i + 1 \in 1..m /\ n.pila[i] = t.pila[i + 1]
    BY <1>3
  <2>2. i + 1 = m => i = Len(n.pila)
    OBVIOUS
  <2> QED
    BY <2>1, <2>2 DEF EnLineas, CadaLinea
<1>5. PasadosLosTomados(n)
  <2> SUFFICES ASSUME NEW i \in 1..Len(n.pila), NEW p \in Insumos,
                      n.pila[i][1] = "inventario", <<"inventario", p>> \in n.filas
               PROVE  p < n.pila[i][2]
    BY DEF PasadosLosTomados
  <2>1. i + 1 \in 1..m /\ n.pila[i] = t.pila[i + 1] /\ 1 < i + 1
    BY <1>3
  <2>2. CASE <<"inventario", p>> \in t.filas
    BY <2>1, <2>2 DEF EnLineas, PasadosLosTomados
  <2>3. CASE t.pila[1][1] = "inventario" /\ p = q
    BY <1>1, <2>1, <2>3 DEF EnLineas, Suben
  <2> QED
    BY <2>2, <2>3
<1>8. Suben(n)
  <2> SUFFICES ASSUME NEW i \in 1..Len(n.pila), NEW j \in 1..Len(n.pila), i < j,
                      n.pila[i][1] = "inventario", n.pila[j][1] = "inventario"
               PROVE  n.pila[i][2] < n.pila[j][2]
    BY DEF Suben
  <2>1. /\ i + 1 \in 1..m /\ n.pila[i] = t.pila[i + 1]
        /\ j + 1 \in 1..m /\ n.pila[j] = t.pila[j + 1] /\ i + 1 < j + 1
    BY <1>3
  <2> QED
    BY <2>1 DEF EnLineas, Suben
<1>6. TrasSuRenglon(n)
  <2> SUFFICES ASSUME NEW i \in 1..Len(n.pila), n.pila[i][1] = "productos"
               PROVE  \/ <<"inventario", n.pila[i][2]>> \in n.filas
                      \/ \E j \in 1..Len(n.pila) :
                           /\ j < i /\ n.pila[j][1] = "inventario"
                           /\ n.pila[j][2] = n.pila[i][2]
    BY DEF TrasSuRenglon
  <2>1. i + 1 \in 1..m /\ n.pila[i] = t.pila[i + 1]
    BY <1>3
  <2>2. CASE <<"inventario", t.pila[i + 1][2]>> \in t.filas
    BY <2>1, <2>2
  <2>3. ASSUME NEW j \in 1..m, j < i + 1, t.pila[j][1] = "inventario",
               t.pila[j][2] = t.pila[i + 1][2], j # 1
        PROVE  \E k \in 1..Len(n.pila) :
                 k < i /\ n.pila[k][1] = "inventario" /\ n.pila[k][2] = n.pila[i][2]
    <3>0. m \in Nat /\ Len(n.pila) = m - 1 /\ i \in 1..(m - 1) /\ j \in 1..m /\ j < i + 1 /\ j # 1
      BY <2>3
    <3>1. j - 1 \in 1..Len(n.pila) /\ j - 1 < i /\ (j - 1) + 1 = j
      <4> HIDE DEF m
      <4> QED
        BY <3>0
    <3>2. n.pila[j - 1] = t.pila[j]
      BY <3>1, <1>3
    <3> QED
      BY <2>1, <2>3, <3>1, <3>2
  <2>4. CASE t.pila[1][1] = "inventario" /\ q = t.pila[i + 1][2]
    BY <2>1, <2>4
  <2>5. \/ <<"inventario", t.pila[i + 1][2]>> \in t.filas
        \/ \E j \in 1..m : j < i + 1 /\ t.pila[j][1] = "inventario"
                             /\ t.pila[j][2] = t.pila[i + 1][2]
    BY <2>1 DEF EnLineas, TrasSuRenglon
  <2> QED
    BY <2>2, <2>3, <2>4, <2>5
<1>7. ConSuRenglon(n)
  <2> SUFFICES ASSUME NEW p \in Insumos, <<"productos", p>> \in n.filas
               PROVE  <<"inventario", p>> \in n.filas
    BY DEF ConSuRenglon
  <2>1. CASE <<"productos", p>> \in t.filas
    BY <2>1 DEF ConSuRenglon
  <2>2. CASE t.pila[1][1] = "productos" /\ p = q
    <3>1. <<"inventario", q>> \in t.filas
      <4>1. ~ \E j \in 1..m : j < 1
        OBVIOUS
      <4> QED
        BY <1>1, <2>2, <4>1 DEF EnLineas, TrasSuRenglon
    <3> QED
      BY <2>2, <3>1
  <2> QED
    BY <2>1, <2>2
<1> QED
  BY <1>2, <1>4, <1>5, <1>6, <1>7, <1>8 DEF EnLineas

\* The row of a statement on one.
LEMMA CasFila ==
    ASSUME NEW x, NEW que \in {"inventario", "productos", "recetas"}, Cd!Sentencia(x, que)
    PROVE  Cd!Pide(x) = {<<txs[x].pila[1][1], txs[x].pila[1][2]>>}
BY DEF Cd!Sentencia, Cd!Pide, Cd!ConFila

\* The others take none.
LEMMA CasSinFila ==
    ASSUME NEW x, NEW que \in {"copias", "sumar"}, Cd!Sentencia(x, que)
    PROVE  Cd!Pide(x) = {}
BY DEF Cd!Sentencia, Cd!Pide, Cd!ConFila

\* What is left of a cascade when a statement is done and others come before.
LEMMA CascadaSigue ==
    ASSUME NEW s, NEW t, NEW u, Len(s) \in Nat \ {0}, Len(t) \in Nat,
           DeCascada(t), Len(s) = 1 \/ DeCascada(s),
           Len(u) = Len(t) + Len(s) - 1,
           \A i \in 1..(Len(t) + Len(s) - 1) :
               u[i] = IF i <= Len(t) THEN t[i] ELSE s[i - Len(t) + 1]
    PROVE  DeCascada(u)
<1> SUFFICES ASSUME NEW i \in 1..Len(u)
             PROVE  /\ u[i][1] \in {"productos", "copias", "sumar", "recetas"}
                    /\ u[i][1] = "productos" => u[i][2] \in Cd!Elaborados
                    /\ u[i][1] \in {"sumar", "recetas"} => u[i][2] \in Recetas
  BY DEF DeCascada
<1>1. CASE i <= Len(t)
  <2>1. i \in 1..Len(t) /\ u[i] = t[i]
    BY <1>1
  <2> QED
    BY <2>1 DEF DeCascada
<1>2. CASE ~(i <= Len(t))
  <2>1. i - Len(t) + 1 \in 1..Len(s) /\ Len(s) # 1 /\ u[i] = s[i - Len(t) + 1]
    BY <1>2
  <2> QED
    BY <2>1 DEF DeCascada
<1> QED
  BY <1>1, <1>2

\* A statement of the lines of a purchase.
LEMMA CasLinea ==
    ASSUME CasInv, NEW x \in Conexiones, NEW que, que \in {"inventario", "productos"},
           Cd!Sentencia(x, que), ~txs[x].edita, txs[x].vistos = {},
           NEW e, EsSeq(e), SinNada(e)
    PROVE  EnLineas(Cd!Hecha(x, e)) /\ ConSuRenglon(Cd!Hecha(x, e))
<1> DEFINE n == Cd!Hecha(x, e)
           t == txs[x]
<1>0. EsSeq(e) /\ Len(e) = 0
  BY DEF SinNada
<1>1. /\ n.filas = t.filas \cup Cd!Pide(x)
      /\ Len(t.pila) \in Nat \ {0} /\ t.pila[1][1] = que
      /\ Len(n.pila) = Len(e) + Len(t.pila) - 1
      /\ \A i \in 1..(Len(e) + Len(t.pila) - 1) :
           n.pila[i] = IF i <= Len(e) THEN e[i] ELSE t.pila[i - Len(e) + 1]
  BY CasHecha
<1>2. Cd!Pide(x) = {<<t.pila[1][1], t.pila[1][2]>>}
  BY CasFila
<1>3. EnLineas(t) /\ ConSuRenglon(t)
  BY DEF CasInv, BienTx
<1>4. t.vistos = {}
  OBVIOUS
<1> HIDE DEF n, t
<1>5. Len(n.pila) = Len(t.pila) - 1
  BY <1>0, <1>1
<1>6. \A i \in 1..(Len(t.pila) - 1) : n.pila[i] = t.pila[i + 1]
  <2>1. \A i \in 1..(Len(t.pila) - 1) : 
           i \in 1..(Len(e) + Len(t.pila) - 1) /\ ~(i <= Len(e)) /\ i - Len(e) + 1 = i + 1
    BY <1>0, <1>1
  <2> QED
    BY <1>1, <2>1
<1>7. n.filas = t.filas \cup {<<t.pila[1][1], t.pila[1][2]>>}
  BY <1>1, <1>2
<1>8. t.pila[1][1] # "copias"
  BY <1>1
<1>9. EnLineas(n) /\ ConSuRenglon(n)
  BY <1>1, <1>3, <1>4, <1>5, <1>6, <1>7, <1>8, LineasSiguen
<1> QED
  BY <1>9 DEF n

\* A statement of the cascade, or the one that begins it.
LEMMA CasDeCascada ==
    ASSUME CasInv, NEW x \in Conexiones, NEW que, Cd!Sentencia(x, que), ~txs[x].edita,
           txs[x].vistos # {} \/ que = "copias",
           NEW t, EsSeq(t), DeCascada(t)
    PROVE  DeCascada(Cd!Hecha(x, t).pila) /\ ConSuRenglon(Cd!Hecha(x, t))
<1> DEFINE n == Cd!Hecha(x, t)
           s == txs[x].pila
           filas == txs[x].filas
           u == n.pila
<1>1. /\ n.filas = filas \cup Cd!Pide(x)
      /\ Len(s) \in Nat \ {0} /\ Len(t) \in Nat /\ s[1][1] = que
      /\ Len(u) = Len(t) + Len(s) - 1
      /\ \A i \in 1..(Len(t) + Len(s) - 1) :
           u[i] = IF i <= Len(t) THEN t[i] ELSE s[i - Len(t) + 1]
  BY CasHecha
<1>2. ConSuRenglon(txs[x])
  BY DEF CasInv, BienTx
<1>3. DeCascada(s) \/ (Len(s) = 1 /\ que = "copias")
  <2>1. CASE txs[x].vistos # {}
    BY <2>1 DEF CasInv, BienTx
  <2>2. CASE txs[x].vistos = {}
    <3>1. CadaLinea(txs[x]) /\ que = "copias"
      BY <2>2 DEF CasInv, BienTx, EnLineas
    <3>2. 1 \in 1..Len(s)
      BY <1>1
    <3> QED
      BY <3>1, <3>2, <1>1 DEF CadaLinea
  <2> QED
    BY <2>1, <2>2
<1>4. \A p \in Insumos : <<"productos", p>> \notin Cd!Pide(x)
  <2>1. CASE que = "copias"
    BY <2>1, CasSinFila
  <2>2. CASE DeCascada(s)
    <3>1. que \in {"productos", "copias", "sumar", "recetas"}
          /\ (que = "productos" => s[1][2] \in Cd!Elaborados)
      <4>1. 1 \in 1..Len(s)
        BY <1>1
      <4> QED
        BY <2>2, <4>1, <1>1 DEF DeCascada
    <3>2. que \in {"copias", "sumar"} => Cd!Pide(x) = {}
      BY CasSinFila
    <3>3. que \in {"productos", "recetas"} => Cd!Pide(x) = {<<que, s[1][2]>>}
      BY CasFila, <1>1
    <3>4. \A p \in Insumos : p \notin Cd!Elaborados
      BY CascadasAssumption DEF Cd!Elaborados
    <3> QED
      BY <3>1, <3>2, <3>3, <3>4
  <2> QED
    BY <2>1, <2>2, <1>3
<1>5. ConSuRenglon(n)
  BY <1>1, <1>2, <1>4 DEF ConSuRenglon
<1> HIDE DEF n, s, u, filas
<1>6. DeCascada(u)
  BY <1>1, <1>3, CascadaSigue
<1> QED
  BY <1>5, <1>6 DEF n, u

\* The transaction becomes what the statement leaves, but for what it wrote and
\* what it propagated.
LEMMA CasAvanza ==
    ASSUME CasInv, NEW x \in Conexiones, NEW que, Cd!Sentencia(x, que), NEW t, EsSeq(t),
           NEW n, txs' = [txs EXCEPT ![x] = n], DOMAIN n = Campos,
           n.edita = Cd!Hecha(x, t).edita, n.pila = Cd!Hecha(x, t).pila,
           n.filas = Cd!Hecha(x, t).filas,
           ~txs[x].edita => /\ n.vistos = {} => EnLineas(Cd!Hecha(x, t))
                            /\ n.vistos # {} => DeCascada(Cd!Hecha(x, t).pila)
                            /\ ConSuRenglon(Cd!Hecha(x, t))
    PROVE  CasInv'
<1> DEFINE h == Cd!Hecha(x, t)
<1>1. /\ h.edita = txs[x].edita /\ EsSeq(h.pila)
      /\ \A y \in Conexiones \ {x} : h.filas \cap txs[y].filas = {}
  BY CasHecha
<1> HIDE DEF h
<1>2. n.edita = h.edita /\ n.pila = h.pila /\ n.filas = h.filas
      /\ (~h.edita => /\ n.vistos = {} => EnLineas(h)
                      /\ n.vistos # {} => DeCascada(h.pila)
                      /\ ConSuRenglon(h))
  BY <1>1 DEF h
<1>3. BienTx(n)
  BY <1>2 DEF BienTx, EnLineas, CadaLinea, PasadosLosTomados, Suben, TrasSuRenglon, ConSuRenglon
<1> QED
  BY <1>1, <1>2, <1>3, CasSigue

-----------------------------------------------------------------------------
(* Each statement.                                                         *)

LEMMA CasTomarInventario ==
    ASSUME CasInv, NEW x \in Conexiones, Cd!TomarInventario(x)
    PROVE  CasInv'
<1>1. Cd!Sentencia(x, "inventario") /\ txs' = [txs EXCEPT ![x] = Cd!Hecha(x, <<>>)]
  BY DEF Cd!TomarInventario
<1>2. DOMAIN Cd!Hecha(x, <<>>) = Campos /\ Cd!Hecha(x, <<>>).vistos = txs[x].vistos
      /\ Len(txs[x].pila) \in Nat \ {0} /\ txs[x].pila[1][1] = "inventario"
  BY <1>1, Vacia, CasHecha
<1>3. ~txs[x].edita => txs[x].vistos = {}
  <2>1. 1 \in 1..Len(txs[x].pila)
    BY <1>2
  <2> QED
    BY <1>2, <2>1 DEF CasInv, BienTx, DeCascada
<1>4. ~txs[x].edita => /\ EnLineas(Cd!Hecha(x, <<>>))
                       /\ ConSuRenglon(Cd!Hecha(x, <<>>))
  BY <1>1, <1>3, Vacia, CasLinea DEF SinNada
<1> QED
  BY <1>1, <1>2, <1>3, <1>4, Vacia, CasAvanza

LEMMA CasEscribirCosto ==
    ASSUME CasInv, NEW x \in Conexiones, Cd!EscribirCosto(x)
    PROVE  CasInv'
<1> DEFINE h == Cd!Hecha(x, <<>>)
<1>1. PICK v : txs' = [txs EXCEPT ![x] = [h EXCEPT !.costo = v]]
  BY DEF Cd!EscribirCosto
<1> DEFINE n == [h EXCEPT !.costo = v]
<1>2. Cd!Sentencia(x, "productos")
  BY DEF Cd!EscribirCosto
<1>3. DOMAIN h = Campos /\ h.vistos = txs[x].vistos
  BY <1>2, Vacia, CasHecha
<1> HIDE DEF h
<1>4. /\ DOMAIN n = Campos /\ n.edita = h.edita /\ n.pila = h.pila /\ n.filas = h.filas
      /\ n.vistos = h.vistos
  BY <1>3 DEF Campos
<1>5. ~txs[x].edita => /\ txs[x].vistos = {} => EnLineas(h)
                       /\ txs[x].vistos # {} => DeCascada(h.pila)
                       /\ ConSuRenglon(h)
  <2> SUFFICES ASSUME ~txs[x].edita
               PROVE  /\ txs[x].vistos = {} => EnLineas(h)
                      /\ txs[x].vistos # {} => DeCascada(h.pila)
                      /\ ConSuRenglon(h)
    OBVIOUS
  <2>1. CASE txs[x].vistos = {}
    BY <1>2, <2>1, Vacia, CasLinea DEF h, SinNada
  <2>2. CASE txs[x].vistos # {}
    <3>1. DeCascada(<<>>)
      BY Vacia DEF DeCascada
    <3> QED
      BY <1>2, <2>2, <3>1, Vacia, CasDeCascada DEF h
  <2> QED
    BY <2>1, <2>2
<1> HIDE DEF n
<1>6. txs' = [txs EXCEPT ![x] = n]
  BY <1>1 DEF n
<1> QED
  BY <1>2, <1>3, <1>4, <1>5, <1>6, Vacia, CasAvanza DEF h

\* A statement that puts others first, and changes what the transaction wrote.
LEMMA CasPoner ==
    ASSUME CasInv, NEW x \in Conexiones, NEW que, Cd!Sentencia(x, que),
           que = "copias" \/ (que \in {"sumar", "recetas"}),
           NEW t, EsSeq(t), ~txs[x].edita => DeCascada(t),
           NEW n, txs' = [txs EXCEPT ![x] = n], DOMAIN n = Campos,
           n.edita = Cd!Hecha(x, t).edita, n.pila = Cd!Hecha(x, t).pila,
           n.filas = Cd!Hecha(x, t).filas,
           txs[x].vistos \subseteq n.vistos,
           que = "copias" /\ txs[x].vistos = {} => txs[x].pila[1][2] \subseteq n.vistos
    PROVE  CasInv'
<1> SUFFICES ASSUME ~txs[x].edita
             PROVE  /\ n.vistos # {}
                    /\ DeCascada(Cd!Hecha(x, t).pila) /\ ConSuRenglon(Cd!Hecha(x, t))
  BY CasAvanza
<1>1. Len(txs[x].pila) \in Nat \ {0} /\ txs[x].pila[1][1] = que
  BY CasHecha
<1>2. 1 \in 1..Len(txs[x].pila)
  BY <1>1
<1>3. txs[x].vistos # {} \/ (que = "copias" /\ txs[x].pila[1][2] # {})
  BY <1>1, <1>2 DEF CasInv, BienTx, EnLineas, CadaLinea
<1>4. n.vistos # {}
  BY <1>3
<1> QED
  BY <1>3, <1>4, CasDeCascada

LEMMA CasRefrescarCopias ==
    ASSUME CasInv, NEW x \in Conexiones, Cd!RefrescarCopias(x)
    PROVE  CasInv'
<1> DEFINE ps == txs[x].pila[1][2]
           nuevos == ps \ txs[x].vistos
           viejas == {k \in Cd!Renglones : k[2] \in nuevos /\ Cd!Copia(x)[k] # Cd!Costo(x)[k[2]]}
           rs == {k[1] : k \in viejas}
<1>0. PICK orden \in Cd!SetToSeqs(rs) :
        \E v : txs' = [txs EXCEPT ![x] =
                   [Cd!Hecha(x, [k \in 1..Len(orden) |-> <<"sumar", orden[k], 0>>]) EXCEPT
                       !.vistos = @ \cup nuevos, !.copia = v]]
  BY DEF Cd!RefrescarCopias
<1>1. PICK v :
        txs' = [txs EXCEPT ![x] =
                   [Cd!Hecha(x, [k \in 1..Len(orden) |-> <<"sumar", orden[k], 0>>]) EXCEPT
                       !.vistos = @ \cup nuevos, !.copia = v]]
  BY <1>0
<1> DEFINE t == [k \in 1..Len(orden) |-> <<"sumar", orden[k], 0>>]
           h == Cd!Hecha(x, t)
           n == [h EXCEPT !.vistos = @ \cup nuevos, !.copia = v]
<1>2. Cd!Sentencia(x, "copias")
  BY DEF Cd!RefrescarCopias
<1>3. rs \subseteq Recetas
  BY DEF Cd!Renglones
<1>4. Len(orden) \in Nat /\ \A i \in 1..Len(orden) : orden[i] \in Recetas
  <2>1. IsFiniteSet(rs)
    BY <1>3, FS_Subset, CascadasAssumption
  <2> HIDE DEF rs
  <2> QED
    BY <1>3, <2>1, CasOrden
<1> HIDE DEF nuevos
<1>5. EsSeq(t) /\ Len(t) = Len(orden)
  <2>1. t = [k \in 1..Len(orden) |-> t[k]]
    OBVIOUS
  <2> HIDE DEF t
  <2> QED
    BY <1>4, <2>1, EsSeqFun
<1>6. DeCascada(t)
  <2>1. \A i \in 1..Len(orden) : t[i][1] = "sumar" /\ t[i][2] = orden[i]
    OBVIOUS
  <2> HIDE DEF t
  <2> QED
    BY <1>4, <1>5, <2>1 DEF DeCascada
<1>7. txs' = [txs EXCEPT ![x] = n]
  BY <1>1
<1> HIDE DEF t
<1>8. DOMAIN h = Campos /\ h.vistos = txs[x].vistos
  BY <1>2, <1>5, CasHecha
<1> HIDE DEF h
<1>9. /\ DOMAIN n = Campos /\ n.edita = h.edita /\ n.pila = h.pila /\ n.filas = h.filas
      /\ n.vistos = txs[x].vistos \cup nuevos
  BY <1>8 DEF Campos
<1> HIDE DEF n
<1>10. ps \subseteq txs[x].vistos \cup nuevos
  BY DEF nuevos
<1>11. \/ "copias" = "copias" \/ "copias" \in {"sumar", "recetas"}
  OBVIOUS
<1> QED
  BY <1>2, <1>5, <1>6, <1>7, <1>9, <1>10, CasPoner DEF h

LEMMA CasSumarInsumos ==
    ASSUME CasInv, NEW x \in Conexiones, Cd!SumarInsumos(x)
    PROVE  CasInv'
<1> DEFINE r == txs[x].pila[1][2]
<1>1. PICK v : txs' = [txs EXCEPT ![x] = Cd!Hecha(x, <<<<"recetas", r, v>>>>)]
  BY DEF Cd!SumarInsumos
<1> DEFINE t == <<<<"recetas", r, v>>>>
           n == Cd!Hecha(x, t)
<1>2. Cd!Sentencia(x, "sumar")
  BY DEF Cd!SumarInsumos
<1>3. EsSeq(t) /\ Len(t) = 1 /\ t[1][1] = "recetas" /\ t[1][2] = r
  <2>1. t \in Seq({<<"recetas", r, v>>})
    OBVIOUS
  <2> QED
    BY <2>1, EsSeqDe
<1> HIDE DEF t
<1>4. DOMAIN n = Campos /\ n.vistos = txs[x].vistos
      /\ Len(txs[x].pila) \in Nat \ {0} /\ txs[x].pila[1][1] = "sumar"
  BY <1>2, <1>3, CasHecha
<1>5. ~txs[x].edita => r \in Recetas
  <2>1. 1 \in 1..Len(txs[x].pila)
    BY <1>4
  <2> QED
    BY <1>4, <2>1 DEF CasInv, BienTx, EnLineas, CadaLinea, DeCascada
<1>6. ~txs[x].edita => DeCascada(t)
  BY <1>3, <1>5 DEF DeCascada
<1>7. txs' = [txs EXCEPT ![x] = n]
  BY <1>1 DEF t
<1> QED
  BY <1>2, <1>3, <1>4, <1>6, <1>7, CasPoner

\* The cost of a preparation, and its own cascade.
LEMMA CasCostear ==
    ASSUME NEW e, NEW suma
    PROVE  LET t == IF e = Ninguno THEN <<>>
                    ELSE << <<"productos", e, suma>>, <<"copias", {e}, 0>> >>
           IN  EsSeq(t) /\ ((e # Ninguno => e \in Cd!Elaborados) => DeCascada(t))
<1> DEFINE a == <<"productos", e, suma>>
           b == <<"copias", {e}, 0>>
<1>1. a[1] = "productos" /\ a[2] = e /\ b[1] = "copias"
  OBVIOUS
<1> HIDE DEF a, b
<1>2. <<a, b>> \in Seq({a, b}) /\ Len(<<a, b>>) = 2 /\ <<a, b>>[1] = a /\ <<a, b>>[2] = b
  OBVIOUS
<1>3. EsSeq(<<a, b>>)
  BY <1>2, EsSeqDe
<1>4. ASSUME e \in Cd!Elaborados PROVE DeCascada(<<a, b>>)
  <2>1. \A i \in 1..2 : i = 1 \/ i = 2
    OBVIOUS
  <2> QED
    BY <1>1, <1>2, <1>4, <2>1 DEF DeCascada
<1>5. EsSeq(<<>>) /\ DeCascada(<<>>)
  BY Vacia DEF DeCascada
<1>6. CASE e = Ninguno
  BY <1>5, <1>6
<1>7. CASE e # Ninguno
  BY <1>3, <1>4, <1>7 DEF a, b
<1> QED
  BY <1>6, <1>7

\* The total of a recipe is written, and t comes next.
LEMMA CasPonerTotal ==
    ASSUME CasInv, NEW x \in Conexiones, Cd!Sentencia(x, "recetas"), NEW t, EsSeq(t),
           txs[x].pila[1][2] \in Recetas => DeCascada(t),
           NEW v, txs' = [txs EXCEPT ![x] = [Cd!Hecha(x, t) EXCEPT !.total = v]]
    PROVE  CasInv'
<1> DEFINE h == Cd!Hecha(x, t)
           n == [h EXCEPT !.total = v]
           s == txs[x].pila
<1>1. DOMAIN h = Campos /\ h.vistos = txs[x].vistos
      /\ Len(s) \in Nat \ {0} /\ s[1][1] = "recetas"
  BY CasHecha
<1>2. ~txs[x].edita => s[1][2] \in Recetas
  <2>1. 1 \in 1..Len(s)
    BY <1>1
  <2> QED
    BY <1>1, <2>1 DEF CasInv, BienTx, EnLineas, CadaLinea, DeCascada
<1>3. ~txs[x].edita => DeCascada(t)
  BY <1>2
<1> HIDE DEF h
<1>4. /\ DOMAIN n = Campos /\ n.edita = h.edita /\ n.pila = h.pila /\ n.filas = h.filas
      /\ n.vistos = txs[x].vistos
  BY <1>1 DEF Campos
<1>5. txs' = [txs EXCEPT ![x] = n]
  BY DEF h
<1> HIDE DEF n
<1>6. txs[x].vistos \subseteq n.vistos
  BY <1>4
<1>7. "recetas" # "copias" /\ "recetas" \in {"sumar", "recetas"}
  OBVIOUS
<1> QED
  BY <1>3, <1>4, <1>5, <1>6, <1>7, CasPoner DEF h

LEMMA CasEscribirTotal ==
    ASSUME CasInv, NEW x \in Conexiones, Cd!EscribirTotal(x)
    PROVE  CasInv'
<1> DEFINE r == txs[x].pila[1][2]
           suma == txs[x].pila[1][3]
           e == Elaborado[r]
           t == IF e = Ninguno THEN <<>> ELSE <<Cd!Costear(e, suma), <<"copias", {e}, 0>>>>
<1>1. PICK v : txs' = [txs EXCEPT ![x] = [Cd!Hecha(x, t) EXCEPT !.total = v]]
  BY ZenonT(30) DEF Cd!EscribirTotal
<1>2. Cd!Sentencia(x, "recetas")
  BY DEF Cd!EscribirTotal
<1>3. EsSeq(t) /\ ((e # Ninguno => e \in Cd!Elaborados) => DeCascada(t))
  BY CasCostear DEF Cd!Costear
<1>4. r \in Recetas /\ e # Ninguno => e \in Cd!Elaborados
  BY DEF Cd!Elaborados
<1> HIDE DEF t, e
<1> QED
  BY <1>1, <1>2, <1>3, <1>4, CasPonerTotal

\* The end of a transaction, and what does not happen in any.
LEMMA CasTermina ==
    ASSUME CasInv, NEW x \in Conexiones, txs' = [txs EXCEPT ![x] = Cd!SinTx]
    PROVE  CasInv'
BY CasVacia, CasSigue

LEMMA CasPaso == CasInv /\ [Cd!Next]_deCascadas => CasInv'
<1> SUFFICES ASSUME CasInv, [Cd!Next]_deCascadas PROVE CasInv'
  OBVIOUS
<1>1. CASE UNCHANGED deCascadas
  BY <1>1 DEF deCascadas, CasInv, CasForma, BienTx, EnLineas, CadaLinea, PasadosLosTomados, Suben,
     TrasSuRenglon, ConSuRenglon, DeCascada, Cd!Elaborados
<1>2. CASE Cd!Next
  <2>1. ASSUME NEW x \in Conexiones, Cd!Confirmar(x) \/ Cd!Abortar(x) PROVE CasInv'
    BY <2>1, CasTermina DEF Cd!Confirmar, Cd!Abortar
  <2> QED
    BY <1>2, <2>1, CasComprar, CasAnular, CasEditar, CasTomarInventario, CasEscribirCosto,
       CasRefrescarCopias, CasSumarInsumos, CasEscribirTotal DEF Cd!Next
<1> QED
  BY <1>1, <1>2

-----------------------------------------------------------------------------
(* Who waits for whom.                                                     *)

\* Who waits has a statement on a row that the other holds.
LEMMA CasEspera ==
    ASSUME CasInv, NEW x \in Conexiones, NEW y \in Cd!Espera(x)
    PROVE  /\ y \in Conexiones /\ y # x
           /\ 1 \in 1..Len(txs[x].pila)
           /\ txs[x].pila[1][1] \in {"inventario", "productos", "recetas"}
           /\ <<txs[x].pila[1][1], txs[x].pila[1][2]>> \in txs[y].filas
<1>1. y \in Conexiones /\ y # x /\ Cd!Pide(x) \cap txs[y].filas # {}
  BY DEF Cd!Espera
<1>2. /\ txs[x].pila # <<>> /\ txs[x].pila[1][1] \in {"inventario", "productos", "recetas"}
      /\ Cd!Pide(x) = {<<txs[x].pila[1][1], txs[x].pila[1][2]>>}
  BY <1>1 DEF Cd!Pide, Cd!ConFila
<1>3. 1 \in 1..Len(txs[x].pila)
  <2>1. EsSeq(txs[x].pila)
    BY DEF CasInv, CasForma
  <2>2. Len(txs[x].pila) \in Nat \ {0}
    BY <1>2, <2>1, Colita
  <2> QED
    BY <2>2
<1> QED
  BY <1>1, <1>2, <1>3

\* A cascade waits for none but cascades.
LEMMA CascadaEsperaCascada ==
    ASSUME CasInv, NEW x \in Conexiones, NEW y \in Cd!Espera(x),
           ~txs[x].edita, ~txs[y].edita, txs[x].vistos # {}
    PROVE  txs[y].vistos # {}
<1> SUFFICES ASSUME txs[y].vistos = {} PROVE FALSE
  OBVIOUS
<1> DEFINE a == txs[x].pila[1][1]
           b == txs[x].pila[1][2]
<1>1. y \in Conexiones /\ 1 \in 1..Len(txs[x].pila) /\ <<a, b>> \in txs[y].filas
  BY CasEspera
<1>2. a \in {"productos", "copias", "sumar", "recetas"}
      /\ (a = "productos" => b \in Cd!Elaborados)
  BY <1>1 DEF CasInv, BienTx, DeCascada
<1>3. txs[y].filas \subseteq {"inventario", "productos"} \X Insumos
  BY <1>1 DEF CasInv, BienTx, EnLineas
<1> HIDE DEF a, b
<1>4. a \in {"inventario", "productos"} /\ b \in Insumos
  BY <1>1, <1>3
<1>5. b \notin Cd!Elaborados
  BY <1>4, CascadasAssumption DEF Cd!Elaborados
<1> QED
  BY <1>2, <1>4, <1>5

\* A purchase at its lines that waits for another waits for a row of inventario.
LEMMA LineaEsperaRenglon ==
    ASSUME CasInv, NEW x \in Conexiones, NEW y \in Cd!Espera(x),
           ~txs[x].edita, ~txs[y].edita, txs[x].vistos = {}, txs[y].vistos = {}
    PROVE  /\ 1 \in 1..Len(txs[x].pila)
           /\ txs[x].pila[1][1] = "inventario" /\ txs[x].pila[1][2] \in Insumos
           /\ <<"inventario", txs[x].pila[1][2]>> \in txs[y].filas
<1> DEFINE a == txs[x].pila[1][1]
           b == txs[x].pila[1][2]
<1>1. /\ y \in Conexiones /\ y # x /\ 1 \in 1..Len(txs[x].pila) /\ <<a, b>> \in txs[y].filas
      /\ a \in {"inventario", "productos", "recetas"}
  BY CasEspera
<1>2. a # "recetas" /\ b \in Insumos
  BY <1>1 DEF CasInv, BienTx, EnLineas, CadaLinea
<1>3. ASSUME a = "productos" PROVE FALSE
  <2>1. TrasSuRenglon(txs[x])
    BY DEF CasInv, BienTx, EnLineas
  <2>2. ~ \E j \in 1..Len(txs[x].pila) : j < 1
    OBVIOUS
  <2>3. <<"inventario", b>> \in txs[x].filas
    BY <1>1, <1>3, <2>1, <2>2 DEF TrasSuRenglon
  <2>4. <<"inventario", b>> \in txs[y].filas
    BY <1>1, <1>2, <1>3 DEF CasInv, BienTx, ConSuRenglon
  <2> QED
    BY <1>1, <2>3, <2>4 DEF CasInv
<1> QED
  BY <1>1, <1>2, <1>3

\* Purchases at their lines that wait for each other in a circle would each wait
\* for a higher row than the last.
LEMMA LineasSinCirculo ==
    ASSUME CasInv, NEW circulo \in (SUBSET Conexiones) \ {{}},
           \A x \in circulo : Cd!Espera(x) \cap circulo # {},
           \A x \in circulo : ~txs[x].edita /\ txs[x].vistos = {}
    PROVE  FALSE
<1> DEFINE q(x) == txs[x].pila[1][2]
           U(x) == {z \in circulo : q(x) < q(z)}
           F == {U(x) : x \in circulo}
<1>1. ASSUME NEW x \in circulo PROVE q(x) \in Int
  <2>1. PICK y \in circulo : y \in Cd!Espera(x)
    OBVIOUS
  <2>2. q(x) \in Insumos
    BY <2>1, LineaEsperaRenglon
  <2> QED
    BY <2>2, CascadasAssumption
<1>2. ASSUME NEW x \in circulo, NEW y \in circulo, y \in Cd!Espera(x) PROVE q(x) < q(y)
  <2>1. PICK z \in circulo : z \in Cd!Espera(y)
    OBVIOUS
  <2>2. q(x) \in Insumos /\ <<"inventario", q(x)>> \in txs[y].filas
    BY <1>2, LineaEsperaRenglon
  <2>3. 1 \in 1..Len(txs[y].pila) /\ txs[y].pila[1][1] = "inventario"
    BY <2>1, LineaEsperaRenglon
  <2>4. PasadosLosTomados(txs[y])
    BY DEF CasInv, BienTx, EnLineas
  <2> QED
    BY <2>2, <2>3, <2>4 DEF PasadosLosTomados
<1>3. IsFiniteSet(circulo)
  BY FS_Subset, CascadasAssumption
<1> HIDE DEF q
<1>4. F \in SUBSET (SUBSET circulo) /\ F # {}
  <2>1. \A x \in circulo : U(x) \subseteq circulo
    OBVIOUS
  <2>2. PICK x : x \in circulo
    OBVIOUS
  <2> HIDE DEF U
  <2> QED
    BY <2>1, <2>2
<1>5. PICK T \in F : \A V \in F : V \subseteq T => V = T
  <2> HIDE DEF F
  <2> QED
    BY <1>3, <1>4, Minimo
<1>6. PICK x \in circulo : T = U(x)
  OBVIOUS
<1>7. PICK y \in circulo : y \in Cd!Espera(x)
  OBVIOUS
<1>8. q(x) < q(y) /\ q(x) \in Int /\ q(y) \in Int
  BY <1>1, <1>2, <1>7
<1>9. U(y) \subseteq U(x) /\ U(y) \in F
  <2>1. \A z \in circulo : q(y) < q(z) => q(x) < q(z)
    BY <1>1, <1>8
  <2> QED
    BY <2>1
<1>10. y \in U(x) /\ y \notin U(y)
  BY <1>8
<1> QED
  BY <1>5, <1>6, <1>9, <1>10

LEMMA CasImplica == CasInv => LasLineasNoSeTraban
<1> SUFFICES ASSUME CasInv, NEW circulo \in (SUBSET Conexiones) \ {{}},
                    \A x \in circulo : Cd!Espera(x) \cap circulo # {},
                    \A x \in circulo : ~txs[x].edita
             PROVE  /\ {x \in circulo : txs[x].vistos # {}} # {}
                    /\ \A x \in {z \in circulo : txs[z].vistos # {}} :
                         Cd!Espera(x) \cap {z \in circulo : txs[z].vistos # {}} # {}
  BY DEF LasLineasNoSeTraban, Cd!LasLineasNoSeTraban
<1>1. {x \in circulo : txs[x].vistos # {}} # {}
  BY LineasSinCirculo
<1>2. ASSUME NEW x \in circulo, txs[x].vistos # {}
      PROVE  \E y \in circulo : txs[y].vistos # {} /\ y \in Cd!Espera(x)
  <2>1. PICK y \in circulo : y \in Cd!Espera(x)
    OBVIOUS
  <2> QED
    BY <1>2, <2>1, CascadaEsperaCascada
<1> QED
  BY <1>1, <1>2

-----------------------------------------------------------------------------
(* The composition                                                         *)

InvServicios == PinInv /\ CatInv /\ FinInv /\ SesInv /\ CosInv /\ CasInv

\* A step is one of the part that is exercised, and leaves the others alone.
LEMMA PasoDeServicios ==
    [NextServicios]_todas =>
        /\ [Next]_vars
        /\ [Se!Next]_deSesion
        /\ [Pi!Next]_dePin
        /\ [Fi!Next]_deFinanzas
        /\ [Ca!Next]_deCatalogo
        /\ [Co!Next]_deCosteo
        /\ [Cd!Next]_deCascadas
BY DEF NextServicios, todas, vars, deSesion, dePin, deFinanzas, deCatalogo, deCosteo, deCascadas

\* Each part keeps its invariant, whatever the others do.
LEMMA SiempreServicios == SpecServicios => []InvServicios
<1>1. InitServicios => InvServicios
  BY PinInicio, CatInicio, FinInicio, SesInicio, CosInicio, CasInicio DEF InitServicios, InvServicios
<1>2. InvServicios /\ [NextServicios]_todas => InvServicios'
  BY PasoDeServicios, PinPaso, CatPaso, FinPaso, SesPaso, CosPaso, CasPaso DEF InvServicios
<1> QED
  BY <1>1, <1>2, PTL DEF SpecServicios

\* reclamarIdempotencia, while the rest of the server goes on: one key makes at
\* most one effect, and what each petition is told of it is so.
THEOREM UnEfectoEnConjunto == SpecServicios => []UnSoloEfecto
<1>1. InitServicios => IInv
  BY InitIInv DEF InitServicios
<1>2. IInv /\ [NextServicios]_todas => IInv'
  BY PasoDeServicios, PasoIInv
<1>3. IInv => UnSoloEfecto
  BY IInvUnSoloEfecto
<1> QED
  BY <1>1, <1>2, <1>3, PTL DEF SpecServicios

\* The limits of pin.logic.js: however the attempts overlap, the wrong PINs of one
\* hour, and those of the last 15 minutes on a device since it last cooled, go past
\* the limit by no more than the attempts that were already past the check.
THEOREM IntentosConLimite == SpecServicios => []IntentosAcotados
BY PinImplica, SiempreServicios, PTL DEF InvServicios

\* quitarPin: once it has answered, no session that entered with that PIN holds
\* the current token version, not even one whose attempt was under way.
THEOREM PinQuitadoNoEntra == SpecServicios => []PinQuitadoFuera
BY PinImplica, SiempreServicios, PTL DEF InvServicios

\* The financial summary: read in several queries with nothing that fixes a
\* moment, it is off by no more than the money that moved while they ran.
THEOREM ResumenAcotado == SpecServicios => []ResumenCuadra
BY FinImplica, SiempreServicios, PTL DEF InvServicios

\* eliminarDefinitivo and the merge of suppliers: whatever deletion, merge and
\* write of a product overlap, no product points to a supplier that is gone.
THEOREM ProveedorSeConserva == SpecServicios => []HistorialConProveedor
<1>1. InvServicios => HistorialConProveedor
  BY DEF InvServicios, CatInv
<1> QED
  BY <1>1, SiempreServicios, PTL

\* crear, confirmarRecepcion and anular of a purchase, with editions and recipes
\* in between: the cost of what is bought is the price of its last purchase in
\* force, however many recipes the cascade of each operation runs through.
THEOREM CostoEsElUltimo == SpecServicios => []CostoDeLaUltimaCompra
<1>1. InvServicios => CostoDeLaUltimaCompra
  BY DEF InvServicios, CosInv
<1> QED
  BY <1>1, SiempreServicios, PTL

\* compra.repository.js: the lines of purchases that run at once, taken in order
\* of product, never close a circle of transactions that wait for each other.
THEOREM LineasNoSeTraban == SpecServicios => []LasLineasNoSeTraban
BY CasImplica, SiempreServicios, PTL DEF InvServicios

\* activeUser.js: nobody is let in on a fact that has been false for a whole TTL
\* plus the waits of the load and of the request, whatever was in flight.
THEOREM RevocacionConPlazo == SpecServicios => RevocacionAcotada
<1>1. InvServicios /\ [NextServicios]_todas => [Admite]_deSesion
  BY PasoDeServicios, SesPaso DEF InvServicios
<1>2. SpecServicios => [][Admite]_deSesion
  BY <1>1, SiempreServicios, PTL DEF SpecServicios
<1> QED
  BY <1>2, PTL DEF RevocacionAcotada, Se!RevocacionAcotada, Admite, deSesion, Se!vars
=============================================================================
