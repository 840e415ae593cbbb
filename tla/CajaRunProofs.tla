---------------------------- MODULE CajaRunProofs ----------------------------
(***************************************************************************)
(* What CajaPosProofs proves of the cash registers, of the system that     *)
(* MCCajaPos puts together from three instances of them: the properties    *)
(* of the run Caja, with any shifts, cashiers and payment methods, any     *)
(* number of connections at the same time and any amounts in "cruces".     *)
(***************************************************************************)
EXTENDS MCCajaPos, CajaPosProofs

\* Finite is the same to an instance of CajaPos as it is outside.
LEMMA FinitoFuera ==
    ASSUME NEW S, IsFiniteSet(S)
    PROVE  Dinero!IsFiniteSet(S) /\ Repartido!IsFiniteSet(S)
BY DEF IsFiniteSet, Dinero!IsFiniteSet, Repartido!IsFiniteSet

\* The accounts of "dinero" and of "propinas" are as few as they look.
LEMMA DeUnaEnUna == IsFiniteSet({d1}) /\ IsFiniteSet({d1, d2})
<1>1. IsFiniteSet({d1}) /\ IsFiniteSet({d2})
  BY FS_Singleton
<1>2. {d1} \cup {d2} = {d1, d2}
  OBVIOUS
<1> QED
  BY <1>1, <1>2, FS_Union

\* "dinero" meets what CajaPos assumes of its constants.
LEMMA DineroSupuesto == Dinero!CajaAssumption
<1>1. Dinero!IsFiniteSet({d1, d2}) /\ Dinero!IsFiniteSet(Metodos)
  BY DeUnaEnUna, FinitoFuera, CajaAssumption
<1>2. [c \in {d1, d2} |-> IF c = d1 THEN 1 ELSE 0] \in [{d1, d2} -> Nat]
  OBVIOUS
<1>3. Turnos \cap {d1, d2} = {} /\ NULL \notin Turnos \cup {d1, d2} \cup Supervisores
  BY CajaAssumption, ParteAssumption
<1> QED
  BY <1>1, <1>2, <1>3, CajaAssumption DEF Dinero!CajaAssumption

\* "propinas" meets what CajaPos assumes of its constants.
LEMMA RepartidoSupuesto == Repartido!CajaAssumption
<1>1. Repartido!IsFiniteSet({d1}) /\ Repartido!IsFiniteSet(Metodos)
  BY DeUnaEnUna, FinitoFuera, CajaAssumption
<1>2. [c \in {d1} |-> 1] \in [{d1} -> Nat]
  OBVIOUS
<1>3. Turnos \cap {d1} = {} /\ NULL \notin Turnos \cup {d1} \cup Supervisores
  BY CajaAssumption, ParteAssumption
<1> QED
  BY <1>1, <1>2, <1>3, CajaAssumption DEF Repartido!CajaAssumption

-----------------------------------------------------------------------------
(* The invariant of each part, while it is the one that runs.              *)

InvCaja ==
    /\ parte = "cruces" => IInv /\ SinAbrazoMortal
    /\ parte = "dinero" => Dinero!IInv
    /\ parte = "propinas" => Repartido!IInv

\* It holds at the start, in whichever part.
LEMMA InitInvCaja == InitCaja => InvCaja
<1>1. Init => IInv /\ SinAbrazoMortal
  BY InitIInv, InitSinAbrazo
<1>2. Dinero!Init => Dinero!IInv
  BY Dinero!InitIInv, DineroSupuesto
<1>3. Repartido!Init => Repartido!IInv
  BY Repartido!InitIInv, RepartidoSupuesto
<1> QED
  BY <1>1, <1>2, <1>3 DEF InitCaja, InvCaja

\* A step of the system is one of the part that runs, or none.
LEMMA PasoDeParte ==
    ASSUME [NextCaja]_<<parte, vars>>
    PROVE  /\ parte' = parte
           /\ parte = "cruces" => [Next]_vars
           /\ parte = "dinero" => [Dinero!Next]_(Dinero!vars)
           /\ parte = "propinas" => [Repartido!Next]_(Repartido!vars)
<1>1. CASE NextCaja
  BY <1>1 DEF NextCaja
<1>2. CASE UNCHANGED <<parte, vars>>
  <2>1. UNCHANGED parte /\ UNCHANGED vars
    BY <1>2
  <2>2. UNCHANGED Dinero!vars /\ UNCHANGED Repartido!vars
    BY <2>1 DEF vars, Dinero!vars, Repartido!vars
  <2> QED
    BY <2>1, <2>2
<1> QED
  BY <1>1, <1>2

\* Every step keeps it.
LEMMA PasoInvCaja == InvCaja /\ [NextCaja]_<<parte, vars>> => InvCaja'
<1> SUFFICES ASSUME InvCaja, [NextCaja]_<<parte, vars>> PROVE InvCaja'
  OBVIOUS
<1>1. IInv /\ SinAbrazoMortal /\ [Next]_vars => IInv' /\ SinAbrazoMortal'
  BY PasoIInv, PasoSinAbrazo
<1>2. Dinero!IInv /\ [Dinero!Next]_(Dinero!vars) => Dinero!IInv'
  BY Dinero!PasoIInv, DineroSupuesto
<1>3. Repartido!IInv /\ [Repartido!Next]_(Repartido!vars) => Repartido!IInv'
  BY Repartido!PasoIInv, RepartidoSupuesto
<1> QED
  BY <1>1, <1>2, <1>3, PasoDeParte DEF InvCaja

-----------------------------------------------------------------------------
(* The properties of the run.                                              *)

\* Finanzas has what the sales of a closed shift amount to, in whichever part.
THEOREM FinanzasDelSistema == SpecCaja => []FinanzasCuadra
<1>1. InvCaja => FinanzasCuadra
  BY DEF InvCaja, FinanzasCuadra, IInv, Dinero!IInv, Repartido!IInv
<1> QED
  BY <1>1, InitInvCaja, PasoInvCaja, PTL DEF SpecCaja

\* The summary of a closed shift explains the income, also with tips.
THEOREM ResumenDelSistema == SpecCaja => []ResumenExplica
<1>1. InvCaja => ResumenExplica
  BY DEF InvCaja, ResumenExplica, Dinero!IInv, Repartido!IInv
<1> QED
  BY <1>1, InitInvCaja, PasoInvCaja, PTL DEF SpecCaja

\* The transactions never wait for one another.
THEOREM EsperasDelSistema == SpecCaja => []NadieSeEspera
<1>1. InvCaja => NadieSeEspera
  BY DEF InvCaja, NadieSeEspera
<1> QED
  BY <1>1, InitInvCaja, PasoInvCaja, PTL DEF SpecCaja

-----------------------------------------------------------------------------
(* The ledger, kept by the part that runs.                                 *)

EmpiezaElLibro ==
    /\ parte = "cruces" => Libro!Init
    /\ parte = "dinero" => Dinero!Libro!Init
    /\ parte = "propinas" => Repartido!Libro!Init

PasaElLibro ==
    /\ parte = "cruces" => UNCHANGED Libro!varsLibro \/ Libro!Next
    /\ parte = "dinero" => UNCHANGED Dinero!Libro!varsLibro \/ Dinero!Libro!Next
    /\ parte = "propinas" =>
          UNCHANGED Repartido!Libro!varsLibro \/ Repartido!Libro!Next

\* The part that runs opens its ledger.
LEMMA InitDelLibro == InitCaja => EmpiezaElLibro
<1>1. Init => Libro!Init
  BY InitLibro
<1>2. Dinero!Init => Dinero!Libro!Init
  BY Dinero!InitLibro, DineroSupuesto
<1>3. Repartido!Init => Repartido!Libro!Init
  BY Repartido!InitLibro, RepartidoSupuesto
<1> QED
  BY <1>1, <1>2, <1>3 DEF InitCaja, EmpiezaElLibro

\* Every step is one of its ledger, or leaves the ledger as it was.
LEMMA PasoDelLibro ==
    InvCaja /\ InvCaja' /\ [NextCaja]_<<parte, vars>> => [PasaElLibro]_filas
<1> SUFFICES ASSUME InvCaja, InvCaja', [NextCaja]_<<parte, vars>> PROVE PasaElLibro
  OBVIOUS
<1>1. IInv /\ IInv' /\ [Next]_vars => UNCHANGED Libro!varsLibro \/ Libro!Next
  BY PasoLibro
<1>2. Dinero!IInv /\ Dinero!IInv' /\ [Dinero!Next]_(Dinero!vars)
          => UNCHANGED Dinero!Libro!varsLibro \/ Dinero!Libro!Next
  BY Dinero!PasoLibro, DineroSupuesto
<1>3. Repartido!IInv /\ Repartido!IInv' /\ [Repartido!Next]_(Repartido!vars)
          => UNCHANGED Repartido!Libro!varsLibro \/ Repartido!Libro!Next
  BY Repartido!PasoLibro, RepartidoSupuesto
<1> QED
  BY <1>1, <1>2, <1>3, PasoDeParte DEF InvCaja, PasaElLibro

\* Each part of the system keeps the ledger.
THEOREM LibroDelSistema == SpecCaja => CajaEsLibro
<1>1. SpecCaja => EmpiezaElLibro /\ [][PasaElLibro]_filas
  BY InitInvCaja, PasoInvCaja, InitDelLibro, PasoDelLibro, PTL DEF SpecCaja
<1> QED
  BY <1>1 DEF CajaEsLibro, EmpiezaElLibro, PasaElLibro
=============================================================================
