--------------------------- MODULE CloudInfoProofs ---------------------------
(***************************************************************************)
(* Proofs about cloud provider detection, for every set of provider names, *)
(* implementations and registrations: whatever the registration order and *)
(* the duplicates, and whatever order each range over the providers map    *)
(* takes, machine.Info reports a provider that detects the instance, and   *)
(* the unknown provider only when none does.  The argument rests on two    *)
(* facts about NewRealCloudInfo's loop: a range visits every registered    *)
(* name (an injection from 1..|providers| into the names is onto), and the *)
(* first index at which an active provider sits exists.                    *)
(***************************************************************************)
EXTENDS CloudInfo, FiniteSetTheorems, WellFoundedInduction, TLAPS

USE CloudAssumption

\* Registration is over before machine.Info runs, so nothing was reported
\* while the providers map could still change.
NothingReportedDuringInit == ~started => reported = {}

CloudInv == TypeOK /\ NothingReportedDuringInit /\ ReportsAnActiveProvider

-----------------------------------------------------------------------------
\* The providers map has finitely many entries.
LEMMA RegisteredFinite ==
    ASSUME TypeOK
    PROVE  IsFiniteSet(Registered) /\ Cardinality(Registered) \in Nat
<1>1. Registered \subseteq Names
  BY DEF Registered
<1>2. IsFiniteSet(Registered)
  BY <1>1, FS_Subset
<1>3. QED
  BY <1>2, FS_CardinalityType

\* A range over the map visits every registered name: an injection from
\* 1..Cardinality(Registered) into the registered names is onto them.
LEMMA OrderVisitsAll ==
    ASSUME TypeOK, NEW order \in MapOrders
    PROVE  \A n \in Registered : \E i \in DOMAIN order : order[i] = n
<1> DEFINE k == Cardinality(Registered)
<1>1. k \in Nat /\ IsFiniteSet(Registered)
  BY RegisteredFinite
<1>2. order \in Injection(1..k, Registered)
  BY DEF MapOrders, Injection, IsInjective
<1>3. IsFiniteSet(1..k) /\ Cardinality(1..k) = k
  BY <1>1, FS_Interval
<1>4. order \in Surjection(1..k, Registered)
  BY <1>1, <1>2, <1>3, FS_Injection
<1>5. DOMAIN order = 1..k
  BY DEF MapOrders
<1>6. QED
  BY <1>4, <1>5 DEF Surjection

\* A non-empty set of naturals has a least element, so the loop's first
\* hit is well defined.
LEMMA LeastIndex ==
    ASSUME NEW T \in SUBSET Nat, T # {}
    PROVE  \E i \in T : \A j \in T : i <= j
<1>1. PICK x \in T : \A y \in T : ~(<<y, x>> \in OpToRel(<, Nat))
  BY NatLessThanWellFounded, WFMin
<1>2. \A y \in T : ~(<<y, x>> \in {ss \in Nat \X Nat : ss[1] < ss[2]})
  BY <1>1, Zenon DEF OpToRel
<1>3. \A y \in T : ~(y < x)
  BY <1>2
<1>4. QED
  BY <1>3

\* What one NewRealCloudInfo returns: a registered name whose provider is
\* active, or the unknown provider when no registered provider is.
LEMMA NewRealCloudInfoSound ==
    ASSUME TypeOK, NEW order \in MapOrders
    PROVE  LET r == NewRealCloudInfo(order)
           IN  IF r = Unknown
               THEN \A n \in Registered : ~IsActiveProvider(providers[n])
               ELSE r \in Registered /\ IsActiveProvider(providers[r])
<1> DEFINE hits == {i \in DOMAIN order : IsActiveProvider(providers[order[i]])}
           first == CHOOSE i \in hits : \A j \in hits : i <= j
<1>1. order \in [1..Cardinality(Registered) -> Registered]
  BY DEF MapOrders
<1>2. Cardinality(Registered) \in Nat
  BY RegisteredFinite
<1>3. CASE hits = {}
  <2>1. NewRealCloudInfo(order) = Unknown
    BY <1>3 DEF NewRealCloudInfo
  <2>2. \A n \in Registered : ~IsActiveProvider(providers[n])
    BY <1>3, OrderVisitsAll
  <2>3. QED
    BY <2>1, <2>2
<1>4. CASE hits # {}
  <2>1. hits \subseteq Nat
    BY <1>1, <1>2
  <2>2. first \in hits
    BY <1>4, <2>1, LeastIndex
  <2>3. NewRealCloudInfo(order) = order[first]
    BY <1>4 DEF NewRealCloudInfo
  <2>4. order[first] \in Registered /\ IsActiveProvider(providers[order[first]])
    BY <1>1, <2>2
  <2>5. order[first] # Unknown
    BY <2>4 DEF Registered
  <2>6. QED
    BY <2>3, <2>4, <2>5
<1>5. QED
  BY <1>3, <1>4

-----------------------------------------------------------------------------
LEMMA CloudInit == Init => CloudInv
<1> SUFFICES ASSUME Init PROVE CloudInv
  OBVIOUS
<1>1. providers \in [Names -> Impls \cup {NoImpl}]
  BY DEF Init
<1>2. calls \in 0..MaxInfoCalls
  BY DEF Init
<1>3. started \in BOOLEAN /\ reported = {}
  BY DEF Init
<1>4. TypeOK
  BY <1>1, <1>2, <1>3 DEF TypeOK
<1>5. QED
  BY <1>3, <1>4 DEF CloudInv, NothingReportedDuringInit, ReportsAnActiveProvider

LEMMA CloudStep == CloudInv /\ [Next]_vars => CloudInv'
<1> SUFFICES ASSUME CloudInv, [Next]_vars PROVE CloudInv'
  OBVIOUS
<1>1. ASSUME NEW r \in Registrations, RegisterCloudProvider(r[1], r[2])
      PROVE  CloudInv'
  <2>1. r[1] \in Names /\ r[2] \in Impls
    OBVIOUS
  <2>2. TypeOK'
    BY <1>1, <2>1 DEF CloudInv, TypeOK, RegisterCloudProvider
  <2>3. reported' = {} /\ ~started'
    BY <1>1 DEF CloudInv, NothingReportedDuringInit, RegisterCloudProvider
  <2>4. QED
    BY <2>2, <2>3 DEF CloudInv, NothingReportedDuringInit, ReportsAnActiveProvider
<1>2. CASE Main
  BY <1>2 DEF CloudInv, TypeOK, NothingReportedDuringInit, ReportsAnActiveProvider,
              Main, Registered
<1>3. CASE InfoCall
  <2>1. PICK order \in MapOrders :
               reported' = reported \cup {NewRealCloudInfo(order)}
    BY <1>3 DEF InfoCall
  <2> DEFINE r == NewRealCloudInfo(order)
  <2>2. providers' = providers /\ started' /\ started
    BY <1>3 DEF InfoCall
  <2>3. IF r = Unknown
        THEN \A n \in Registered : ~IsActiveProvider(providers[n])
        ELSE r \in Registered /\ IsActiveProvider(providers[r])
    BY NewRealCloudInfoSound DEF CloudInv
  <2>4. r \in Names \cup {Unknown}
    BY <2>3 DEF Registered
  <2>5. TypeOK'
    BY <1>3, <2>1, <2>4 DEF CloudInv, TypeOK, InfoCall
  <2>6. ReportsAnActiveProvider'
    BY <2>1, <2>2, <2>3 DEF CloudInv, ReportsAnActiveProvider, Registered
  <2>7. QED
    BY <2>2, <2>5, <2>6 DEF CloudInv, NothingReportedDuringInit
<1>4. CASE UNCHANGED vars
  BY <1>4 DEF CloudInv, TypeOK, NothingReportedDuringInit, ReportsAnActiveProvider,
              vars, Registered
<1>5. QED
  BY <1>1, <1>2, <1>3, <1>4 DEF Next

-----------------------------------------------------------------------------
(* Every reachable state is well typed: the map holds registered          *)
(* implementations, and machine.Info reports registered names or the       *)
(* unknown provider.                                                      *)
THEOREM TypeCorrect == Spec => []TypeOK
<1>1. CloudInv => TypeOK
  BY DEF CloudInv
<1>2. QED
  BY <1>1, CloudInit, CloudStep, PTL DEF Spec

(* Every cloud provider that machine.Info reports detects this instance,  *)
(* as the providers map holds it after the duplicate registrations, and    *)
(* the unknown provider is reported only when no registered one does:      *)
(* NewRealCloudInfo's loop over the map and its fallback, in every order   *)
(* the range can take.                                                     *)
THEOREM ActiveProviderReported == Spec => []ReportsAnActiveProvider
<1>1. CloudInv => ReportsAnActiveProvider
  BY DEF CloudInv
<1>2. QED
  BY <1>1, CloudInit, CloudStep, PTL DEF Spec

=============================================================================
