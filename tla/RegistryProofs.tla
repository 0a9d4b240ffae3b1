---------------------------- MODULE RegistryProofs ----------------------------
(***************************************************************************)
(* Proofs about the registry model for every value of its constants: the  *)
(* type invariant, and that with --docker_only the raw factory owns only   *)
(* "/" and whitelisted names, whenever no whitelist entry but the first is *)
(* empty (the run registry_trailing_comma shows what happens otherwise).   *)
(***************************************************************************)
EXTENDS Registry, TLAPS

\* Only the first entry of a whitelist may be empty (the flag value has no
\* empty item after its first).
OnlyFirstEntryMayBeEmpty ==
    \A w \in WhiteLists : \A i \in 1..Len(w) : w[i] = <<>> => i = 1

\* A resolution either leaves the owners alone or gives n to a factory that
\* accepts it; rejected stays a set of names.
LEMMA ResolveEffect ==
    ASSUME TypeOK, NEW src \in Sources, NEW n \in Names, Resolve(src, n)
    PROVE  /\ \/ claimed' = claimed
              \/ \E f \in Factories : /\ CanHandleAndAccept(f, n)[2]
                                      /\ claimed' = [claimed EXCEPT ![n] = f]
           /\ rejected' \subseteq Names
<1>1. CASE Handling(src, n) = {}
  BY <1>1 DEF Resolve, TypeOK
<1>2. CASE Handling(src, n) # {}
  <2>1. PICK i \in Handling(src, n) :
           LET f == factories[src][i]
           IN  IF CanHandleAndAccept(f, n)[2]
               THEN /\ claimed' = [claimed EXCEPT ![n] = f]
                    /\ rejected' = rejected \ {n}
               ELSE /\ rejected' = rejected \cup {n}
                    /\ UNCHANGED claimed
    BY <1>2 DEF Resolve
  <2>2. factories[src][i] \in Factories
    <3>1. i \in 1..Len(factories[src])
      BY DEF Handling
    <3>2. QED
      BY <3>1 DEF TypeOK
  <2>3. QED
    BY <2>1, <2>2 DEF TypeOK
<1>3. QED
  BY <1>1, <1>2

\* Under --docker_only, a name the raw factory accepts is "/" or prefixed
\* by a non-empty whitelist entry.
LEMMA RawAcceptsOnlyAllowed ==
    ASSUME TypeOK, OnlyFirstEntryMayBeEmpty, DockerOnly, NEW n \in Names,
           RawCanHandleAndAccept(n)[2]
    PROVE  n = Root \/ Whitelisted(n)
<1>1. CASE n = Root
  BY <1>1
<1>2. CASE n # Root
  <2>1. rawPrefixWhiteList[1] # <<>>
    BY <1>2 DEF RawCanHandleAndAccept
  <2>2. PICK i \in 1..Len(rawPrefixWhiteList) : HasPrefix(n, rawPrefixWhiteList[i])
    BY <1>2, <2>1 DEF RawCanHandleAndAccept
  <2>3. rawPrefixWhiteList[i] # <<>>
    BY <2>1, <2>2 DEF OnlyFirstEntryMayBeEmpty, TypeOK
  <2>4. QED
    BY <2>2, <2>3 DEF Whitelisted
<1>3. QED
  BY <1>1, <1>2

-----------------------------------------------------------------------------
LEMMA TypeInit == Init => TypeOK
BY NamesAssumption, FlagsAssumption DEF Init, TypeOK, RegistrationOrder

LEMMA TypeStep == TypeOK /\ [Next]_vars => TypeOK'
<1> SUFFICES ASSUME TypeOK, [Next]_vars PROVE TypeOK'
  OBVIOUS
<1> USE NamesAssumption, FlagsAssumption
<1>1. ASSUME NEW f \in Factories, RegisterStep(f) PROVE TypeOK'
  <2>1. factories' \in [Sources -> Seq(Factories)]
    <3>1. CASE Install(f)
      <4>1. \A s \in Sources : Append(factories[s], f) \in Seq(Factories)
        BY DEF TypeOK
      <4>2. QED
        BY <3>1, <4>1 DEF Install, TypeOK
    <3>2. CASE UNCHANGED factories
      BY <3>2 DEF TypeOK
    <3>3. QED
      BY <1>1, <3>1, <3>2 DEF RegisterStep
  <2>2. QED
    BY <1>1, <2>1 DEF RegisterStep, TypeOK, RegistrationOrder
<1>2. ASSUME NEW n \in Names, NEW src \in Sources, Discover(n, src) PROVE TypeOK'
  <2>1. claimed' \in [Names -> Factories \cup {NoFactory}] /\ rejected' \subseteq Names
    <3>1. CASE claimed[n] # NoFactory
      BY <1>2, <3>1 DEF Discover, ResolveUnclaimed, TypeOK
    <3>2. CASE claimed[n] = NoFactory
      BY <1>2, <3>2, ResolveEffect DEF Discover, ResolveUnclaimed, TypeOK
    <3>3. QED
      BY <3>1, <3>2
  <2>2. QED
    BY <1>2, <2>1 DEF Discover, TypeOK
<1>3. ASSUME NEW n \in Names, CgroupCreated(n) \/ CgroupRemoved(n) PROVE TypeOK'
  BY <1>3 DEF CgroupCreated, CgroupRemoved, TypeOK
<1>4. CASE DaemonStop \/ DaemonStart
  <2>1. CASE DaemonStop
    <3>1. restarts' \in 0..MaxDaemonRestarts
      BY <2>1 DEF DaemonStop, TypeOK
    <3>2. dockerUp' \in BOOLEAN
      BY <2>1 DEF DaemonStop
    <3>3. QED
      BY <2>1, <3>1, <3>2 DEF DaemonStop, TypeOK
  <2>2. CASE DaemonStart
    BY <2>2 DEF DaemonStart, TypeOK
  <2>3. QED
    BY <1>4, <2>1, <2>2
<1>5. CASE UNCHANGED vars
  BY <1>5 DEF vars, TypeOK
<1>6. QED
  BY <1>1, <1>2, <1>3, <1>4, <1>5 DEF Next, RegisterDocker, RegisterRkt,
                                      RegisterRaw, Factories

\* The registry's state is always well typed.
THEOREM TypeCorrect == Spec => []TypeOK
BY TypeInit, TypeStep, PTL DEF Spec

-----------------------------------------------------------------------------
\* The invariant DockerOnlyHonoured is inductive together with TypeOK.
Inv == TypeOK /\ DockerOnlyHonoured

LEMMA HonouredStep ==
    ASSUME OnlyFirstEntryMayBeEmpty
    PROVE  Inv /\ [Next]_vars => DockerOnlyHonoured'
<1> SUFFICES ASSUME Inv, [Next]_vars, DockerOnly
             PROVE  \A m \in Names : claimed'[m] = "raw" => m = Root \/ Whitelisted(m)'
  BY DEF DockerOnlyHonoured
<1> USE FlagsAssumption
<1>1. ASSUME NEW n \in Names, NEW src \in Sources, Discover(n, src),
             claimed[n] = NoFactory
      PROVE  \A m \in Names : claimed'[m] = "raw" => m = Root \/ Whitelisted(m)'
  <2>1. Resolve(src, n)
    BY <1>1 DEF Discover, ResolveUnclaimed
  <2>2. UNCHANGED rawPrefixWhiteList
    BY <1>1 DEF Discover
  <2>3. CASE claimed' = claimed
    BY <2>2, <2>3 DEF Inv, DockerOnlyHonoured, Whitelisted
  <2>4. CASE \E f \in Factories : /\ CanHandleAndAccept(f, n)[2]
                                  /\ claimed' = [claimed EXCEPT ![n] = f]
    <3>1. PICK f \in Factories : /\ CanHandleAndAccept(f, n)[2]
                                 /\ claimed' = [claimed EXCEPT ![n] = f]
      BY <2>4
    <3>2. f = "raw" => n = Root \/ Whitelisted(n)
      <4>1. f = "raw" => RawCanHandleAndAccept(n)[2]
        BY <3>1 DEF CanHandleAndAccept
      <4>2. QED
        BY <4>1, RawAcceptsOnlyAllowed DEF Inv
    <3>3. QED
      BY <2>2, <3>1, <3>2 DEF Inv, TypeOK, DockerOnlyHonoured, Whitelisted
  <2>5. QED
    BY <2>1, <2>3, <2>4, ResolveEffect DEF Inv
<1>2. ASSUME NEW n \in Names, NEW src \in Sources, Discover(n, src),
             claimed[n] # NoFactory
      PROVE  \A m \in Names : claimed'[m] = "raw" => m = Root \/ Whitelisted(m)'
  BY <1>2 DEF Discover, ResolveUnclaimed, Inv, DockerOnlyHonoured, Whitelisted
<1>3. ASSUME NEW n \in Names, CgroupRemoved(n)
      PROVE  \A m \in Names : claimed'[m] = "raw" => m = Root \/ Whitelisted(m)'
  BY <1>3, NoFactoryAssumption DEF CgroupRemoved, Inv, TypeOK, DockerOnlyHonoured,
                                   Whitelisted, Factories
<1>4. CASE \/ \E f \in Factories : RegisterStep(f)
           \/ \E n \in Names : CgroupCreated(n)
           \/ DaemonStop \/ DaemonStart \/ UNCHANGED vars
  BY <1>4 DEF RegisterStep, CgroupCreated, DaemonStop, DaemonStart, vars, Inv,
              DockerOnlyHonoured, Whitelisted
<1>5. QED
  BY <1>1, <1>2, <1>3, <1>4 DEF Next, RegisterDocker, RegisterRkt, RegisterRaw,
                                Factories

(* With --docker_only the raw factory's handlers own only "/" and names a  *)
(* non-empty whitelist entry prefixes (rawFactory.CanHandleAndAccept with   *)
(* the registry's first-handler-decides scan), for every set of names,     *)
(* whitelists without a later empty entry, and registration outcome.       *)
THEOREM RawOwnsOnlyAllowed ==
    ASSUME OnlyFirstEntryMayBeEmpty
    PROVE  Spec => []DockerOnlyHonoured
<1>1. Init => Inv
  BY TypeInit, NoFactoryAssumption DEF Init, Inv, DockerOnlyHonoured, Factories
<1>2. Inv /\ [Next]_vars => Inv'
  BY TypeStep, HonouredStep DEF Inv
<1>3. Inv => DockerOnlyHonoured
  BY DEF Inv
<1>4. QED
  BY <1>1, <1>2, <1>3, PTL DEF Spec

=============================================================================
