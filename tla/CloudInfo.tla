------------------------------ MODULE CloudInfo ------------------------------
(***************************************************************************)
(* Cloud provider detection (utils/cloudinfo).  Providers register under a *)
(* name from their package init functions, before main runs; a second     *)
(* registration under a name replaces the first.  Every machine.Info call *)
(* then builds a realCloudInfo with NewRealCloudInfo, which ranges over    *)
(* the registered providers in Go's map order (a fresh, unspecified order  *)
(* on every range) and keeps the first one whose IsActiveProvider holds,   *)
(* or reports the unknown provider.  A provider implementation is a model  *)
(* value; whether it detects the instance is the constant Active.          *)
(***************************************************************************)
EXTENDS Naturals, FiniteSets

CONSTANTS
    Names,        \* info.CloudProvider names providers register under
    Impls,        \* CloudProvider implementations
    Registrations,\* <<name, implementation>> a provider package registers
    Active,       \* the implementations whose IsActiveProvider holds here
    Unknown,      \* info.UnknownProvider
    NoImpl,       \* no provider registered under a name
    MaxInfoCalls  \* machine.Info calls a run makes

ASSUME CloudAssumption ==
    /\ IsFiniteSet(Names)
    /\ Registrations \subseteq Names \X Impls
    /\ Active \subseteq Impls
    /\ Unknown \notin Names /\ NoImpl \notin Impls
    /\ MaxInfoCalls \in Nat

VARIABLES
    providers,  \* the package's providers map: name -> implementation
    started,    \* package initialisation is over, main runs
    reported,   \* the cloud providers machine.Info calls reported so far
    calls       \* how many machine.Info calls were made

vars == <<providers, started, reported, calls>>

Registered == {n \in Names : providers[n] # NoImpl}

IsActiveProvider(p) == p \in Active

Init ==
    /\ providers = [n \in Names |-> NoImpl]
    /\ started = FALSE
    /\ reported = {}
    /\ calls = 0

\* RegisterCloudProvider, called from a provider package's init: a
\* duplicate is only logged, and the new provider replaces the old one.
RegisterCloudProvider(name, provider) ==
    /\ ~started
    /\ providers' = [providers EXCEPT ![name] = provider]
    /\ UNCHANGED <<started, reported, calls>>

Main ==
    /\ ~started
    /\ started' = TRUE
    /\ UNCHANGED <<providers, reported, calls>>

NewRealCloudInfoProviderNotName(order) ==
    LET hits == {i \in DOMAIN order : IsActiveProvider(providers[order[i]])}
    IN  IF hits = {} THEN Unknown
        ELSE providers[order[CHOOSE i \in hits : \A j \in hits : i <= j]]

NewRealCloudInfoFirstRegistered(order) ==
    IF Registered = {} THEN Unknown ELSE order[1]

\* NewRealCloudInfo with the map ranged in the order `order` (a sequence
\* of the registered names): the first active provider's name, or the
\* unknown provider.
NewRealCloudInfo(order) ==
    LET hits == {i \in DOMAIN order : IsActiveProvider(providers[order[i]])}
    IN  IF hits = {} THEN Unknown
        ELSE order[CHOOSE i \in hits : \A j \in hits : i <= j]

\* The orders in which a range over the map can visit the registered names.
MapOrders ==
    {o \in [1..Cardinality(Registered) -> Registered] :
        \A i, j \in DOMAIN o : i # j => o[i] # o[j]}

\* machine.Info's cloud part: GetCloudProvider of a new realCloudInfo.
InfoCall ==
    /\ started
    /\ calls < MaxInfoCalls
    /\ \E order \in MapOrders : reported' = reported \cup {NewRealCloudInfo(order)}
    /\ calls' = calls + 1
    /\ UNCHANGED <<providers, started>>

Next ==
    \/ \E r \in Registrations : RegisterCloudProvider(r[1], r[2])
    \/ Main
    \/ InfoCall

Spec == Init /\ [][Next]_vars

-----------------------------------------------------------------------------
TypeOK ==
    /\ providers \in [Names -> Impls \cup {NoImpl}]
    /\ started \in BOOLEAN
    /\ reported \subseteq Names \cup {Unknown}
    /\ calls \in 0..MaxInfoCalls

(* The cloud provider machine.Info reports is one whose provider, as the   *)
(* map holds it after the duplicate registrations, detects this instance; *)
(* the unknown provider is reported only when none of them does          *)
(* (NewRealCloudInfo's loop and its fallback).                            *)
ReportsAnActiveProvider ==
    \A r \in reported :
        IF r = Unknown THEN \A n \in Registered : ~IsActiveProvider(providers[n])
        ELSE r \in Registered /\ IsActiveProvider(providers[r])

(* Every machine.Info call of one process reports the same cloud provider. *)
CloudProviderStable ==
    \A r1, r2 \in reported : r1 = r2

=============================================================================
