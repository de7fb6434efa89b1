------------------------------ MODULE Resource ------------------------------
(***************************************************************************)
(* Resources under STRICT_MODE (Resource.hpp, Resource.cpp, Thread.cpp):   *)
(* a Resource registers itself with the ResourceManager while it tracks    *)
(* something, and an audit throws if anybody is registered.  The manager   *)
(* is a LazySingleton: each call of track(), release() and audit() first   *)
(* gets the instance, by the steps of Singleton.                           *)
(*                                                                         *)
(* A resource lives as it does in the function of a Thread: it is tracked, *)
(* released, and released again by its destructor.  A new one may follow.  *)
(***************************************************************************)
EXTENDS Singleton, FiniteSets

CONSTANTS
    Resources,    \* the resources, each used by one thread
    Auditors      \* the threads that audit; both make up Callers

VARIABLES
    rpc,         \* rpc[c]: which call caller c is in, or was in last
    registered,  \* registered[m]: _resources of manager m
    terminated   \* an exception has left a noexcept function

resourceVars == <<rpc, registered, terminated>>
allVars == <<vars, resourceVars>>

ResourceInit ==
    /\ Init
    /\ rpc = [c \in Callers |-> "idle"]
    /\ registered = [m \in 1 .. MaxObjects |-> {}]
    /\ terminated = FALSE

RGoto(c, from, to) == rpc[c] = from /\ rpc' = [rpc EXCEPT ![c] = to]

\* A call of the manager begins: ResourceManager::get_instance()->...
Begin(c, from, to) ==
    /\ RGoto(c, from, to)
    /\ Call(c)
    /\ UNCHANGED <<registered, terminated>>

\* The call, on the instance the caller has got, under the lock of that one
End(c, from, to) ==
    /\ RGoto(c, from, to)
    /\ gpc[c] = "got"
    /\ gpc' = [gpc EXCEPT ![c] = "idle"]
    /\ UNCHANGED <<platform, made, instance, entry, once, failures, handle, terminated>>

Manager(c) == handle[c][1]

\* track(): _resources.insert(resource)
Track(r) == Begin(r, "idle", "track")
Insert(r) ==
    /\ End(r, "track", "tracked")
    /\ registered' = [registered EXCEPT ![Manager(r)] = @ \cup {r}]

\* Mutant of Erase: nothing is erased, as if the lock or the key were another's.
EraseNothing(r) ==
    /\ \/ End(r, "release", "released")
       \/ End(r, "destroy", "idle")
    /\ UNCHANGED registered

\* release(), called by the user and again by ~Resource()
Release(r) == Begin(r, "tracked", "release")
Destroy(r) == Begin(r, "released", "destroy")
Erase(r) ==
    /\ \/ End(r, "release", "released")
       \/ End(r, "destroy", "idle")
    /\ registered' = [registered EXCEPT ![Manager(r)] = @ \ {r}]

\* audit() returns, or throws BadHandlingException.
Audit(a) == Begin(a, "idle", "audit")
AuditPasses(a) ==
    /\ gpc[a] = "got" /\ registered[Manager(a)] = {}
    /\ End(a, "audit", "idle")
    /\ UNCHANGED registered
AuditThrows(a) ==
    /\ gpc[a] = "got" /\ registered[Manager(a)] # {}
    /\ End(a, "audit", "idle")
    /\ UNCHANGED registered

\* get_instance() within any of them; track() and release() are noexcept, and
\* an audit is simply not made.
Get(c) ==
    /\ GetInstance(c)
    /\ IF gpc'[c] = "idle"
          THEN /\ terminated' = (c \in Resources)
               /\ rpc' = [rpc EXCEPT ![c] = "idle"]
          ELSE UNCHANGED <<rpc, terminated>>
    /\ UNCHANGED registered

ResourceNext ==
    /\ ~terminated
    /\ \/ \E r \in Resources : Track(r) \/ Insert(r) \/ Release(r) \/ Destroy(r) \/ Erase(r)
       \/ \E a \in Auditors : Audit(a) \/ AuditPasses(a) \/ AuditThrows(a)
       \/ \E c \in Callers : Get(c)

ResourceSpec == ResourceInit /\ [][ResourceNext]_allVars

-----------------------------------------------------------------------------
(* Properties                                                              *)

ResourceTypeOK ==
    /\ TypeOK
    /\ rpc \in [Callers -> {"idle", "track", "tracked", "release", "released",
                            "destroy", "audit"}]
    /\ registered \in [1 .. MaxObjects -> SUBSET Resources]
    /\ terminated \in BOOLEAN

\* An audit that passes misses nobody: whoever has been tracked and has not
\* begun its release; one that throws has a reason: somebody whose release has
\* not ended (Resource.cpp:43-50, test_Resource.cpp:53-80).
ExactAudit ==
    \A a \in Auditors :
        gpc[a] = "got" /\ gpc'[a] = "idle" =>
            LET passes == registered[Manager(a)] = {}
            IN  IF passes THEN \A r \in Resources : rpc[r] # "tracked"
                          ELSE \E r \in Resources : rpc[r] \in {"tracked", "release"}
AuditIsExact == [][ExactAudit]_allVars
=============================================================================
