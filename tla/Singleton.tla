----------------------------- MODULE Singleton -----------------------------
(***************************************************************************)
(* LazySingleton::get_instance() (Singleton.hpp, Singleton.cpp), called by *)
(* any number of threads.  There are two builds of it: on Linux a static   *)
(* shared_ptr is tested and assigned without any guard, on Windows every   *)
(* call goes through SingletonRegistry with a mutex and a once_flag.       *)
(*                                                                         *)
(* A shared_ptr is two words, the object and the control block that owns   *)
(* it; a read or a write of a shared one that nothing guards is two steps. *)
(***************************************************************************)
EXTENDS Naturals

CONSTANTS
    Callers,     \* the threads that call get_instance()
    Platforms,   \* the builds considered, among "linux" and "windows"
    Warm         \* the builds where a call has returned before these begin

\* Bounds: each caller makes at most one object per call, and fails once.
CONSTANTS MaxObjects, MaxFailures

VARIABLES
    platform,  \* the build
    made,      \* the number of objects made; they are numbered from 1
    instance,  \* the shared instance, <<object, owner>>, <<0, 0>> if null
    entry,     \* the type has an entry in the registry (Windows)
    once,      \* its once_flag: "open", "busy" or "done" (Windows)
    failures,  \* how often the factory has thrown
    gpc,       \* gpc[c]: where caller c is in get_instance()
    handle     \* handle[c]: what the call returned, or the new object

getVars == <<made, instance, entry, once, failures, gpc, handle>>
vars == <<platform, getVars>>

Null == <<0, 0>>

Init ==
    /\ platform \in Platforms
    /\ made = IF platform \in Warm THEN 1 ELSE 0
    /\ instance = <<made, made>>
    /\ entry = (platform = "windows" /\ made = 1)
    /\ once = IF entry THEN "done" ELSE "open"
    /\ failures = 0
    /\ gpc = [c \in Callers |-> "idle"]
    /\ handle = [c \in Callers |-> Null]

GGoto(c, from, to) == gpc[c] = from /\ gpc' = [gpc EXCEPT ![c] = to]

\* std::make_shared<Derived>(), held by the caller for the moment
Construct(c) ==
    /\ made < MaxObjects
    /\ made' = made + 1
    /\ handle' = [handle EXCEPT ![c] = <<made', made'>>]

Call(c) ==
    /\ GGoto(c, "idle", IF platform = "linux" THEN "test" ELSE "lookup")
    /\ handle' = [handle EXCEPT ![c] = Null]
    /\ UNCHANGED <<platform, made, instance, entry, once, failures>>

-----------------------------------------------------------------------------
(* Linux: a static local with a null test of its own                       *)

\* if (instance == nullptr)
Test(c) ==
    /\ GGoto(c, "test", IF instance[1] = 0 THEN "make" ELSE "object")
    /\ UNCHANGED <<platform, made, instance, entry, once, failures, handle>>

Make(c) ==
    /\ GGoto(c, "make", "assign")
    /\ Construct(c)
    /\ UNCHANGED <<platform, instance, entry, once, failures>>

\* instance = ..., its object and then its owner
AssignObject(c) ==
    /\ GGoto(c, "assign", "own")
    /\ instance' = <<handle[c][1], instance[2]>>
    /\ UNCHANGED <<platform, made, entry, once, failures, handle>>

AssignOwner(c) ==
    /\ GGoto(c, "own", "object")
    /\ instance' = <<instance[1], handle[c][2]>>
    /\ UNCHANGED <<platform, made, entry, once, failures, handle>>

\* return instance, on Linux while others may assign it
ReadObject(c) ==
    /\ GGoto(c, "object", "owner")
    /\ handle' = [handle EXCEPT ![c] = <<instance[1], 0>>]
    /\ UNCHANGED <<platform, made, instance, entry, once, failures>>

ReadOwner(c) ==
    /\ GGoto(c, "owner", "got")
    /\ handle' = [handle EXCEPT ![c] = <<@[1], instance[2]>>]
    /\ UNCHANGED <<platform, made, instance, entry, once, failures>>

-----------------------------------------------------------------------------
(* Windows: SingletonRegistry::get                                         *)

\* Mutant of Lookup: the map is not locked and an entry may be replaced by
\* that of another caller, with a flag of its own.
LookupRacy(c) ==
    /\ GGoto(c, "lookup", "once")
    /\ entry' = TRUE
    /\ once' \in IF entry THEN {once, "open"} ELSE {"open"}
    /\ UNCHANGED <<platform, made, instance, failures, handle>>

\* registry_mutex is held from the search to the insertion.
Lookup(c) ==
    /\ GGoto(c, "lookup", "once")
    /\ entry' = TRUE
    /\ once' = IF entry THEN once ELSE "open"
    /\ UNCHANGED <<platform, made, instance, failures, handle>>

\* std::call_once: one caller runs the factory, the others wait for it.
OnceEnter(c) ==
    /\ GGoto(c, "once", "factory")
    /\ once = "open"
    /\ once' = "busy"
    /\ UNCHANGED <<platform, made, instance, entry, failures, handle>>

OncePass(c) ==
    /\ GGoto(c, "once", "object")
    /\ once = "done"
    /\ UNCHANGED <<platform, made, instance, entry, once, failures, handle>>

\* entry->instance = factory()
Factory(c) ==
    /\ GGoto(c, "factory", "object")
    /\ Construct(c)
    /\ instance' = handle'[c]
    /\ once' = "done"
    /\ UNCHANGED <<platform, entry, failures>>

\* The constructor throws: the flag is open again and the caller, or the next
\* one that waits, tries once more.
FactoryThrows(c) ==
    /\ GGoto(c, "factory", "idle")
    /\ failures < MaxFailures
    /\ failures' = failures + 1
    /\ once' = "open"
    /\ UNCHANGED <<platform, made, instance, entry, handle>>

GetInstance(c) ==
    \/ Test(c) \/ Make(c) \/ AssignObject(c) \/ AssignOwner(c)
    \/ ReadObject(c) \/ ReadOwner(c)
    \/ Lookup(c) \/ OnceEnter(c) \/ OncePass(c) \/ Factory(c) \/ FactoryThrows(c)

-----------------------------------------------------------------------------
(* Properties                                                              *)

TypeOK ==
    /\ platform \in Platforms
    /\ made \in 0 .. MaxObjects
    /\ instance \in (0 .. MaxObjects) \X (0 .. MaxObjects)
    /\ entry \in BOOLEAN
    /\ once \in {"open", "busy", "done"}
    /\ failures \in 0 .. MaxFailures
    /\ gpc \in [Callers -> {"idle", "test", "make", "assign", "own", "object",
                            "owner", "lookup", "once", "factory", "got"}]
    /\ handle \in [Callers -> (0 .. MaxObjects) \X (0 .. MaxObjects)]

\* Every call returns the same object, and an owner of that object
\* (Singleton.hpp:56-57, 131-134).
OneInstance ==
    \A c, d \in Callers :
        gpc[c] = "got" /\ gpc[d] = "got" =>
            handle[c] = handle[d] /\ handle[c][1] = handle[c][2]
=============================================================================
