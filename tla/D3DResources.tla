------------------------------ MODULE D3DResources -----------------------------
(***************************************************************************)
(* The Direct3D resources that D3D.cpp keeps for its callers: created with *)
(* autoCleanup they are released before the engine resets its device and   *)
(* created anew after it.  A resource is known by the address of the       *)
(* pointer that holds it; a texture may have a surface pointer besides.    *)
(*                                                                         *)
(* Callers create a resource when their pointer is null and leave it to    *)
(* the engine's hooks to release it.                                       *)
(***************************************************************************)
EXTENDS Naturals, FiniteSets

CONSTANTS Pointers,  \* addresses of pointers
          Surfaces   \* the ones that are created with a surface pointer

Kinds == {"texture", "target", "vertex", "pixel"}

VARIABLES device,   \* "ok"; "lost": GetDevice returns null; "none"
          managed,  \* g_managedResources: the kind at each address
          held,     \* addresses whose pointer is not null
          surfaced, \* addresses whose surface pointer is not null
          alive,    \* references to resources and surfaces not released,
                    \* counted for each address
          released  \* the engine is between release and restore

vars == <<device, managed, held, surfaced, alive, released>>

TypeOK ==
    /\ device \in {"ok", "lost", "none"}
    /\ DOMAIN managed \subseteq Pointers
    /\ \A p \in DOMAIN managed : managed[p] \in Kinds
    /\ held \subseteq Pointers /\ surfaced \subseteq held
    /\ alive \in [Pointers -> 0..2]
    /\ released \in BOOLEAN

Init ==
    /\ device = "none" /\ managed = <<>> /\ held = {} /\ surfaced = {}
    /\ alive = [p \in Pointers |-> 0]
    /\ released = FALSE

\* A creation takes a reference, and one more for the surface of a texture;
\* a texture that cannot be locked to be cleared has no surface taken.
Surfaced(p, kind, locks) == IF kind = "texture" /\ p \in Surfaces /\ locks THEN {p} ELSE {}
Taken(p, kind, locks) == 1 + Cardinality(Surfaced(p, kind, locks))

\* An address that is registered already keeps the kind it was registered as.
RegisterForCleanup(p, kind) ==
    managed' = IF p \in DOMAIN managed THEN managed
               ELSE [q \in DOMAIN managed \cup {p} |-> IF q = p THEN kind ELSE managed[q]]

\* CreateTexture, CreateRenderTarget, CompileVertexShader, CompilePixelShader
\* with autoCleanup.  Without a device, or when Direct3D refuses, nothing
\* changes; a texture that cannot be locked stays with its caller.
Create(p, kind, locks) ==
    /\ p \notin held /\ ~released /\ device = "ok"
    /\ held' = held \cup {p}
    /\ surfaced' = surfaced \cup Surfaced(p, kind, locks)
    /\ alive' = [alive EXCEPT ![p] = @ + Taken(p, kind, locks)]
    /\ IF kind = "texture" /\ ~locks THEN UNCHANGED managed ELSE RegisterForCleanup(p, kind)
    /\ UNCHANGED <<device, released>>

\* CGxDeviceD3d__IDestroyD3dHk and DeviceCreateHk call what is registered;
\* the engine has released everything when it destroys its device.
DestroyDevice ==
    /\ device # "none" /\ released
    /\ device' = "none" /\ UNCHANGED <<managed, held, surfaced, alive, released>>

LoseDevice ==
    /\ device = "ok" /\ device' = "lost"
    /\ UNCHANGED <<managed, held, surfaced, alive, released>>

RegainDevice ==
    /\ device = "lost" /\ device' = "ok"
    /\ UNCHANGED <<managed, held, surfaced, alive, released>>

CreateDevice ==
    /\ device = "none" /\ device' = "ok"
    /\ UNCHANGED <<managed, held, surfaced, alive, released>>

\* mutant: a surface keeps its texture alive
CleanupKeepsSurfaces ==
    /\ held' = held \ DOMAIN managed
    /\ alive' = [p \in Pointers |-> IF p \in DOMAIN managed \cap held THEN alive[p] - 1 ELSE alive[p]]
    /\ surfaced' = surfaced \ DOMAIN managed

\* CleanupManagedResources: pointer and surface are released and cleared.
Cleanup ==
    /\ held' = held \ DOMAIN managed
    /\ surfaced' = surfaced \ DOMAIN managed
    /\ alive' = [p \in Pointers |->
         IF p \notin DOMAIN managed THEN alive[p]
         ELSE alive[p] - Cardinality({p} \cap held) - Cardinality({p} \cap surfaced)]

\* CGxDeviceD3d__IReleaseD3dResourcesHk.
ReleaseD3dResources ==
    /\ device # "none"
    /\ Cleanup /\ released' = TRUE
    /\ UNCHANGED <<device, managed>>

\* What RestoreManagedResources finds null.
Missing == DOMAIN managed \ held

\* RestoreManagedResources, called by CGxDevice__NotifyOnDeviceRestoredHk and
\* CGxDeviceD3d__DeviceSetFormatHk: each resource may fail on its own.
Restore(done, locks) ==
    /\ device # "none" /\ released' = FALSE
    /\ IF device = "ok"
       THEN /\ done \subseteq Missing
            /\ held' = held \cup done
            /\ surfaced' = surfaced \cup UNION {Surfaced(p, managed[p], locks) : p \in done}
            /\ alive' = [p \in Pointers |-> IF p \in done THEN alive[p] + Taken(p, managed[p], locks)
                                            ELSE alive[p]]
       ELSE UNCHANGED <<held, surfaced, alive>>
    /\ UNCHANGED <<device, managed>>

Next ==
    \/ \E p \in Pointers, k \in Kinds, locks \in BOOLEAN : Create(p, k, locks)
    \/ CreateDevice \/ DestroyDevice \/ LoseDevice \/ RegainDevice
    \/ ReleaseD3dResources
    \/ \E done \in SUBSET Pointers, locks \in BOOLEAN : Restore(done, locks)

Spec == Init /\ [][Next]_vars

-------------------------------------------------------------------------------
\* Properties.

\* When the engine resets its device nothing that is registered is alive: one
\* reference left, be it a surface's, makes Direct3D refuse the reset
\* (D3D.cpp:51-62, 295-299).
NothingAliveAtReset == released => \A p \in DOMAIN managed : alive[p] = 0
===============================================================================
