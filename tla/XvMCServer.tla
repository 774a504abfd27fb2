------------------------------ MODULE XvMCServer ------------------------------
(***************************************************************************)
(* The X server's side of XvMC resources: the tables of contexts, surfaces *)
(* and subpictures of src/via_xvmc.c, the video memory src/via_memory.c    *)
(* gives them, and the words by which clients and server name them: the    *)
(* SAREA's XvMCDisplaying and XvMCSubPicOn and the port's ctxDisplaying.   *)
(* The server handles one request at a time, so a request is one step; the *)
(* clients write the SAREA in between.                                     *)
(*                                                                         *)
(* External: the server's XvMC layer, which calls the Destroy handlers once *)
(* for every object it has created, when a client asks or dies, a context  *)
(* after its surfaces and subpictures, and resets the server only without  *)
(* clients; the DRM and the X off-screen allocators; malloc, which may     *)
(* fail.                                                                   *)
(***************************************************************************)
EXTENDS Integers, FiniteSets

CONSTANTS MaxContexts,  \* VIA_XVMC_MAX_CONTEXTS
          MaxSurfaces,  \* VIA_XVMC_MAX_SURFACES
          Ids,          \* XIDs of XvMC objects
          NoId,         \* a free slot's 0
          DrmBlocks,    \* video memory managed by the DRM module
          XBlocks,      \* off-screen memory managed by the X server
          NoBlock,      \* a null sPrivs[] pointer
          NoSlot        \* a SAREA word, or ctxDisplaying, of 0

ASSUME ServerAssumption ==
  /\ MaxContexts \in Nat \ {0} /\ MaxSurfaces \in Nat \ {0}
  /\ NoId \notin Ids
  /\ NoBlock \notin DrmBlocks \cup XBlocks /\ DrmBlocks \cap XBlocks = {}
  /\ NoSlot \notin Nat

VARIABLES
  enabled,        \* XvMCEnabled
  port,           \* the adaptor port's xvmc_port
  activePorts,    \* ports numbered so far
  contexts,       \* XID of the context in each slot
  cPrivs,         \* slots with a ViaXvMCContextPriv
  nContexts,
  surfaces,       \* XID of the surface or subpicture in each slot
  sPrivs,         \* memory_ref of the slot's ViaXvMCSurfacePriv
  nSurfaces,
  used,           \* blocks the two allocators have given away
  kind,           \* XvMC layer: what each XID is
  parent,         \* XvMC layer: the context of a surface or subpicture
  displaying,     \* SAREA: slot of the surface displayed
  subPicOn,       \* SAREA: slot of the subpicture displayed
  ctxDisplaying,  \* slot of the context whose attributes are in effect
  overlayOn,      \* hardware: the overlay is enabled
  overrun         \* a slot search ran past the end of its table

tableVars == <<contexts, cPrivs, nContexts, surfaces, sPrivs, nSurfaces>>
nameVars  == <<displaying, subPicOn, ctxDisplaying, overlayOn>>
vars == <<enabled, port, activePorts, tableVars, used, kind, parent, nameVars,
          overrun>>

CtxSlots == 0..MaxContexts - 1
SrfSlots == 0..MaxSurfaces - 1
Blocks   == DrmBlocks \cup XBlocks

(* The driver before ViaInitXVMC; pVia was allocated zeroed.               *)
Init ==
  /\ enabled = FALSE /\ port = -1 /\ activePorts = 0
  /\ contexts = [i \in CtxSlots |-> NoId] /\ cPrivs = {} /\ nContexts = 0
  /\ surfaces = [i \in SrfSlots |-> NoId]
  /\ sPrivs = [i \in SrfSlots |-> NoBlock] /\ nSurfaces = 0
  /\ used = {}
  /\ kind = [x \in Ids |-> "none"] /\ parent = [x \in Ids |-> NoId]
  /\ displaying = NoSlot /\ subPicOn = NoSlot /\ ctxDisplaying = NoSlot
  /\ overlayOn = FALSE /\ overrun = FALSE

-----------------------------------------------------------------------------
(* ViaInitXVMC that succeeds, with initViaXvMC: the tables are cleared and *)
(* the counters are not.  viaXvMCInitXv has given the port no number yet.  *)
InitXvMC ==
  /\ ~ enabled
  /\ enabled' = TRUE
  /\ contexts' = [i \in CtxSlots |-> NoId] /\ cPrivs' = {}
  /\ surfaces' = [i \in SrfSlots |-> NoId]
  /\ sPrivs' = [i \in SrfSlots |-> NoBlock]
  /\ activePorts' = 0 /\ port' = -1 /\ ctxDisplaying' = NoSlot
  /\ UNCHANGED <<nContexts, nSurfaces, used, kind, parent, displaying, subPicOn,
                 overlayOn, overrun>>

(* ViaCleanupXVMC, with cleanupViaXvMC, when the server resets.            *)
CleanupXvMC ==
  /\ enabled /\ \A x \in Ids : kind[x] = "none"
  /\ enabled' = FALSE
  /\ contexts' = [i \in CtxSlots |-> NoId] /\ cPrivs' = {}
  /\ surfaces' = [i \in SrfSlots |-> NoId]
  /\ sPrivs' = [i \in SrfSlots |-> NoBlock]
  /\ UNCHANGED <<port, activePorts, nContexts, nSurfaces, used, kind, parent,
                 nameVars, overrun>>

(* A port gets its number, and its SAREA words are cleared, with the first *)
(* request for a context, whether or not that succeeds.                    *)
NumberPort ==
  IF port = -1
    THEN /\ port' = activePorts /\ activePorts' = activePorts + 1
         /\ displaying' = NoSlot /\ subPicOn' = NoSlot
    ELSE UNCHANGED <<port, activePorts, displaying, subPicOn>>

(* Out of contexts, or out of memory.                                      *)
CreateContextFails ==
  /\ enabled
  /\ NumberPort
  /\ UNCHANGED <<enabled, tableVars, used, kind, parent, ctxDisplaying, overlayOn,
                 overrun>>

(* The first slot of a table that holds v, as a set: a search without a     *)
(* result runs past the table.                                             *)
FirstWith(table, v) ==
  {i \in DOMAIN table : table[i] = v /\ \A j \in DOMAIN table : j < i => table[j] # v}

(* ViaXvMCCreateContext: the first slot without an XID.                    *)
CreateContext(x) ==
  /\ enabled /\ kind[x] = "none"
  /\ NumberPort
  /\ nContexts < MaxContexts
  /\ nContexts' = nContexts + 1
  /\ kind' = [kind EXCEPT ![x] = "context"]
  /\ LET new == FirstWith(contexts, NoId)
     IN /\ contexts' = [i \in CtxSlots |-> IF i \in new THEN x ELSE contexts[i]]
        /\ cPrivs' = cPrivs \cup new
        /\ overrun' = (overrun \/ new = {})
  /\ UNCHANGED <<enabled, surfaces, sPrivs, nSurfaces, used, parent,
                 ctxDisplaying, overlayOn>>

(* VIAAllocLinear: the DRM module, or the X server when that has nothing.  *)
AllocLinear(b) == \/ b \in DrmBlocks \ used
                  \/ b \in XBlocks \ used /\ DrmBlocks \subseteq used

(* ViaXvMCCreateSurface and ViaXvMCCreateSubpicture: the first slot without *)
(* private data, and a block of memory.  A failure on the way frees what it *)
(* has and changes nothing.                                                *)
CreateSurface(x, what, ctx) ==
  /\ enabled /\ kind[x] = "none" /\ kind[ctx] = "context"
  /\ what \in {"surface", "subpicture"}
  /\ nSurfaces # MaxSurfaces
  /\ nSurfaces' = nSurfaces + 1
  /\ kind' = [kind EXCEPT ![x] = what]
  /\ parent' = [parent EXCEPT ![x] = ctx]
  /\ LET new == FirstWith(sPrivs, NoBlock)
     IN \E b \in Blocks :
          /\ AllocLinear(b)
          /\ used' = used \cup {b}
          /\ sPrivs' = [i \in SrfSlots |-> IF i \in new THEN b ELSE sPrivs[i]]
          /\ surfaces' = [i \in SrfSlots |-> IF i \in new THEN x ELSE surfaces[i]]
          /\ overrun' = (overrun \/ new = {})
  /\ UNCHANGED <<enabled, port, activePorts, contexts, cPrivs, nContexts, nameVars>>

(* ViaXvMCDestroyContext: the attributes are nobody's if they were its own.*)
DestroyContext_KeepsDisplaying(x) ==
  /\ kind[x] = "context" /\ \A y \in Ids : kind[y] # "none" => parent[y] # x
  /\ kind' = [kind EXCEPT ![x] = "none"]
  /\ \E i \in FirstWith(contexts, x) :
       /\ contexts' = [contexts EXCEPT ![i] = NoId]
       /\ cPrivs' = cPrivs \ {i}
       /\ nContexts' = nContexts - 1
  /\ UNCHANGED <<enabled, port, activePorts, surfaces, sPrivs, nSurfaces, used, parent,
                 ctxDisplaying, displaying, subPicOn, overlayOn, overrun>>

DestroyContext_Uncounted(x) ==
  /\ kind[x] = "context" /\ \A y \in Ids : kind[y] # "none" => parent[y] # x
  /\ kind' = [kind EXCEPT ![x] = "none"]
  /\ \E i \in FirstWith(contexts, x) :
       /\ contexts' = [contexts EXCEPT ![i] = NoId]
       /\ cPrivs' = cPrivs \ {i}
       /\ ctxDisplaying' = IF ctxDisplaying = i THEN NoSlot ELSE ctxDisplaying
  /\ UNCHANGED <<enabled, port, activePorts, surfaces, sPrivs, nSurfaces, used, parent,
                 nContexts, displaying, subPicOn, overlayOn, overrun>>

DestroyContext(x) ==
  /\ kind[x] = "context" /\ \A y \in Ids : kind[y] # "none" => parent[y] # x
  /\ kind' = [kind EXCEPT ![x] = "none"]
  /\ \E i \in FirstWith(contexts, x) :
       /\ contexts' = [contexts EXCEPT ![i] = NoId]
       /\ cPrivs' = cPrivs \ {i}
       /\ nContexts' = nContexts - 1
       /\ ctxDisplaying' = IF ctxDisplaying = i THEN NoSlot ELSE ctxDisplaying
  /\ UNCHANGED <<enabled, port, activePorts, surfaces, sPrivs, nSurfaces, used, parent,
                 displaying, subPicOn, overlayOn, overrun>>

(* ViaXvMCDestroySurface and ViaXvMCDestroySubpicture: a compare-and-swap  *)
(* takes the slot out of the SAREA word of its kind, and hides what is     *)
(* displayed; memory and slot are given back.                              *)
DestroySurface_KeepsMemory(x) ==
  /\ kind[x] \in {"surface", "subpicture"}
  /\ kind' = [kind EXCEPT ![x] = "none"]
  /\ parent' = [parent EXCEPT ![x] = NoId]
  /\ \E i \in FirstWith(surfaces, x) :
       /\ sPrivs' = [sPrivs EXCEPT ![i] = NoBlock]
       /\ surfaces' = [surfaces EXCEPT ![i] = NoId]
       /\ nSurfaces' = nSurfaces - 1
       /\ IF kind[x] = "surface" /\ displaying = i
            THEN displaying' = NoSlot /\ overlayOn' = FALSE
            ELSE UNCHANGED <<displaying, overlayOn>>
       /\ subPicOn' = IF kind[x] = "subpicture" /\ subPicOn = i THEN NoSlot ELSE subPicOn
  /\ UNCHANGED <<enabled, port, activePorts, contexts, cPrivs, nContexts, used,
                 ctxDisplaying, overrun>>

DestroySurface(x) ==
  /\ kind[x] \in {"surface", "subpicture"}
  /\ kind' = [kind EXCEPT ![x] = "none"]
  /\ parent' = [parent EXCEPT ![x] = NoId]
  /\ \E i \in FirstWith(surfaces, x) :
       /\ used' = used \ {sPrivs[i]}
       /\ sPrivs' = [sPrivs EXCEPT ![i] = NoBlock]
       /\ surfaces' = [surfaces EXCEPT ![i] = NoId]
       /\ nSurfaces' = nSurfaces - 1
       /\ IF kind[x] = "surface" /\ displaying = i
            THEN displaying' = NoSlot /\ overlayOn' = FALSE
            ELSE UNCHANGED <<displaying, overlayOn>>
       /\ subPicOn' = IF kind[x] = "subpicture" /\ subPicOn = i THEN NoSlot ELSE subPicOn
  /\ UNCHANGED <<enabled, port, activePorts, contexts, cPrivs, nContexts,
                 ctxDisplaying, overrun>>

-----------------------------------------------------------------------------
(* XvMCPutSurface writes the slot of its surface, and of the subpicture or *)
(* of none, into the SAREA.                                                *)
ClientClaims(x, sub) ==
  /\ kind[x] = "surface"
  /\ \E i \in SrfSlots : surfaces[i] = x /\ displaying' = i
  /\ \/ /\ sub \in Ids /\ kind[sub] = "subpicture" /\ parent[sub] = parent[x]
        /\ \E j \in SrfSlots : surfaces[j] = sub /\ subPicOn' = j
     \/ sub = NoId /\ subPicOn' = NoSlot
  /\ UNCHANGED <<enabled, port, activePorts, tableVars, used, kind, parent,
                 ctxDisplaying, overlayOn, overrun>>

(* Its DISPLAY request: accepted if the SAREA still names the surface.     *)
DisplayRequest(x) ==
  /\ kind[x] = "surface"
  /\ \E i \in SrfSlots, k \in CtxSlots :
       /\ surfaces[i] = x /\ displaying = i
       /\ contexts[k] = parent[x] /\ ctxDisplaying' = k
  /\ overlayOn' = TRUE
  /\ UNCHANGED <<enabled, port, activePorts, tableVars, used, kind, parent,
                 displaying, subPicOn, overrun>>

Next ==
  \/ InitXvMC \/ CleanupXvMC \/ CreateContextFails
  \/ \E x \in Ids :
       \/ CreateContext(x) \/ DestroyContext(x) \/ DestroySurface(x)
       \/ DisplayRequest(x)
       \/ \E y \in Ids, what \in {"surface", "subpicture"} : CreateSurface(x, what, y)
       \/ \E y \in Ids \cup {NoId} : ClientClaims(x, y)

Spec == Init /\ [][Next]_vars

-----------------------------------------------------------------------------
(* The counters that guard the creations agree with the tables whose slots *)
(* they stand for, through every failure, destruction and reset: a search  *)
(* for a slot finds one and never runs past its table.                     *)
CountersMatch ==
  /\ nContexts = Cardinality({i \in CtxSlots : contexts[i] # NoId})
  /\ nSurfaces = Cardinality({i \in SrfSlots : sPrivs[i] # NoBlock})
  /\ nContexts <= MaxContexts /\ nSurfaces <= MaxSurfaces /\ ~ overrun

(* Two tables and a memory allocator agree: a slot has an XID exactly if it *)
(* has private data, no two slots share a block, and every block that was  *)
(* allocated is still referred to, so that it will be freed once.          *)
MemoryAccounted ==
  /\ \A i \in SrfSlots : surfaces[i] = NoId <=> sPrivs[i] = NoBlock
  /\ \A i, j \in SrfSlots : sPrivs[i] = sPrivs[j] /\ sPrivs[i] # NoBlock => i = j
  /\ used = {sPrivs[i] : i \in SrfSlots} \ {NoBlock}

(* What clients and server name as displayed exists, and is of its kind: a *)
(* new object that gets the slot of a destroyed one is not taken for it.   *)
NamesAreLive ==
  /\ displaying # NoSlot =>
       \E x \in Ids : surfaces[displaying] = x /\ kind[x] = "surface"
  /\ subPicOn # NoSlot =>
       \E x \in Ids : surfaces[subPicOn] = x /\ kind[x] = "subpicture"
  /\ ctxDisplaying # NoSlot => contexts[ctxDisplaying] # NoId
=============================================================================
