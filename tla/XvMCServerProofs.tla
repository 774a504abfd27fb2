--------------------------- MODULE XvMCServerProofs ---------------------------
(***************************************************************************)
(* Proofs about the server's XvMC tables, for any number of slots, XIDs    *)
(* and blocks of video memory: the counters that guard the creations agree *)
(* with the tables, every block that was allocated is referred to exactly  *)
(* once, and what clients and server name as displayed exists.             *)
(***************************************************************************)
EXTENDS XvMCServer, FiniteSetTheorems, WellFoundedInduction, TLAPS

-----------------------------------------------------------------------------
(* Every variable of the server has its type.                              *)
ServerTypeOK ==
  /\ enabled \in BOOLEAN /\ overlayOn \in BOOLEAN /\ overrun \in BOOLEAN
  /\ port \in Int /\ activePorts \in Int
  /\ contexts \in [CtxSlots -> Ids \cup {NoId}] /\ cPrivs \subseteq CtxSlots
  /\ surfaces \in [SrfSlots -> Ids \cup {NoId}]
  /\ sPrivs \in [SrfSlots -> Blocks \cup {NoBlock}]
  /\ nContexts \in Nat /\ nSurfaces \in Nat
  /\ used \subseteq Blocks
  /\ kind \in [Ids -> {"none", "context", "surface", "subpicture"}]
  /\ parent \in [Ids -> Ids \cup {NoId}]
  /\ displaying \in SrfSlots \cup {NoSlot} /\ subPicOn \in SrfSlots \cup {NoSlot}
  /\ ctxDisplaying \in CtxSlots \cup {NoSlot}

(* An XID is in at most one slot of the table of its kind, and objects are *)
(* only left while XvMC is enabled: why a destruction empties one slot and *)
(* ViaInitXVMC, which clears the tables but not the counters, clears none. *)
OneSlotEach ==
  /\ \A i \in CtxSlots : contexts[i] # NoId => kind[contexts[i]] = "context"
  /\ \A i, j \in CtxSlots : contexts[i] = contexts[j] /\ contexts[i] # NoId => i = j
  /\ \A i \in SrfSlots : surfaces[i] # NoId =>
       kind[surfaces[i]] \in {"surface", "subpicture"}
  /\ \A i, j \in SrfSlots : surfaces[i] = surfaces[j] /\ surfaces[i] # NoId => i = j
  /\ ~ enabled => \A x \in Ids : kind[x] = "none"

(* A surface or subpicture has a context as long as it exists.             *)
ParentsLive ==
  \A x \in Ids : kind[x] \in {"surface", "subpicture"} =>
    parent[x] \in Ids /\ kind[parent[x]] = "context"

ServerInv ==
  ServerTypeOK /\ OneSlotEach /\ ParentsLive /\ CountersMatch /\ MemoryAccounted /\ NamesAreLive

-----------------------------------------------------------------------------
(* A set of slots that is not empty has a first one.                       *)
LEMMA LeastSlot ==
  ASSUME NEW T \in SUBSET Nat, T # {}
  PROVE  \E i \in T : \A j \in T : i <= j
<1> DEFINE R == OpToRel(<, Nat)
<1>1. IsWellFoundedOn(R, Nat)
  BY NatLessThanWellFounded
<1>2. R = {ss \in Nat \X Nat : ss[1] < ss[2]}
  BY DEF OpToRel
<1>. HIDE DEF R
<1>3. PICK i \in T : \A j \in T : <<j, i>> \notin R
  BY <1>1, WFMin, Zenon
<1>4. \A j \in T : <<j, i>> \in Nat \X Nat
  OBVIOUS
<1>5. \A j \in T : ~ (j < i)
  BY <1>2, <1>3, <1>4
<1>6. \A j \in T : j \in Nat /\ i \in Nat
  OBVIOUS
<1>. QED
  BY <1>5, <1>6

(* The search for a value finds one slot if any has it.                    *)
LEMMA SearchFinds ==
  ASSUME NEW n \in Nat, NEW table, DOMAIN table = 0..n - 1, NEW v,
         \E i \in 0..n - 1 : table[i] = v
  PROVE  \E m \in 0..n - 1 : FirstWith(table, v) = {m} /\ table[m] = v
<1> DEFINE T == {j \in 0..n - 1 : table[j] = v}
<1>1. T \in SUBSET Nat /\ T # {}
  OBVIOUS
<1>2. PICK m \in T : \A j \in T : m <= j
  <2>. HIDE DEF T
  <2>. QED
    BY <1>1, LeastSlot
<1>3. m \in 0..n - 1 /\ table[m] = v /\ \A j \in 0..n - 1 : j < m => table[j] # v
  BY <1>2
<1>4. \A j \in FirstWith(table, v) : j = m
  BY <1>3 DEF FirstWith
<1>5. m \in FirstWith(table, v)
  BY <1>3 DEF FirstWith
<1>. QED
  BY <1>3, <1>4, <1>5

(* What a search finds has the value.                                      *)
LEMMA SearchRight ==
  ASSUME NEW table, NEW v, NEW i \in FirstWith(table, v)
  PROVE  i \in DOMAIN table /\ table[i] = v
BY DEF FirstWith

(* The slots of a table that are taken, as the counters should count them. *)
Taken(n, table, free) == {i \in 0..n - 1 : table[i] # free}

(* No more entries of a table are taken than it has.                       *)
LEMMA TakenFinite ==
  ASSUME NEW n \in Nat, NEW table, NEW free
  PROVE  /\ IsFiniteSet(Taken(n, table, free))
         /\ Cardinality(Taken(n, table, free)) \in Nat
         /\ Cardinality(Taken(n, table, free)) <= n
         /\ Cardinality(Taken(n, table, free)) < n =>
              \E i \in 0..n - 1 : table[i] = free
<1>1. IsFiniteSet(0..n - 1) /\ Cardinality(0..n - 1) = n
  BY FS_Interval
<1>2. Taken(n, table, free) \in SUBSET (0..n - 1)
  BY DEF Taken
<1>3. /\ IsFiniteSet(Taken(n, table, free))
      /\ Cardinality(Taken(n, table, free)) <= n
  BY <1>1, <1>2, FS_Subset
<1>4. Cardinality(Taken(n, table, free)) \in Nat
  BY <1>3, FS_CardinalityType
<1>5. ASSUME \A i \in 0..n - 1 : table[i] # free
      PROVE  Cardinality(Taken(n, table, free)) = n
  <2>1. Taken(n, table, free) = 0..n - 1
    BY <1>5 DEF Taken
  <2>. QED
    BY <1>1, <2>1
<1>. QED
  BY <1>3, <1>4, <1>5

(* Filling a free slot takes one more.                                     *)
LEMMA FillCounts ==
  ASSUME NEW n \in Nat, NEW table, NEW free, NEW m \in 0..n - 1, table[m] = free,
         NEW new, new[m] # free, \A i \in 0..n - 1 : i # m => new[i] = table[i]
  PROVE  Cardinality(Taken(n, new, free)) = Cardinality(Taken(n, table, free)) + 1
<1>1. Taken(n, new, free) = Taken(n, table, free) \cup {m} /\ m \notin Taken(n, table, free)
  BY DEF Taken
<1>. QED
  BY <1>1, TakenFinite, FS_AddElement

(* Emptying a taken slot takes one less.                                   *)
LEMMA ClearCounts ==
  ASSUME NEW n \in Nat, NEW table, NEW free, NEW m \in 0..n - 1, table[m] # free,
         NEW new, new[m] = free, \A i \in 0..n - 1 : i # m => new[i] = table[i]
  PROVE  /\ Cardinality(Taken(n, new, free)) = Cardinality(Taken(n, table, free)) - 1
         /\ Cardinality(Taken(n, new, free)) \in Nat
<1>1. Taken(n, new, free) = Taken(n, table, free) \ {m} /\ m \in Taken(n, table, free)
  BY DEF Taken
<1>2. IsFiniteSet(Taken(n, table, free)) /\ Cardinality(Taken(n, new, free)) \in Nat
  BY TakenFinite
<1>. QED
  BY <1>1, <1>2, FS_RemoveElement

-----------------------------------------------------------------------------
(* Each request keeps the invariant; the first context numbers the port.   *)
LEMMA NumberPortOK ==
  ASSUME ServerInv, NumberPort
  PROVE  /\ port' \in Int /\ activePorts' \in Int
         /\ \/ displaying' = NoSlot /\ subPicOn' = NoSlot
            \/ displaying' = displaying /\ subPicOn' = subPicOn
BY DEF ServerInv, ServerTypeOK, NumberPort

(* Tables that are cleared were clear before: no object is left.           *)
LEMMA NothingInTables ==
  ASSUME ServerInv, \A x \in Ids : kind[x] = "none"
  PROVE  /\ contexts = [i \in CtxSlots |-> NoId]
         /\ surfaces = [i \in SrfSlots |-> NoId]
         /\ sPrivs = [i \in SrfSlots |-> NoBlock]
         /\ displaying = NoSlot /\ subPicOn = NoSlot /\ ctxDisplaying = NoSlot
<1>1. \A i \in CtxSlots : contexts[i] = NoId
  BY DEF ServerInv, ServerTypeOK, OneSlotEach
<1>2. \A i \in SrfSlots : surfaces[i] = NoId
  BY DEF ServerInv, ServerTypeOK, OneSlotEach
<1>3. \A i \in SrfSlots : sPrivs[i] = NoBlock
  BY <1>2 DEF ServerInv, MemoryAccounted
<1>4. displaying = NoSlot /\ subPicOn = NoSlot /\ ctxDisplaying = NoSlot
  BY <1>1, <1>2 DEF ServerInv, ServerTypeOK, NamesAreLive
<1>. QED
  BY <1>1, <1>2, <1>3, <1>4 DEF ServerInv, ServerTypeOK

(* Start-up and the close of the screen empty both tables.                 *)
LEMMA ResetKeepsServerInv ==
  ASSUME ServerInv, InitXvMC \/ CleanupXvMC
  PROVE  ServerInv'
<1>1. \A x \in Ids : kind[x] = "none"
  BY DEF ServerInv, OneSlotEach, InitXvMC, CleanupXvMC
<1>2. UNCHANGED <<contexts, surfaces, sPrivs, nContexts, nSurfaces, used, kind, parent,
                  displaying, subPicOn, ctxDisplaying, overlayOn, overrun>>
  BY <1>1, NothingInTables DEF InitXvMC, CleanupXvMC, nameVars
<1>3. /\ enabled' \in BOOLEAN /\ port' \in Int /\ activePorts' \in Int
      /\ cPrivs' = {}
  <2>1. CASE InitXvMC
    BY <2>1 DEF InitXvMC
  <2>2. CASE CleanupXvMC
    BY <2>2 DEF ServerInv, ServerTypeOK, CleanupXvMC
  <2>. QED
    BY <2>1, <2>2
<1>4. ServerTypeOK'
  BY <1>2, <1>3 DEF ServerInv, ServerTypeOK
<1>5. OneSlotEach'
  BY <1>1, <1>2 DEF ServerInv, OneSlotEach
<1>6. ParentsLive' /\ CountersMatch' /\ MemoryAccounted' /\ NamesAreLive'
  BY <1>2 DEF ServerInv, ParentsLive, CountersMatch, MemoryAccounted, NamesAreLive
<1>. QED
  BY <1>4, <1>5, <1>6 DEF ServerInv

(* A context that is refused takes nothing.                                *)
LEMMA CreateContextFailsKeepsServerInv ==
  ASSUME ServerInv, CreateContextFails
  PROVE  ServerInv'
<1>. USE DEF ServerInv, CreateContextFails, tableVars
<1>0. NumberPort
  OBVIOUS
<1>1. ServerTypeOK'
  BY NumberPortOK, <1>0 DEF ServerTypeOK
<1>2. OneSlotEach' /\ ParentsLive' /\ CountersMatch' /\ MemoryAccounted'
  BY DEF OneSlotEach, ParentsLive, CountersMatch, MemoryAccounted
<1>3. NamesAreLive'
  BY NumberPortOK, <1>0 DEF NamesAreLive
<1>. QED
  BY <1>1, <1>2, <1>3

(* A context takes a free entry of the table, and is counted.              *)
LEMMA CreateContextKeepsServerInv ==
  ASSUME ServerInv, NEW x \in Ids, CreateContext(x)
  PROVE  ServerInv'
<1>0. NumberPort /\ ServerTypeOK /\ x # NoId
  BY ServerAssumption DEF CreateContext, ServerInv
<1>1. MaxContexts \in Nat /\ DOMAIN contexts = 0..MaxContexts - 1
  BY <1>0, ServerAssumption DEF ServerTypeOK, CtxSlots
<1>2. /\ nContexts = Cardinality(Taken(MaxContexts, contexts, NoId))
      /\ nContexts < MaxContexts
  BY <1>0 DEF ServerInv, CreateContext, CountersMatch, Taken, CtxSlots
<1>3. \E i \in 0..MaxContexts - 1 : contexts[i] = NoId
  BY <1>1, <1>2, TakenFinite
<1>4. PICK m \in 0..MaxContexts - 1 :
        FirstWith(contexts, NoId) = {m} /\ contexts[m] = NoId
  BY <1>1, <1>3, SearchFinds
<1>5. /\ contexts' = [j \in 0..MaxContexts - 1 |-> IF j = m THEN x ELSE contexts[j]]
      /\ cPrivs' = cPrivs \cup {m} /\ overrun' = overrun
      /\ nContexts' = nContexts + 1 /\ kind' = [kind EXCEPT ![x] = "context"]
      /\ UNCHANGED <<enabled, surfaces, sPrivs, nSurfaces, used, parent, ctxDisplaying,
                     overlayOn>>
  <2>. DEFINE new == FirstWith(contexts, NoId)
  <2>1. /\ contexts' = [j \in CtxSlots |-> IF j \in new THEN x ELSE contexts[j]]
        /\ cPrivs' = cPrivs \cup new
        /\ overrun' = (overrun \/ new = {})
        /\ nContexts' = nContexts + 1 /\ kind' = [kind EXCEPT ![x] = "context"]
        /\ UNCHANGED <<enabled, surfaces, sPrivs, nSurfaces, used, parent, ctxDisplaying,
                       overlayOn>>
    BY DEF CreateContext
  <2>2. new = {m}
    BY <1>4
  <2>. HIDE DEF new
  <2>. QED
    BY <1>0, <2>1, <2>2 DEF CtxSlots, ServerTypeOK
<1>6. kind[x] = "none" /\ enabled
  BY DEF CreateContext
<1>7. ServerTypeOK'
  BY <1>0, <1>5, NumberPortOK DEF ServerTypeOK, CtxSlots
<1>8. OneSlotEach'
  <2>1. \A j \in CtxSlots : contexts[j] # x
    BY <1>0, <1>6 DEF ServerInv, OneSlotEach
  <2>2. \A j \in SrfSlots : surfaces[j] # x
    BY <1>0, <1>6 DEF ServerInv, OneSlotEach
  <2>3. \A j \in CtxSlots : contexts'[j] = IF j = m THEN x ELSE contexts[j]
    BY <1>5 DEF CtxSlots
  <2>4. \A y \in Ids : kind'[y] = IF y = x THEN "context" ELSE kind[y]
    BY <1>0, <1>5 DEF ServerTypeOK
  <2>. QED
    BY <2>1, <2>2, <2>3, <2>4, <1>0, <1>5, <1>6 DEF ServerInv, OneSlotEach, ServerTypeOK
<1>9. CountersMatch'
  <2>1. /\ contexts'[m] # NoId
        /\ \A j \in 0..MaxContexts - 1 : j # m => contexts'[j] = contexts[j]
    BY <1>0, <1>4, <1>5
  <2>2. Cardinality(Taken(MaxContexts, contexts', NoId)) =
          Cardinality(Taken(MaxContexts, contexts, NoId)) + 1
    BY <1>1, <1>4, <2>1, FillCounts
  <2>3. nContexts' = Cardinality({i \in CtxSlots : contexts'[i] # NoId})
    BY <1>2, <1>5, <2>2 DEF Taken, CtxSlots
  <2>. QED
    BY <1>0, <1>1, <1>2, <1>5, <2>3 DEF ServerInv, ServerTypeOK, CountersMatch
<1>10. MemoryAccounted'
  BY <1>5 DEF ServerInv, MemoryAccounted
<1>11. NamesAreLive'
  <2>1. \A y \in Ids : kind[y] # "none" => kind'[y] = kind[y]
    BY <1>0, <1>5, <1>6 DEF ServerTypeOK
  <2>2. \A j \in CtxSlots : contexts[j] # NoId => contexts'[j] # NoId
    BY <1>0, <1>5 DEF CtxSlots
  <2>. QED
    BY <1>0, <1>5, <2>1, <2>2, NumberPortOK DEF ServerInv, ServerTypeOK, NamesAreLive
<1>12. ParentsLive'
  <2>1. \A y \in Ids : kind'[y] = IF y = x THEN "context" ELSE kind[y]
    BY <1>0, <1>5 DEF ServerTypeOK
  <2>. QED
    BY <1>5, <1>6, <2>1 DEF ServerInv, ParentsLive
<1>. QED
  BY <1>12, <1>7, <1>8, <1>9, <1>10, <1>11 DEF ServerInv

(* A context gives its entry and its count back.                           *)
LEMMA DestroyContextKeepsServerInv ==
  ASSUME ServerInv, NEW x \in Ids, DestroyContext(x)
  PROVE  ServerInv'
<1>0. ServerTypeOK /\ x # NoId /\ kind[x] = "context"
  BY ServerAssumption DEF DestroyContext, ServerInv
<1>1. MaxContexts \in Nat
  BY ServerAssumption
<1>2. PICK m \in FirstWith(contexts, x) :
        /\ contexts' = [contexts EXCEPT ![m] = NoId]
        /\ cPrivs' = cPrivs \ {m}
        /\ nContexts' = nContexts - 1
        /\ ctxDisplaying' = IF ctxDisplaying = m THEN NoSlot ELSE ctxDisplaying
  BY DEF DestroyContext
<1>3. m \in 0..MaxContexts - 1 /\ m \in CtxSlots /\ contexts[m] = x
  BY <1>0, <1>2, SearchRight DEF ServerTypeOK, CtxSlots
<1>4. /\ kind' = [kind EXCEPT ![x] = "none"]
      /\ UNCHANGED <<enabled, port, activePorts, surfaces, sPrivs, nSurfaces, used, parent,
                     displaying, subPicOn, overlayOn, overrun>>
  BY DEF DestroyContext
<1>5. /\ \A j \in CtxSlots : contexts'[j] = IF j = m THEN NoId ELSE contexts[j]
      /\ \A y \in Ids : kind'[y] = IF y = x THEN "none" ELSE kind[y]
  BY <1>0, <1>2, <1>4 DEF ServerTypeOK
<1>6. CountersMatch'
  <2>1. /\ Cardinality(Taken(MaxContexts, contexts', NoId)) =
             Cardinality(Taken(MaxContexts, contexts, NoId)) - 1
        /\ Cardinality(Taken(MaxContexts, contexts', NoId)) \in Nat
    BY <1>0, <1>1, <1>3, <1>5, ClearCounts DEF CtxSlots
  <2>2. nContexts = Cardinality(Taken(MaxContexts, contexts, NoId))
    BY DEF ServerInv, CountersMatch, Taken, CtxSlots
  <2>3. /\ nContexts' = Cardinality({i \in CtxSlots : contexts'[i] # NoId})
        /\ nContexts' \in Nat
    BY <1>2, <2>1, <2>2 DEF Taken, CtxSlots
  <2>. QED
    BY <1>0, <1>1, <1>2, <1>4, <2>3 DEF ServerInv, ServerTypeOK, CountersMatch
<1>7. ServerTypeOK'
  <2>1. nContexts' \in Nat
    <3>1. nContexts' = Cardinality(Taken(MaxContexts, contexts', NoId))
      BY <1>6 DEF CountersMatch, Taken, CtxSlots
    <3>. QED
      BY <1>1, <3>1, TakenFinite
  <2>. QED
    BY <1>0, <1>2, <1>4, <2>1 DEF ServerTypeOK
<1>8. OneSlotEach'
  BY <1>0, <1>3, <1>4, <1>5 DEF ServerInv, ServerTypeOK, OneSlotEach
<1>9. MemoryAccounted'
  BY <1>4 DEF ServerInv, MemoryAccounted
<1>10. NamesAreLive'
  BY <1>0, <1>2, <1>3, <1>4, <1>5 DEF ServerInv, ServerTypeOK, NamesAreLive
<1>11. ParentsLive'
  <2>1. \A y \in Ids : kind[y] # "none" => parent[y] # x
    BY DEF DestroyContext
  <2>. QED
    BY <1>4, <1>5, <2>1 DEF ServerInv, ParentsLive
<1>. QED
  BY <1>11, <1>6, <1>7, <1>8, <1>9, <1>10 DEF ServerInv

(* A surface or subpicture takes a free entry, and the memory for it.      *)
LEMMA CreateSurfaceKeepsServerInv ==
  ASSUME ServerInv, NEW x \in Ids, NEW ctx \in Ids, NEW what \in {"surface", "subpicture"},
         CreateSurface(x, what, ctx)
  PROVE  ServerInv'
<1>0. ServerTypeOK /\ x # NoId /\ kind[x] = "none" /\ enabled
  BY ServerAssumption DEF CreateSurface, ServerInv
<1>1. MaxSurfaces \in Nat /\ DOMAIN sPrivs = 0..MaxSurfaces - 1
  BY <1>0, ServerAssumption DEF ServerTypeOK, SrfSlots
<1>2. /\ nSurfaces = Cardinality(Taken(MaxSurfaces, sPrivs, NoBlock))
      /\ nSurfaces < MaxSurfaces
  BY <1>0, <1>1 DEF ServerInv, ServerTypeOK, CreateSurface, CountersMatch, Taken, SrfSlots
<1>3. \E i \in 0..MaxSurfaces - 1 : sPrivs[i] = NoBlock
  BY <1>1, <1>2, TakenFinite
<1>4. PICK m \in 0..MaxSurfaces - 1 :
        FirstWith(sPrivs, NoBlock) = {m} /\ sPrivs[m] = NoBlock
  BY <1>1, <1>3, SearchFinds
<1>5. PICK b \in Blocks :
        /\ b \notin used /\ used' = used \cup {b}
        /\ sPrivs' = [i \in SrfSlots |-> IF i = m THEN b ELSE sPrivs[i]]
        /\ surfaces' = [i \in SrfSlots |-> IF i = m THEN x ELSE surfaces[i]]
        /\ overrun' = overrun
  <2>. DEFINE new == FirstWith(sPrivs, NoBlock)
  <2>1. PICK b \in Blocks :
          /\ AllocLinear(b)
          /\ used' = used \cup {b}
          /\ sPrivs' = [i \in SrfSlots |-> IF i \in new THEN b ELSE sPrivs[i]]
          /\ surfaces' = [i \in SrfSlots |-> IF i \in new THEN x ELSE surfaces[i]]
          /\ overrun' = (overrun \/ new = {})
    BY DEF CreateSurface
  <2>2. new = {m}
    BY <1>4
  <2>. HIDE DEF new
  <2>3. b \notin used
    BY <2>1 DEF AllocLinear
  <2>. QED
    BY <1>0, <2>1, <2>2, <2>3 DEF ServerTypeOK
<1>6. /\ nSurfaces' = nSurfaces + 1
      /\ kind' = [kind EXCEPT ![x] = what] /\ parent' = [parent EXCEPT ![x] = ctx]
      /\ UNCHANGED <<enabled, port, activePorts, contexts, cPrivs, nContexts, displaying,
                     subPicOn, ctxDisplaying, overlayOn>>
  BY DEF CreateSurface, nameVars
<1>7. /\ m \in SrfSlots
      /\ \A j \in SrfSlots : /\ sPrivs'[j] = IF j = m THEN b ELSE sPrivs[j]
                             /\ surfaces'[j] = IF j = m THEN x ELSE surfaces[j]
      /\ \A y \in Ids : kind'[y] = IF y = x THEN what ELSE kind[y]
  BY <1>0, <1>5, <1>6 DEF ServerTypeOK, SrfSlots
<1>8. b # NoBlock
  BY ServerAssumption DEF Blocks
<1>9. ServerTypeOK'
  BY <1>0, <1>5, <1>6, <1>7 DEF ServerTypeOK
<1>10. surfaces[m] = NoId
  BY <1>4, <1>7 DEF ServerInv, MemoryAccounted
<1>11. OneSlotEach'
  <2>1. /\ \A j \in CtxSlots : contexts[j] # x
        /\ \A j \in SrfSlots : surfaces[j] # x
    BY <1>0 DEF ServerInv, OneSlotEach
  <2>. QED
    BY <1>0, <1>6, <1>7, <2>1 DEF ServerInv, ServerTypeOK, OneSlotEach
<1>12. CountersMatch'
  <2>1. /\ sPrivs'[m] # NoBlock
        /\ \A j \in 0..MaxSurfaces - 1 : j # m => sPrivs'[j] = sPrivs[j]
    BY <1>7, <1>8 DEF SrfSlots
  <2>2. Cardinality(Taken(MaxSurfaces, sPrivs', NoBlock)) =
          Cardinality(Taken(MaxSurfaces, sPrivs, NoBlock)) + 1
    BY <1>1, <1>4, <2>1, FillCounts
  <2>3. nSurfaces' = Cardinality({i \in SrfSlots : sPrivs'[i] # NoBlock})
    BY <1>2, <1>6, <2>2 DEF Taken, SrfSlots
  <2>. QED
    BY <1>0, <1>1, <1>2, <1>5, <1>6, <2>3 DEF ServerInv, ServerTypeOK, CountersMatch
<1>13. MemoryAccounted'
  <2>1. \A i \in SrfSlots : surfaces'[i] = NoId <=> sPrivs'[i] = NoBlock
    BY <1>0, <1>7, <1>8 DEF ServerInv, MemoryAccounted
  <2>2. \A i \in SrfSlots : sPrivs[i] # b
    BY <1>5, <1>8 DEF ServerInv, MemoryAccounted
  <2>3. \A i, j \in SrfSlots : sPrivs'[i] = sPrivs'[j] /\ sPrivs'[i] # NoBlock => i = j
    BY <1>7, <2>2 DEF ServerInv, MemoryAccounted
  <2>4. used' = {sPrivs'[i] : i \in SrfSlots} \ {NoBlock}
    <3>1. used = {sPrivs[i] : i \in SrfSlots} \ {NoBlock}
      BY DEF ServerInv, MemoryAccounted
    <3>2. \A c : c \in used' <=> c # NoBlock /\ \E i \in SrfSlots : c = sPrivs'[i]
      BY <1>4, <1>5, <1>7, <1>8, <3>1
    <3>. QED
      BY <3>2
  <2>. QED
    BY <2>1, <2>3, <2>4 DEF MemoryAccounted
<1>14. NamesAreLive'
  <2>1. \A y \in Ids : kind[y] # "none" => kind'[y] = kind[y]
    BY <1>0, <1>7
  <2>2. \A j \in SrfSlots : surfaces[j] # NoId => surfaces'[j] = surfaces[j]
    BY <1>7, <1>10
  <2>3. \A y \in Ids : y # NoId
    BY ServerAssumption
  <2>. QED
    BY <1>0, <1>6, <2>1, <2>2, <2>3 DEF ServerInv, ServerTypeOK, NamesAreLive
<1>15. ParentsLive'
  <2>1. \A y \in Ids : parent'[y] = IF y = x THEN ctx ELSE parent[y]
    BY <1>0, <1>6 DEF ServerTypeOK
  <2>2. kind[ctx] = "context" /\ ctx # x
    BY <1>0 DEF CreateSurface
  <2>. QED
    BY <1>0, <1>7, <2>1, <2>2 DEF ServerInv, ParentsLive
<1>. QED
  BY <1>15, <1>9, <1>11, <1>12, <1>13, <1>14 DEF ServerInv

(* A surface or subpicture gives its entry and its memory back.            *)
LEMMA DestroySurfaceKeepsServerInv ==
  ASSUME ServerInv, NEW x \in Ids, DestroySurface(x)
  PROVE  ServerInv'
<1>0. ServerTypeOK /\ x # NoId /\ kind[x] \in {"surface", "subpicture"}
  BY ServerAssumption DEF DestroySurface, ServerInv
<1>1. MaxSurfaces \in Nat
  BY ServerAssumption
<1>2. PICK m \in FirstWith(surfaces, x) :
        /\ used' = used \ {sPrivs[m]}
        /\ sPrivs' = [sPrivs EXCEPT ![m] = NoBlock]
        /\ surfaces' = [surfaces EXCEPT ![m] = NoId]
        /\ nSurfaces' = nSurfaces - 1
        /\ IF kind[x] = "surface" /\ displaying = m
             THEN displaying' = NoSlot /\ overlayOn' = FALSE
             ELSE UNCHANGED <<displaying, overlayOn>>
        /\ subPicOn' = IF kind[x] = "subpicture" /\ subPicOn = m THEN NoSlot ELSE subPicOn
  BY DEF DestroySurface
<1>3. m \in SrfSlots /\ surfaces[m] = x /\ sPrivs[m] # NoBlock
  <2>1. m \in SrfSlots /\ surfaces[m] = x
    BY <1>0, <1>2, SearchRight DEF ServerTypeOK
  <2>. QED
    BY <1>0, <2>1 DEF ServerInv, MemoryAccounted
<1>4. /\ kind' = [kind EXCEPT ![x] = "none"] /\ parent' = [parent EXCEPT ![x] = NoId]
      /\ UNCHANGED <<enabled, port, activePorts, contexts, cPrivs, nContexts,
                     ctxDisplaying, overrun>>
  BY DEF DestroySurface
<1>5. /\ \A j \in SrfSlots : /\ sPrivs'[j] = IF j = m THEN NoBlock ELSE sPrivs[j]
                             /\ surfaces'[j] = IF j = m THEN NoId ELSE surfaces[j]
      /\ \A y \in Ids : kind'[y] = IF y = x THEN "none" ELSE kind[y]
  BY <1>0, <1>2, <1>4 DEF ServerTypeOK
<1>6. CountersMatch' /\ nSurfaces' \in Nat
  <2>0. /\ m \in 0..MaxSurfaces - 1 /\ sPrivs[m] # NoBlock /\ sPrivs'[m] = NoBlock
        /\ \A j \in 0..MaxSurfaces - 1 : j # m => sPrivs'[j] = sPrivs[j]
    BY <1>3, <1>5 DEF SrfSlots
  <2>1. /\ Cardinality(Taken(MaxSurfaces, sPrivs', NoBlock)) =
             Cardinality(Taken(MaxSurfaces, sPrivs, NoBlock)) - 1
        /\ Cardinality(Taken(MaxSurfaces, sPrivs', NoBlock)) \in Nat
    BY <1>1, <2>0, ClearCounts
  <2>2. nSurfaces = Cardinality(Taken(MaxSurfaces, sPrivs, NoBlock))
    BY DEF ServerInv, CountersMatch, Taken, SrfSlots
  <2>3. /\ nSurfaces' = Cardinality({i \in SrfSlots : sPrivs'[i] # NoBlock})
        /\ nSurfaces' \in Nat
    BY <1>2, <2>1, <2>2 DEF Taken, SrfSlots
  <2>. QED
    BY <1>0, <1>1, <1>2, <1>4, <2>3 DEF ServerInv, ServerTypeOK, CountersMatch
<1>7. ServerTypeOK'
  <2>1. /\ displaying' \in SrfSlots \cup {NoSlot} /\ overlayOn' \in BOOLEAN
        /\ subPicOn' \in SrfSlots \cup {NoSlot}
    BY <1>0, <1>2 DEF ServerTypeOK
  <2>2. /\ sPrivs' \in [SrfSlots -> Blocks \cup {NoBlock}]
        /\ surfaces' \in [SrfSlots -> Ids \cup {NoId}] /\ used' \subseteq Blocks
    BY <1>0, <1>2 DEF ServerTypeOK
  <2>3. /\ kind' \in [Ids -> {"none", "context", "surface", "subpicture"}]
        /\ parent' \in [Ids -> Ids \cup {NoId}]
    BY <1>0, <1>4 DEF ServerTypeOK
  <2>. QED
    BY <1>0, <1>4, <1>6, <2>1, <2>2, <2>3 DEF ServerTypeOK
<1>8. OneSlotEach'
  BY <1>0, <1>3, <1>4, <1>5 DEF ServerInv, ServerTypeOK, OneSlotEach
<1>9. MemoryAccounted'
  <2>1. \A i \in SrfSlots : surfaces'[i] = NoId <=> sPrivs'[i] = NoBlock
    BY <1>5 DEF ServerInv, MemoryAccounted
  <2>2. \A i, j \in SrfSlots : sPrivs'[i] = sPrivs'[j] /\ sPrivs'[i] # NoBlock => i = j
    BY <1>5 DEF ServerInv, MemoryAccounted
  <2>3. used' = {sPrivs'[i] : i \in SrfSlots} \ {NoBlock}
    <3>1. used = {sPrivs[i] : i \in SrfSlots} \ {NoBlock}
      BY DEF ServerInv, MemoryAccounted
    <3>2. \A i \in SrfSlots : i # m => sPrivs[i] # sPrivs[m]
      BY <1>3 DEF ServerInv, MemoryAccounted
    <3>3. \A c : c \in used' <=> c # NoBlock /\ \E i \in SrfSlots : c = sPrivs'[i]
      BY <1>2, <1>3, <1>5, <3>1, <3>2
    <3>. QED
      BY <3>3
  <2>. QED
    BY <2>1, <2>2, <2>3 DEF MemoryAccounted
<1>10. NamesAreLive'
  <2>1. displaying' # NoSlot => \E y \in Ids : surfaces'[displaying'] = y /\ kind'[y] = "surface"
    <3>1. SUFFICES ASSUME displaying' # NoSlot
                   PROVE  \E y \in Ids : surfaces'[displaying'] = y /\ kind'[y] = "surface"
      OBVIOUS
    <3>2. displaying' = displaying /\ ~ (kind[x] = "surface" /\ displaying = m)
      BY <1>2, <3>1
    <3>3. PICK y \in Ids : surfaces[displaying] = y /\ kind[y] = "surface"
      BY <3>1, <3>2 DEF ServerInv, NamesAreLive
    <3>4. displaying \in SrfSlots /\ displaying # m /\ y # x
      BY <1>0, <1>3, <3>1, <3>2, <3>3 DEF ServerTypeOK, ServerInv, OneSlotEach
    <3>. QED
      BY <1>5, <3>2, <3>3, <3>4
  <2>2. subPicOn' # NoSlot => \E y \in Ids : surfaces'[subPicOn'] = y /\ kind'[y] = "subpicture"
    <3>1. SUFFICES ASSUME subPicOn' # NoSlot
                   PROVE  \E y \in Ids : surfaces'[subPicOn'] = y /\ kind'[y] = "subpicture"
      OBVIOUS
    <3>2. subPicOn' = subPicOn /\ ~ (kind[x] = "subpicture" /\ subPicOn = m)
      BY <1>2, <3>1
    <3>3. PICK y \in Ids : surfaces[subPicOn] = y /\ kind[y] = "subpicture"
      BY <3>1, <3>2 DEF ServerInv, NamesAreLive
    <3>4. subPicOn \in SrfSlots /\ subPicOn # m /\ y # x
      BY <1>0, <1>3, <3>1, <3>2, <3>3 DEF ServerTypeOK, ServerInv, OneSlotEach
    <3>. QED
      BY <1>5, <3>2, <3>3, <3>4
  <2>. QED
    BY <1>4, <2>1, <2>2 DEF ServerInv, NamesAreLive
<1>11. ParentsLive'
  <2>1. \A y \in Ids : y # x => parent'[y] = parent[y]
    BY <1>0, <1>4 DEF ServerTypeOK
  <2>. QED
    BY <1>0, <1>5, <2>1 DEF ServerInv, ParentsLive
<1>. QED
  BY <1>11, <1>6, <1>7, <1>8, <1>9, <1>10 DEF ServerInv

(* What a client displays changes no table.                                *)
LEMMA NamingKeepsServerInv ==
  ASSUME ServerInv, NEW x \in Ids,
         \/ DisplayRequest(x)
         \/ \E sub \in Ids \cup {NoId} : ClientClaims(x, sub)
  PROVE  ServerInv'
<1>1. UNCHANGED <<enabled, port, activePorts, contexts, cPrivs, nContexts, surfaces, sPrivs,
                  nSurfaces, used, kind, parent, overrun>>
  BY DEF DisplayRequest, ClientClaims, tableVars
<1>2. OneSlotEach' /\ ParentsLive' /\ CountersMatch' /\ MemoryAccounted'
  BY <1>1 DEF ServerInv, OneSlotEach, ParentsLive, CountersMatch, MemoryAccounted
<1>3. CASE DisplayRequest(x)
  <2>1. PICK k \in CtxSlots : contexts[k] = parent[x] /\ ctxDisplaying' = k
    BY <1>3 DEF DisplayRequest
  <2>2. overlayOn' = TRUE /\ displaying' = displaying /\ subPicOn' = subPicOn
    BY <1>3 DEF DisplayRequest
  <2>3. ServerTypeOK'
    BY <1>1, <2>1, <2>2 DEF ServerInv, ServerTypeOK
  <2>4. contexts[k] # NoId
    BY <1>3, <2>1, ServerAssumption DEF DisplayRequest, ServerInv, ParentsLive
  <2>. QED
    BY <1>1, <1>2, <2>1, <2>2, <2>3, <2>4 DEF ServerInv, NamesAreLive
<1>4. ASSUME NEW sub \in Ids \cup {NoId}, ClientClaims(x, sub)
      PROVE  ServerInv'
  <2>1. PICK i \in SrfSlots : surfaces[i] = x /\ displaying' = i
    BY <1>4 DEF ClientClaims
  <2>2. \/ subPicOn' = NoSlot
        \/ /\ sub \in Ids /\ kind[sub] = "subpicture"
           /\ \E j \in SrfSlots : surfaces[j] = sub /\ subPicOn' = j
    BY <1>4 DEF ClientClaims
  <2>3. kind[x] = "surface" /\ UNCHANGED <<ctxDisplaying, overlayOn>>
    BY <1>4 DEF ClientClaims
  <2>4. ServerTypeOK'
    BY <1>1, <2>1, <2>2, <2>3 DEF ServerInv, ServerTypeOK
  <2>5. NamesAreLive'
    BY <1>1, <2>1, <2>2, <2>3 DEF ServerInv, NamesAreLive
  <2>. QED
    BY <1>2, <2>4, <2>5 DEF ServerInv
<1>. QED
  BY <1>3, <1>4

(* A server that starts has taken nothing.                                 *)
LEMMA InitServerInv == Init => ServerInv
<1>. SUFFICES ASSUME Init PROVE ServerInv
  OBVIOUS
<1>1. ServerTypeOK
  <2>1. /\ contexts \in [CtxSlots -> Ids \cup {NoId}] /\ cPrivs \subseteq CtxSlots
        /\ surfaces \in [SrfSlots -> Ids \cup {NoId}]
        /\ sPrivs \in [SrfSlots -> Blocks \cup {NoBlock}]
        /\ kind \in [Ids -> {"none", "context", "surface", "subpicture"}]
        /\ parent \in [Ids -> Ids \cup {NoId}] /\ used \subseteq Blocks
    BY DEF Init
  <2>2. /\ enabled \in BOOLEAN /\ overlayOn \in BOOLEAN /\ overrun \in BOOLEAN
    BY Zenon DEF Init
  <2>4. nContexts \in Nat /\ nSurfaces \in Nat /\ port \in Int /\ activePorts \in Int
    <3>1. nContexts = 0 /\ nSurfaces = 0 /\ port = -1 /\ activePorts = 0
      BY DEF Init
    <3>. QED
      BY <3>1
  <2>3. /\ displaying \in SrfSlots \cup {NoSlot} /\ subPicOn \in SrfSlots \cup {NoSlot}
        /\ ctxDisplaying \in CtxSlots \cup {NoSlot}
    BY DEF Init
  <2>. QED
    BY <2>1, <2>2, <2>3, <2>4 DEF ServerTypeOK
<1>2. OneSlotEach /\ ParentsLive /\ NamesAreLive
  BY DEF Init, OneSlotEach, ParentsLive, NamesAreLive
<1>3. CountersMatch
  <2>1. /\ {i \in CtxSlots : contexts[i] # NoId} = {}
        /\ {i \in SrfSlots : sPrivs[i] # NoBlock} = {}
    BY DEF Init
  <2>. QED
    BY <2>1, ServerAssumption, FS_EmptySet DEF Init, CountersMatch
<1>4. MemoryAccounted
  BY DEF Init, MemoryAccounted
<1>. QED
  BY <1>1, <1>2, <1>3, <1>4 DEF ServerInv

(* Every step of the server keeps the invariant.                           *)
LEMMA NextServerInv ==
  ASSUME ServerInv, [Next]_vars
  PROVE  ServerInv'
<1>1. CASE InitXvMC \/ CleanupXvMC
  BY <1>1, ResetKeepsServerInv
<1>2. CASE CreateContextFails
  BY <1>2, CreateContextFailsKeepsServerInv
<1>3. ASSUME NEW x \in Ids, CreateContext(x)
      PROVE  ServerInv'
  BY <1>3, CreateContextKeepsServerInv
<1>4. ASSUME NEW x \in Ids, DestroyContext(x)
      PROVE  ServerInv'
  BY <1>4, DestroyContextKeepsServerInv
<1>5. ASSUME NEW x \in Ids, DestroySurface(x)
      PROVE  ServerInv'
  BY <1>5, DestroySurfaceKeepsServerInv
<1>6. ASSUME NEW x \in Ids, NEW y \in Ids, NEW what \in {"surface", "subpicture"},
             CreateSurface(x, what, y)
      PROVE  ServerInv'
  BY <1>6, CreateSurfaceKeepsServerInv
<1>7. ASSUME NEW x \in Ids,
             DisplayRequest(x) \/ \E y \in Ids \cup {NoId} : ClientClaims(x, y)
      PROVE  ServerInv'
  BY <1>7, NamingKeepsServerInv
<1>8. CASE UNCHANGED vars
  BY <1>8 DEF vars, tableVars, nameVars, ServerInv, ServerTypeOK, OneSlotEach,
     ParentsLive, CountersMatch, MemoryAccounted, NamesAreLive
<1>. QED
  BY <1>1, <1>2, <1>3, <1>4, <1>5, <1>6, <1>7, <1>8 DEF Next

(* Between requests of any clients, failures and resets included, the      *)
(* tables of src/via_xvmc.c, its counters, the allocators and the SAREA     *)
(* agree.                                                                  *)
THEOREM ServerInvariant == Spec => []ServerInv
<1>1. Init => ServerInv
  BY InitServerInv
<1>2. ServerInv /\ [Next]_vars => ServerInv'
  BY NextServerInv
<1>. QED
  BY <1>1, <1>2, PTL DEF Spec

(* The searches for a free slot in the Create handlers always find one.    *)
THEOREM CountersAlwaysMatch == Spec => []CountersMatch
BY ServerInvariant, PTL DEF ServerInv

(* No memory of a surface or subpicture leaks and none is given twice.     *)
THEOREM MemoryAlwaysAccounted == Spec => []MemoryAccounted
BY ServerInvariant, PTL DEF ServerInv

(* A slot given to a new object is not taken for the one that had it.      *)
THEOREM NamesAlwaysLive == Spec => []NamesAreLive
BY ServerInvariant, PTL DEF ServerInv
=============================================================================
