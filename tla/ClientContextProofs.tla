------------------------- MODULE ClientContextProofs -------------------------
(***************************************************************************)
(* Proofs about XvMC contexts in a client process, for any number of slots,*)
(* XIDs and blocks of memory.  Whatever the threads of the client do, its  *)
(* steps are steps of the server as the server sees them (a refinement), so*)
(* that the tables of the server stay sound under it.  And in a program    *)
(* that calls the library from one thread what contexts share is there     *)
(* while one of them uses it, and nothing is left behind; from two threads *)
(* it is not so, as nothing guards the counter in the library.             *)
(***************************************************************************)
EXTENDS ClientContext, XvMCServerProofs

-----------------------------------------------------------------------------
(* The client implements the server: every step of it is one of the server *)
(* or leaves the server alone.                                             *)
LEMMA ClientStepIsServerStep ==
  ASSUME [ClientNext]_<<vars, clientVars>>
  PROVE  [Next]_vars
<1>1. CASE ServerStep
  <2>1. CASE InitXvMC \/ CleanupXvMC
    BY <2>1 DEF Next
  <2>2. ASSUME NEW x \in Ids, DestroySurface(x) \/ DisplayRequest(x)
        PROVE  Next
    BY <2>2 DEF Next
  <2>3. ASSUME NEW x \in Ids, NEW y \in Ids, NEW what \in {"surface", "subpicture"},
               CreateSurface(x, what, y)
        PROVE  Next
    BY <2>3 DEF Next
  <2>4. ASSUME NEW x \in Ids, NEW y \in Ids \cup {NoId}, ClientClaims(x, y)
        PROVE  Next
    BY <2>4 DEF Next
  <2>. QED
    BY <1>1, <2>1, <2>2, <2>3, <2>4 DEF ServerStep
<1>2. CASE Die
  BY <1>2 DEF Die
<1>3. ASSUME NEW x \in Ids, ServerReaps(x)
      PROVE  Next
  BY <1>3 DEF ServerReaps, Next
<1>4. ASSUME NEW t \in Threads, NEW x \in Ids, ServerContext(t, x)
      PROVE  Next
  BY <1>4 DEF ServerContext, Next
<1>5. ASSUME NEW t \in Threads, NEW x \in Ids, EndRelease(t, x)
      PROVE  Next \/ UNCHANGED vars
  BY <1>5 DEF EndRelease, Next
<1>6. ASSUME NEW t \in Threads, NEW x \in Ids,
             \/ BeginCreate(t, x) \/ OpenConnection(t, x) \/ UseConnection(t, x)
             \/ OpenOrMap(t, x) \/ OwnResource(t, x) \/ EndCreate(t, x)
             \/ CreateFails(t, x) \/ BeginDestroy(t, x)
             \/ ReleaseOwn(t, x) \/ ReleaseShared(t, x)
      PROVE  UNCHANGED vars
  BY <1>6 DEF BeginCreate, OpenConnection, UseConnection, OpenOrMap, OwnResource, EndCreate,
     CreateFails, BeginDestroy, ReleaseOwn, ReleaseShared
<1>7. CASE UNCHANGED <<vars, clientVars>>
  BY <1>7
<1>. QED
  BY <1>1, <1>2, <1>3, <1>4, <1>5, <1>6, <1>7 DEF ClientNext

(* What any threads of a client do between requests, and how it dies, is   *)
(* allowed by the specification of the server.                             *)
THEOREM ClientImplementsServer == ClientSpec => Spec
<1>1. ClientInit => Init
  BY DEF ClientInit
<1>2. [ClientNext]_<<vars, clientVars>> => [Next]_vars
  BY ClientStepIsServerStep
<1>. QED
  BY <1>1, <1>2, PTL DEF ClientSpec, Spec

(* So the counters, the memory and the names of the server stay sound with *)
(* clients whose creations fail at any point, and that die at any point.   *)
THEOREM ServerSoundUnderClients ==
  ClientSpec => [](CountersMatch /\ MemoryAccounted /\ NamesAreLive)
<1>1. ServerInv => CountersMatch /\ MemoryAccounted /\ NamesAreLive
  BY DEF ServerInv
<1>. QED
  BY <1>1, ClientImplementsServer, ServerInvariant, PTL

-----------------------------------------------------------------------------
(* The order in which enum ContextRes lists the resources.                 *)
LEMMA LevelValues ==
  /\ Level("context") = 1 /\ Level("driConnection") = 2 /\ Level("fd") = 3
  /\ Level("mmioMap") = 4 /\ Level("fbMap") = 5 /\ Level("sAreaMap") = 6
  /\ Level("drmContext") = 7 /\ Level("mutex") = 8 /\ Level("lowLevel") = 9
  /\ Level("drawHash") = 10 /\ Created = 10
BY DEF Level, Levels, Created

(* The ladder of shared resources is climbed one rung at a time, and its   *)
(* levels are numbered as they are listed.                                 *)
LEMMA LevelOfName ==
  ASSUME NEW i \in 1..10
  PROVE  Level(Levels[i]) = i
BY DEF Level, Levels

-----------------------------------------------------------------------------
(* A program that calls the library from one thread.                       *)
OneThread == \E t : Threads = {t}

(* The contexts that have come as far as resource r.                       *)
Users(r) == {x \in Ids : resources[x] >= Level(r)}

(* A context no call is at work on is complete or does not exist; the first*)
(* context of a process is alone while it opens and maps what is shared.   *)
Settled ==
  /\ resources \in [Ids -> NoContext .. Created]
  /\ DOMAIN call = Threads
  /\ \A x \in Ids : (\A t \in Threads : call[t].ctx # x) =>
       resources[x] \in {NoContext, Created}
  /\ \A t \in Threads, x \in Ids :
       call[t] = [op |-> "create", ctx |-> x] /\ resources[x] \in 2..5 =>
         \A y \in Ids \ {x} : resources[y] = NoContext

(* numContexts counts those that hold the last of the shared resources;    *)
(* one is held exactly if a context has come that far.                     *)
SharesCounted ==
  /\ IsFiniteSet(Users("sAreaMap"))
  /\ numContexts = Cardinality(Users("sAreaMap"))
  /\ shared = [r \in Shared |-> IF Users(r) = {} THEN 0 ELSE 1]

(* The contexts of the server are the client's, but for those of dead      *)
(* clients and those of replies that were not understood.                  *)
ServerAgrees ==
  /\ \A x \in Ids : resources[x] >= Level("context") <=>
       kind[x] = "context" /\ x \notin orphans \cup stray
  /\ \A x \in Ids : x \in orphans => kind[x] # "none"
  /\ \A x \in Ids : x \in stray => kind[x] = "context" /\ x \notin orphans

ClientInv == Settled /\ SharesCounted /\ ServerAgrees

(* A program that has called nothing holds nothing.                        *)
LEMMA InitClientInv == ClientInit => ClientInv
<1>. SUFFICES ASSUME ClientInit PROVE ClientInv
  OBVIOUS
<1>. USE LevelValues DEF NoContext
<1>1. Settled
  BY DEF ClientInit, Settled, Idle
<1>2. \A r \in Shared : Level(r) \in 2..6
  BY DEF Shared
<1>3. \A r \in Shared : Users(r) = {}
  BY <1>2 DEF ClientInit, Users
<1>4. SharesCounted
  <2>1. Users("sAreaMap") = {}
    BY <1>3 DEF Shared
  <2>. QED
    BY <1>3, <2>1, FS_EmptySet DEF ClientInit, SharesCounted
<1>5. ServerAgrees
  BY DEF ClientInit, Init, ServerAgrees
<1>. QED
  BY <1>1, <1>4, <1>5 DEF ClientInv

(* A step that moves no context past or back from a shared resource keeps  *)
(* the books on them.                                                      *)
LEMMA SameUsers ==
  ASSUME ClientInv, UNCHANGED <<numContexts, shared>>,
         \A x \in Ids, n \in 2..6 : resources'[x] >= n <=> resources[x] >= n
  PROVE  SharesCounted'
<1>1. \A r \in Shared : Level(r) \in 2..6
  BY LevelValues DEF Shared
<1>2. \A r \in Shared : Users(r)' = Users(r)
  BY <1>1 DEF Users
<1>3. Users("sAreaMap")' = Users("sAreaMap")
  BY <1>2 DEF Shared
<1>. QED
  BY <1>2, <1>3 DEF ClientInv, SharesCounted

(* Alone in its process, a context at work has only settled ones around it.*)
LEMMA OthersSettled ==
  ASSUME OneThread, ClientInv, NEW t \in Threads, NEW x \in Ids, call[t].ctx = x
  PROVE  \A y \in Ids \ {x} : resources[y] \in {NoContext, Created}
BY DEF OneThread, ClientInv, Settled

(* Settled is kept by a step of a thread that takes its context to a level *)
(* and goes on with it or lets it go.                                      *)
LEMMA StepSettled ==
  ASSUME OneThread, ClientInv, NEW t \in Threads, NEW x \in Ids, NEW n \in NoContext..Created,
         resources' = [resources EXCEPT ![x] = n],
         call[t].ctx = x \/ call[t].ctx = NoId,
         \/ call'[t].ctx = x
         \/ call'[t].ctx = NoId /\ n \in {NoContext, Created},
         DOMAIN call' = Threads,
         call'[t].op = "create" /\ n \in 2..5 =>
           \A y \in Ids \ {x} : resources[y] = NoContext
  PROVE  Settled'
<1>1. PICK u : Threads = {u}
  BY DEF OneThread
<1>2. u = t
  BY <1>1
<1>3. /\ resources' \in [Ids -> NoContext..Created]
      /\ \A y \in Ids : resources'[y] = IF y = x THEN n ELSE resources[y]
  BY DEF ClientInv, Settled
<1>4. \A y \in Ids \ {x} : resources[y] \in {NoContext, Created}
  BY <1>1, <1>2, ServerAssumption DEF ClientInv, Settled
<1>5. \A y \in Ids : (\A v \in Threads : call'[v].ctx # y) =>
        resources'[y] \in {NoContext, Created}
  BY <1>1, <1>2, <1>3, <1>4, ServerAssumption
<1>6. \A v \in Threads, y \in Ids :
        call'[v] = [op |-> "create", ctx |-> y] /\ resources'[y] \in 2..5 =>
          \A z \in Ids \ {y} : resources'[z] = NoContext
  <2>. SUFFICES ASSUME NEW y \in Ids, call'[t] = [op |-> "create", ctx |-> y],
                       resources'[y] \in 2..5
                PROVE  \A z \in Ids \ {y} : resources'[z] = NoContext
    BY <1>1, <1>2
  <2>1. y = x
    BY ServerAssumption
  <2>. QED
    BY <1>3, <2>1
<1>. QED
  BY <1>3, <1>5, <1>6 DEF Settled

(* A step that changes no name in the server and makes or unmakes no       *)
(* resource leaves the two sides in agreement.                             *)
LEMMA SameAgrees ==
  ASSUME ClientInv, UNCHANGED <<kind, orphans, stray>>,
         \A x \in Ids : resources'[x] >= 1 <=> resources[x] >= 1
  PROVE  ServerAgrees'
BY LevelValues DEF ClientInv, ServerAgrees

-----------------------------------------------------------------------------
(* The steps of a thread, for a program with one.                          *)
LEMMA BeginsAndEndsKeepClientInv ==
  ASSUME OneThread, ClientInv, NEW t \in Threads, NEW x \in Ids,
         BeginCreate(t, x) \/ EndCreate(t, x) \/ CreateFails(t, x) \/ BeginDestroy(t, x)
  PROVE  ClientInv'
<1>. USE LevelValues DEF NoContext
<1>1. /\ resources \in [Ids -> -1..10] /\ DOMAIN call = Threads
      /\ UNCHANGED <<vars, numContexts, shared, orphans, stray>>
  BY DEF ClientInv, Settled, BeginCreate, EndCreate, CreateFails, BeginDestroy
<1>2. kind' = kind
  BY <1>1 DEF vars
<1>3. \E n \in -1..10 :
        /\ resources' = [resources EXCEPT ![x] = n]
        /\ n = resources[x] \/ (n = 0 /\ resources[x] = -1)
        /\ call[t].ctx \in {x, NoId}
        /\ DOMAIN call' = Threads
        /\ call'[t].ctx = x \/ (call'[t].ctx = NoId /\ n = 10)
        /\ call'[t].op = "create" => n = 0
  <2>1. CASE BeginCreate(t, x)
    <3>1. /\ call[t].ctx = NoId /\ resources[x] = -1
          /\ resources' = [resources EXCEPT ![x] = 0]
          /\ call' = [call EXCEPT ![t] = [op |-> "create", ctx |-> x]]
      BY <2>1 DEF BeginCreate, Enter, Idle
    <3>2. call'[t] = [op |-> "create", ctx |-> x] /\ DOMAIN call' = Threads
      BY <1>1, <3>1
    <3>. WITNESS 0 \in -1..10
    <3>. QED
      BY <3>1, <3>2
  <2>2. CASE EndCreate(t, x)
    <3>1. resources[x] = 10 /\ call[t].ctx = x /\ resources' = resources
          /\ call' = [call EXCEPT ![t] = [op |-> "idle", ctx |-> NoId]]
      BY <2>2 DEF EndCreate, At, Enter
    <3>2. resources' = [resources EXCEPT ![x] = 10]
      BY <1>1, <3>1
    <3>3. call'[t] = [op |-> "idle", ctx |-> NoId] /\ DOMAIN call' = Threads
      BY <1>1, <3>1
    <3>. WITNESS 10 \in -1..10
    <3>. QED
      BY <3>1, <3>2, <3>3
  <2>3. CASE CreateFails(t, x) \/ BeginDestroy(t, x)
    <3>1. /\ call[t].ctx \in {x, NoId} /\ resources' = resources
          /\ call' = [call EXCEPT ![t] = [op |-> "release", ctx |-> x]]
      BY <2>3 DEF CreateFails, BeginDestroy, Enter, Idle
    <3>2. resources' = [resources EXCEPT ![x] = resources[x]] /\ resources[x] \in -1..10
      BY <1>1, <3>1
    <3>3. call'[t] = [op |-> "release", ctx |-> x] /\ DOMAIN call' = Threads
      BY <1>1, <3>1
    <3>. USE <3>2
    <3>. WITNESS resources[x] \in -1..10
    <3>. QED
      BY <3>1, <3>2, <3>3
  <2>. QED
    BY <2>1, <2>2, <2>3
<1>4. PICK n \in -1..10 :
        /\ resources' = [resources EXCEPT ![x] = n]
        /\ n = resources[x] \/ (n = 0 /\ resources[x] = -1)
        /\ call[t].ctx \in {x, NoId}
        /\ DOMAIN call' = Threads
        /\ call'[t].ctx = x \/ (call'[t].ctx = NoId /\ n = 10)
        /\ call'[t].op = "create" => n = 0
  BY <1>3
<1>5. Settled'
  <2>1. /\ call'[t].ctx = x \/ (call'[t].ctx = NoId /\ n \in {-1, 10})
        /\ ~ (call'[t].op = "create" /\ n \in 2..5)
    BY <1>4
  <2>. QED
    BY <1>4, <2>1, StepSettled
<1>6. \A y \in Ids, k \in 1..6 : resources'[y] >= k <=> resources[y] >= k
  BY <1>1, <1>4
<1>7. SharesCounted'
  BY <1>1, <1>6, SameUsers
<1>8. ServerAgrees'
  BY <1>1, <1>2, <1>6, SameAgrees
<1>. QED
  BY <1>5, <1>7, <1>8 DEF ClientInv

(* The DRI context, the mutex, the low level and the hash table.           *)
LEMMA OwnKeepsClientInv ==
  ASSUME OneThread, ClientInv, NEW t \in Threads, NEW x \in Ids,
         OwnResource(t, x) \/ ReleaseOwn(t, x)
  PROVE  ClientInv'
<1>. USE LevelValues DEF NoContext
<1>1. /\ resources \in [Ids -> -1..10] /\ DOMAIN call = Threads
      /\ UNCHANGED <<vars, numContexts, shared, call, orphans, stray>>
      /\ call[t].ctx = x
  BY DEF ClientInv, Settled, OwnResource, ReleaseOwn, At
<1>2. PICK n \in 6..10 : /\ resources' = [resources EXCEPT ![x] = n]
                         /\ resources[x] \in 6..10
  <2>1. CASE OwnResource(t, x)
    <3>1. PICK level \in Level("sAreaMap") .. Created - 1 :
            /\ resources[x] = level
            /\ resources' = [resources EXCEPT ![x] = Level(Levels[level + 1])]
      BY <2>1 DEF OwnResource, At, Reach
    <3>2. level \in 6..9 /\ level + 1 \in 6..10
      OBVIOUS
    <3>3. Level(Levels[level + 1]) = level + 1
      BY <3>2, LevelOfName
    <3>. WITNESS level + 1 \in 6..10
    <3>. QED
      BY <3>1, <3>2, <3>3
  <2>2. CASE ReleaseOwn(t, x)
    <3>1. PICK level \in Level("sAreaMap") + 1 .. Created :
            /\ resources[x] = level
            /\ resources' = [resources EXCEPT ![x] = Level(Levels[level - 1])]
      BY <2>2 DEF ReleaseOwn, At, Reach
    <3>2. level \in 7..10 /\ level - 1 \in 6..10
      OBVIOUS
    <3>3. Level(Levels[level - 1]) = level - 1
      BY <3>2, LevelOfName
    <3>. WITNESS level - 1 \in 6..10
    <3>. QED
      BY <3>1, <3>2, <3>3
  <2>. QED
    BY <2>1, <2>2
<1>3. Settled'
  <2>1. /\ n \notin 2..5 /\ n \in NoContext..Created
        /\ call'[t].ctx = x /\ DOMAIN call' = Threads
    BY <1>1, <1>2
  <2>. QED
    BY <1>1, <1>2, <2>1, StepSettled
<1>4. \A y \in Ids, k \in 1..6 : resources'[y] >= k <=> resources[y] >= k
  BY <1>1, <1>2
<1>5. SharesCounted'
  BY <1>1, <1>4, SameUsers
<1>6. ServerAgrees'
  BY <1>1, <1>4, SameAgrees DEF vars
<1>. QED
  BY <1>3, <1>5, <1>6 DEF ClientInv

(* The levels of what contexts share, each one's own.                      *)
LEMMA SharedLevels ==
  /\ \A r \in Shared : Level(r) \in 2..6
  /\ \A q, r \in Shared : Level(q) = Level(r) => q = r
  /\ \A r \in Shared : Level(r) = 6 <=> r = "sAreaMap"
  /\ "sAreaMap" \in Shared /\ Level("sAreaMap") = 6 /\ Created = 10
BY LevelValues DEF Shared

(* The first context of the process takes one of the shared resources.     *)
LEMMA TakesAloneKeepsClientInv ==
  ASSUME OneThread, ClientInv, NEW t \in Threads, NEW x \in Ids,
         OpenConnection(t, x) \/ OpenOrMap(t, x)
  PROVE  ClientInv'
<1>. USE DEF NoContext
<1>1. /\ resources \in [Ids -> -1..10] /\ DOMAIN call = Threads
      /\ UNCHANGED <<vars, call, orphans, stray>>
      /\ call[t] = [op |-> "create", ctx |-> x]
  BY LevelValues DEF ClientInv, Settled, OpenConnection, OpenOrMap, At
<1>2. PICK r \in Shared :
        /\ resources[x] = Level(r) - 1
        /\ resources' = [resources EXCEPT ![x] = Level(r)]
        /\ shared' = [shared EXCEPT ![r] = @ + 1]
        /\ numContexts' = numContexts + (IF r = "sAreaMap" THEN 1 ELSE 0)
        /\ r = "driConnection" => numContexts = 0
  <2>1. CASE OpenConnection(t, x)
    <3>1. /\ resources[x] = Level("context") /\ numContexts = 0
          /\ UNCHANGED numContexts
          /\ resources' = [resources EXCEPT ![x] = Level("driConnection")]
      BY <2>1 DEF OpenConnection, At, Reach
    <3>2. shared' = [shared EXCEPT !["driConnection"] = @ + 1]
      BY <2>1 DEF OpenConnection, Hold
    <3>3. Level("context") = Level("driConnection") - 1 /\ "driConnection" \in Shared
      BY LevelValues DEF Shared
    <3>4. numContexts' = numContexts + 0
      BY <3>1
    <3>. USE <3>3
    <3>. WITNESS "driConnection" \in Shared
    <3>. QED
      BY <3>1, <3>2, <3>4
  <2>2. CASE OpenOrMap(t, x)
    <3>1. PICK r \in Shared \ {"driConnection"} :
            /\ resources[x] = Level(r) - 1
            /\ resources' = [resources EXCEPT ![x] = Level(r)]
            /\ shared' = [shared EXCEPT ![r] = @ + 1]
            /\ numContexts' = numContexts + (IF r = "sAreaMap" THEN 1 ELSE 0)
      BY <2>2 DEF OpenOrMap, At, Hold, Reach
    <3>. WITNESS r \in Shared
    <3>. QED
      BY <3>1
  <2>. QED
    BY <1>1, <2>1, <2>2 DEF Shared
<1>. DEFINE k == Level(r)
<1>3. /\ k \in 2..6 /\ (k = 6 <=> r = "sAreaMap")
      /\ k = 2 => r = "driConnection"
      /\ \A q \in Shared : q # r => Level(q) # k
  BY LevelValues, SharedLevels DEF Shared
<1>. HIDE DEF k
<1>4. \A y \in Ids \ {x} : resources[y] = -1
  <2>1. CASE k = 2
    <3>1. Users("sAreaMap") = {}
      BY <1>2, <1>3, <2>1, FS_EmptySet DEF ClientInv, SharesCounted
    <3>2. \A y \in Ids \ {x} : resources[y] \in {-1, 10}
      <4>1. call[t].ctx = x
        BY <1>1
      <4>. QED
        BY <4>1, OthersSettled, LevelValues
    <3>. QED
      BY <3>1, <3>2, SharedLevels DEF Users
  <2>2. CASE k \in 3..6
    <3>1. resources[x] \in 2..5
      BY <1>2, <2>2 DEF k
    <3>. QED
      BY <1>1, <3>1 DEF ClientInv, Settled
  <2>. QED
    BY <1>3, <2>1, <2>2
<1>5. \A y \in Ids : resources'[y] = IF y = x THEN k ELSE -1
  BY <1>1, <1>2, <1>4 DEF k
<1>6. Settled'
  <2>1. /\ k \in NoContext..Created /\ call'[t].ctx = x /\ DOMAIN call' = Threads
        /\ call[t].ctx = x /\ resources' = [resources EXCEPT ![x] = k]
    BY <1>1, <1>2, <1>3, LevelValues DEF k
  <2>. QED
    BY <1>4, <2>1, StepSettled
<1>7. SharesCounted'
  <2>1. \A q \in Shared : /\ Users(q) = IF Level(q) <= k - 1 THEN {x} ELSE {}
                         /\ Users(q)' = IF Level(q) <= k THEN {x} ELSE {}
    <3>1. resources[x] = k - 1
      BY <1>2 DEF k
    <3>. QED
      BY <1>3, <1>4, <1>5, <3>1, SharedLevels DEF Users
  <2>2. \A q \in Shared : Level(q) <= k <=> Level(q) <= k - 1 \/ q = r
    BY <1>3, SharedLevels DEF k
  <2>3. shared = [q \in Shared |-> IF Users(q) = {} THEN 0 ELSE 1]
    BY DEF ClientInv, SharesCounted
  <2>4. ~ (Level(r) <= k - 1)
    BY <1>3 DEF k
  <2>5. shared' = [q \in Shared |-> IF Users(q)' = {} THEN 0 ELSE 1]
    <3>1. shared[r] = 0
      BY <2>1, <2>3, <2>4
    <3>2. \A q \in Shared : shared'[q] = IF q = r THEN 1 ELSE shared[q]
      BY <1>2, <2>3, <3>1
    <3>3. \A q \in Shared : shared'[q] = IF Users(q)' = {} THEN 0 ELSE 1
      BY <2>1, <2>2, <2>3, <3>2
    <3>4. shared' = [q \in Shared |-> shared'[q]]
      BY <1>2, <2>3
    <3>. QED
      BY <3>3, <3>4
  <2>6. IsFiniteSet(Users("sAreaMap")') /\ numContexts' = Cardinality(Users("sAreaMap")')
    <3>1. Users("sAreaMap") = {} /\ Users("sAreaMap")' = IF k = 6 THEN {x} ELSE {}
      BY <1>3, <2>1, SharedLevels
    <3>2. numContexts = 0
      BY <3>1, FS_EmptySet DEF ClientInv, SharesCounted
    <3>3. CASE k = 6
      <4>1. numContexts' = 1 /\ Users("sAreaMap")' = {x}
        BY <1>2, <1>3, <3>1, <3>2, <3>3
      <4>. QED
        BY <4>1, FS_Singleton
    <3>4. CASE k # 6
      <4>1. numContexts' = 0 /\ Users("sAreaMap")' = {}
        BY <1>2, <1>3, <3>1, <3>2, <3>4
      <4>. QED
        BY <4>1, FS_EmptySet
    <3>. QED
      BY <3>3, <3>4
  <2>. QED
    BY <2>5, <2>6 DEF SharesCounted
<1>8. ServerAgrees'
  <2>1. resources[x] >= 1
    <3>1. resources[x] = k - 1
      BY <1>2 DEF k
    <3>. QED
      BY <1>3, <3>1
  <2>2. \A y \in Ids : resources'[y] >= 1 <=> resources[y] >= 1
    BY <1>3, <1>4, <1>5, <2>1
  <2>. QED
    BY <1>1, <2>2, SameAgrees DEF vars
<1>. QED
  BY <1>6, <1>7, <1>8 DEF ClientInv

(* A further context of the process finds what is shared.                  *)
LEMMA UseKeepsClientInv ==
  ASSUME OneThread, ClientInv, NEW t \in Threads, NEW x \in Ids, UseConnection(t, x)
  PROVE  ClientInv'
<1>. USE DEF NoContext
<1>1. /\ resources \in [Ids -> -1..10] /\ DOMAIN call = Threads
      /\ UNCHANGED <<vars, shared, call, orphans, stray>>
      /\ call[t].ctx = x /\ resources[x] = 1
      /\ resources' = [resources EXCEPT ![x] = 6]
      /\ numContexts > 0 /\ numContexts' = numContexts + 1
  <2>1. /\ resources \in [Ids -> -1..10] /\ DOMAIN call = Threads
    BY LevelValues DEF ClientInv, Settled
  <2>2. /\ UNCHANGED <<vars, shared, call, orphans, stray>>
        /\ call[t].ctx = x /\ resources[x] = Level("context")
        /\ resources' = [resources EXCEPT ![x] = Level("sAreaMap")]
        /\ numContexts > 0 /\ numContexts' = numContexts + 1
    BY DEF UseConnection, At, Reach
  <2>. QED
    BY <2>1, <2>2, LevelValues
<1>2. Settled'
  <2>1. /\ 6 \in NoContext..Created /\ call'[t].ctx = x /\ DOMAIN call' = Threads
        /\ 6 \notin 2..5
    BY <1>1, LevelValues
  <2>. QED
    BY <1>1, <2>1, StepSettled
<1>3. PICK z \in Users("sAreaMap") : TRUE
  <2>1. Users("sAreaMap") # {}
    BY <1>1, FS_EmptySet DEF ClientInv, SharesCounted
  <2>. QED
    BY <2>1
<1>4. z \in Ids /\ z # x /\ resources[z] >= 6
  BY <1>1, <1>3, SharedLevels DEF Users
<1>5. \A y \in Ids : resources'[y] = IF y = x THEN 6 ELSE resources[y]
  BY <1>1
<1>6. SharesCounted'
  <2>1. \A r \in Shared : Users(r) # {} /\ Users(r)' # {}
    BY <1>1, <1>4, <1>5, SharedLevels DEF Users
  <2>2. Users("sAreaMap")' = Users("sAreaMap") \cup {x} /\ x \notin Users("sAreaMap")
    BY <1>1, <1>5, SharedLevels DEF Users
  <2>3. IsFiniteSet(Users("sAreaMap")') /\ numContexts' = Cardinality(Users("sAreaMap")')
    BY <1>1, <2>2, FS_AddElement DEF ClientInv, SharesCounted
  <2>4. shared' = [r \in Shared |-> IF Users(r)' = {} THEN 0 ELSE 1]
    BY <1>1, <2>1 DEF ClientInv, SharesCounted
  <2>. QED
    BY <2>3, <2>4 DEF SharesCounted
<1>7. ServerAgrees'
  BY <1>1, <1>5, SameAgrees DEF vars
<1>. QED
  BY <1>2, <1>6, <1>7 DEF ClientInv

(* releaseContextResources gives a shared resource back with the last      *)
(* context that uses it.                                                   *)
LEMMA ReleaseSharedKeepsClientInv ==
  ASSUME OneThread, ClientInv, NEW t \in Threads, NEW x \in Ids, ReleaseShared(t, x)
  PROVE  ClientInv'
<1>. USE DEF NoContext
<1>1. /\ resources \in [Ids -> -1..10] /\ DOMAIN call = Threads
      /\ UNCHANGED <<vars, call, orphans, stray>>
      /\ call[t] = [op |-> "release", ctx |-> x]
  BY LevelValues DEF ClientInv, Settled, ReleaseShared, At
<1>2. PICK r \in Shared :
        /\ resources[x] = Level(r)
        /\ resources' = [resources EXCEPT ![x] = Level(Levels[Level(r) - 1])]
        /\ numContexts' = numContexts - (IF r = "sAreaMap" THEN 1 ELSE 0)
        /\ IF numContexts' = 0 THEN Give(r) ELSE UNCHANGED shared
  BY DEF ReleaseShared, At, Reach
<1>. DEFINE k == Level(r)
<1>3. /\ k \in 2..6 /\ (k = 6 <=> r = "sAreaMap")
      /\ \A q \in Shared : q # r => Level(q) # k
  BY SharedLevels
<1>4. resources[x] = k /\ resources' = [resources EXCEPT ![x] = k - 1]
  <2>1. Level(Levels[k - 1]) = k - 1
    BY <1>3, LevelOfName
  <2>. QED
    BY <1>2, <2>1
<1>. HIDE DEF k
<1>5. \A y \in Ids : resources'[y] = IF y = x THEN k - 1 ELSE resources[y]
  BY <1>1, <1>4
<1>6. \A y \in Ids \ {x} : resources[y] \in {-1, 10}
  <2>1. call[t].ctx = x
    BY <1>1
  <2>. QED
    BY <2>1, OthersSettled, LevelValues
<1>7. Settled'
  <2>1. /\ k - 1 \in NoContext..Created /\ call'[t].ctx = x /\ DOMAIN call' = Threads
        /\ call[t].ctx = x /\ resources' = [resources EXCEPT ![x] = k - 1]
        /\ call'[t].op # "create"
    BY <1>1, <1>3, <1>4, LevelValues
  <2>. QED
    BY <2>1, StepSettled
<1>8. /\ IsFiniteSet(Users("sAreaMap")') /\ numContexts' = Cardinality(Users("sAreaMap")')
  <2>1. /\ IsFiniteSet(Users("sAreaMap"))
        /\ numContexts = Cardinality(Users("sAreaMap"))
        /\ numContexts \in Nat
    BY FS_CardinalityType DEF ClientInv, SharesCounted
  <2>2. CASE k = 6
    <3>1. Users("sAreaMap")' = Users("sAreaMap") \ {x} /\ x \in Users("sAreaMap")
      BY <1>4, <1>5, <2>2, SharedLevels DEF Users
    <3>2. numContexts' = numContexts - 1
      BY <1>2, <1>3, <2>2
    <3>. QED
      BY <2>1, <3>1, <3>2, FS_RemoveElement
  <2>3. CASE k # 6
    <3>1. Users("sAreaMap")' = Users("sAreaMap")
      BY <1>3, <1>4, <1>5, <2>3, SharedLevels DEF Users
    <3>2. numContexts' = numContexts
      BY <1>2, <1>3, <2>1, <2>3
    <3>. QED
      BY <2>1, <3>1, <3>2
  <2>. QED
    BY <2>2, <2>3
<1>9. numContexts' = 0 <=> \A y \in Ids \ {x} : resources[y] = -1
  <2>1. numContexts' = 0 <=> Users("sAreaMap")' = {}
    BY <1>8, FS_EmptySet
  <2>2. Users("sAreaMap")' = {y \in Ids \ {x} : resources[y] = 10}
    BY <1>3, <1>5, <1>6, SharedLevels DEF Users
  <2>. QED
    BY <1>6, <2>1, <2>2
<1>10. shared' = [q \in Shared |-> IF Users(q)' = {} THEN 0 ELSE 1]
  <2>1. shared = [q \in Shared |-> IF Users(q) = {} THEN 0 ELSE 1]
    BY DEF ClientInv, SharesCounted
  <2>2. CASE numContexts' = 0
    <3>1. \A y \in Ids \ {x} : resources[y] = -1
      BY <1>9, <2>2
    <3>2. \A q \in Shared : /\ Users(q) = IF Level(q) <= k THEN {x} ELSE {}
                           /\ Users(q)' = IF Level(q) <= k - 1 THEN {x} ELSE {}
      BY <1>3, <1>4, <1>5, <3>1, SharedLevels DEF Users
    <3>3. \A q \in Shared : Level(q) <= k <=> Level(q) <= k - 1 \/ q = r
      BY <1>3, SharedLevels DEF k
    <3>4. ~ (Level(r) <= k - 1)
      BY <1>3 DEF k
    <3>5. shared[r] = 1
      BY <2>1, <3>2, <3>3
    <3>6. shared' = [shared EXCEPT ![r] = @ - 1]
      BY <1>2, <2>2 DEF Give
    <3>7. \A q \in Shared : shared'[q] = IF q = r THEN 0 ELSE shared[q]
      BY <2>1, <3>5, <3>6
    <3>8. \A q \in Shared : shared'[q] = IF Users(q)' = {} THEN 0 ELSE 1
      BY <2>1, <3>2, <3>3, <3>4, <3>7
    <3>9. shared' = [q \in Shared |-> shared'[q]]
      BY <2>1, <3>6
    <3>. QED
      BY <3>8, <3>9
  <2>3. CASE numContexts' # 0
    <3>1. PICK z \in Ids \ {x} : resources[z] = 10
      BY <1>6, <1>9, <2>3
    <3>2. \A q \in Shared : Users(q) # {} /\ Users(q)' # {}
      BY <1>5, <3>1, SharedLevels DEF Users
    <3>3. shared' = shared
      BY <1>2, <2>3
    <3>. QED
      BY <2>1, <3>2, <3>3
  <2>. QED
    BY <2>2, <2>3
<1>11. ServerAgrees'
  <2>1. \A y \in Ids : resources'[y] >= 1 <=> resources[y] >= 1
    BY <1>3, <1>4, <1>5
  <2>. QED
    BY <1>1, <2>1, SameAgrees DEF vars
<1>. QED
  BY <1>7, <1>8, <1>10, <1>11 DEF ClientInv, SharesCounted

(* The server creates a context, or not, and the client understands it, or *)
(* not.                                                                    *)
LEMMA ServerContextKeepsClientInv ==
  ASSUME OneThread, ServerInv, ClientInv, NEW t \in Threads, NEW x \in Ids,
         ServerContext(t, x)
  PROVE  ClientInv'
<1>. USE DEF NoContext
<1>1. /\ resources \in [Ids -> -1..10] /\ DOMAIN call = Threads
  BY LevelValues DEF ClientInv, Settled
<1>2. /\ UNCHANGED <<numContexts, shared, orphans>>
      /\ call[t] = [op |-> "create", ctx |-> x] /\ resources[x] = 0
  BY DEF ServerContext, At
<1>3. kind \in [Ids -> {"none", "context", "surface", "subpicture"}]
  BY DEF ServerInv, ServerTypeOK
<1>4. ASSUME CreateContext(x)
      PROVE  /\ kind[x] = "none"
             /\ \A y \in Ids : kind'[y] = IF y = x THEN "context" ELSE kind[y]
  BY <1>3, <1>4 DEF CreateContext
<1>5. PICK n \in {0, 1} :
        /\ resources' = [resources EXCEPT ![x] = n]
        /\ call' = call \/ call' = [call EXCEPT ![t] = [op |-> "release", ctx |-> x]]
        /\ \/ CreateContext(x) /\ n = 1 /\ stray' = stray
           \/ CreateContext(x) /\ n = 0 /\ stray' = stray \cup {x}
           \/ kind' = kind /\ n = 0 /\ stray' = stray
  <2>1. CASE CreateContext(x) /\ Reach(x, "context") /\ UNCHANGED stray
    <3>1. resources' = [resources EXCEPT ![x] = 1]
      BY <2>1, LevelValues DEF Reach
    <3>2. call' = call \/ call' = [call EXCEPT ![t] = [op |-> "release", ctx |-> x]]
      BY DEF ServerContext, Enter
    <3>. QED
      BY <2>1, <3>1, <3>2
  <2>2. CASE CreateContext(x) /\ Enter(t, "release", x) /\ stray' = stray \cup {x}
             /\ UNCHANGED resources
    <3>1. resources' = [resources EXCEPT ![x] = 0]
      BY <1>1, <1>2, <2>2
    <3>. QED
      BY <2>2, <3>1 DEF Enter
  <2>3. CASE CreateContextFails /\ Enter(t, "release", x) /\ UNCHANGED <<resources, stray>>
    <3>1. resources' = [resources EXCEPT ![x] = 0]
      BY <1>1, <1>2, <2>3
    <3>2. kind' = kind
      BY <2>3 DEF CreateContextFails
    <3>. QED
      BY <2>3, <3>1, <3>2 DEF Enter
  <2>. QED
    BY <2>1, <2>2, <2>3 DEF ServerContext
<1>6. /\ DOMAIN call' = Threads /\ call'[t].ctx = x /\ call[t].ctx = x
  BY <1>1, <1>2, <1>5
<1>7. \A y \in Ids : resources'[y] = IF y = x THEN n ELSE resources[y]
  BY <1>1, <1>5
<1>8. Settled'
  <2>1. n \in NoContext..Created /\ n \notin 2..5
    BY LevelValues
  <2>. QED
    BY <1>5, <1>6, <2>1, StepSettled
<1>9. SharesCounted'
  <2>1. \A y \in Ids, k \in 2..6 : resources'[y] >= k <=> resources[y] >= k
    BY <1>1, <1>2, <1>7
  <2>. QED
    BY <1>2, <2>1, SameUsers
<1>10. ServerAgrees'
  <2>1. /\ \A y \in Ids : resources[y] >= 1 <=>
             kind[y] = "context" /\ y \notin orphans \cup stray
        /\ \A y \in Ids : y \in orphans => kind[y] # "none"
        /\ \A y \in Ids : y \in stray => kind[y] = "context" /\ y \notin orphans
    BY LevelValues DEF ClientInv, ServerAgrees
  <2>2. CASE CreateContext(x) /\ n = 1 /\ stray' = stray
    BY <1>2, <1>4, <1>7, <2>1, <2>2, LevelValues DEF ServerAgrees
  <2>3. CASE CreateContext(x) /\ n = 0 /\ stray' = stray \cup {x}
    BY <1>2, <1>4, <1>7, <2>1, <2>3, LevelValues DEF ServerAgrees
  <2>4. CASE kind' = kind /\ n = 0 /\ stray' = stray
    BY <1>2, <1>7, <2>1, <2>4, LevelValues DEF ServerAgrees
  <2>. QED
    BY <1>5, <2>2, <2>3, <2>4
<1>. QED
  BY <1>8, <1>9, <1>10 DEF ClientInv

(* The end of a release, with the server's context or without.             *)
LEMMA EndReleaseKeepsClientInv ==
  ASSUME OneThread, ServerInv, ClientInv, NEW t \in Threads, NEW x \in Ids,
         EndRelease(t, x)
  PROVE  ClientInv'
<1>. USE DEF NoContext
<1>1. /\ resources \in [Ids -> -1..10] /\ DOMAIN call = Threads
  BY LevelValues DEF ClientInv, Settled
<1>2. /\ UNCHANGED <<numContexts, shared, orphans, stray>>
      /\ resources' = [resources EXCEPT ![x] = -1]
      /\ call' = [call EXCEPT ![t] = [op |-> "idle", ctx |-> NoId]]
  BY DEF EndRelease, Enter
<1>3. /\ call[t].ctx = x
      /\ \/ resources[x] = 1 /\ DestroyContext(x)
         \/ resources[x] = 0 /\ kind' = kind
  BY LevelValues DEF EndRelease, At, vars
<1>4. /\ DOMAIN call' = Threads /\ call'[t].ctx = NoId
      /\ \A y \in Ids : resources'[y] = IF y = x THEN -1 ELSE resources[y]
      /\ call'[t].op = "idle"
  BY <1>1, <1>2
<1>5. Settled'
  <2>1. -1 \in NoContext..Created /\ -1 \in {NoContext, Created}
    BY LevelValues
  <2>. QED
    BY <1>2, <1>3, <1>4, <2>1, StepSettled
<1>6. SharesCounted'
  <2>1. \A y \in Ids, k \in 2..6 : resources'[y] >= k <=> resources[y] >= k
    BY <1>1, <1>3, <1>4
  <2>. QED
    BY <1>2, <2>1, SameUsers
<1>7. ServerAgrees'
  <2>1. /\ \A y \in Ids : resources[y] >= 1 <=>
             kind[y] = "context" /\ y \notin orphans \cup stray
        /\ \A y \in Ids : y \in orphans => kind[y] # "none"
        /\ \A y \in Ids : y \in stray => kind[y] = "context" /\ y \notin orphans
    BY LevelValues DEF ClientInv, ServerAgrees
  <2>2. CASE resources[x] = 1 /\ DestroyContext(x)
    <3>1. \A y \in Ids : kind'[y] = IF y = x THEN "none" ELSE kind[y]
      BY <2>2 DEF DestroyContext, ServerInv, ServerTypeOK
    <3>2. x \notin orphans \cup stray
      BY <2>1, <2>2
    <3>. QED
      BY <1>2, <1>4, <2>1, <3>1, <3>2, LevelValues DEF ServerAgrees
  <2>3. CASE resources[x] = 0 /\ kind' = kind
    BY <1>2, <1>4, <2>1, <2>3, LevelValues DEF ServerAgrees
  <2>. QED
    BY <1>3, <2>2, <2>3
<1>. QED
  BY <1>5, <1>6, <1>7 DEF ClientInv

(* What the kernel and the server do when the process dies.                *)
LEMMA DieKeepsClientInv ==
  ASSUME ClientInv, Die
  PROVE  ClientInv'
<1>. USE DEF NoContext
<1>1. /\ numContexts' = 0 /\ shared' = [r \in Shared |-> 0]
      /\ resources' = [x \in Ids |-> -1] /\ call' = [t \in Threads |-> Idle]
      /\ orphans' = {x \in Ids : kind[x] # "none"} /\ stray' = {} /\ kind' = kind
  BY DEF Die, vars
<1>2. \A t \in Threads : call'[t] = [op |-> "idle", ctx |-> NoId]
  BY <1>1 DEF Idle
<1>3. Settled'
  <2>1. \A t \in Threads : call'[t].op = "idle"
    BY <1>2
  <2>2. \A t \in Threads, x \in Ids : call'[t] # [op |-> "create", ctx |-> x]
    BY <1>2
  <2>. QED
    BY <1>1, <2>2, LevelValues DEF Settled
<1>4. \A r \in Shared : Users(r)' = {}
  BY <1>1, SharedLevels DEF Users
<1>5. SharesCounted'
  BY <1>1, <1>4, SharedLevels, FS_EmptySet DEF SharesCounted
<1>6. ServerAgrees'
  BY <1>1, LevelValues DEF ServerAgrees
<1>. QED
  BY <1>3, <1>5, <1>6 DEF ClientInv

(* The server reaps a name that a failed call left behind.                 *)
LEMMA ReapKeepsClientInv ==
  ASSUME ServerInv, ClientInv, NEW x \in Ids, ServerReaps(x)
  PROVE  ClientInv'
<1>1. /\ UNCHANGED <<numContexts, shared, resources, call, stray>>
      /\ x \in orphans /\ orphans' = orphans \ {x}
      /\ kind' = [kind EXCEPT ![x] = "none"]
  BY DEF ServerReaps, DestroySurface, DestroyContext
<1>2. \A y \in Ids : kind'[y] = IF y = x THEN "none" ELSE kind[y]
  BY <1>1 DEF ServerInv, ServerTypeOK
<1>3. Settled'
  BY <1>1 DEF ClientInv, Settled
<1>4. SharesCounted'
  BY <1>1, SameUsers
<1>5. x \notin stray
  BY <1>1, LevelValues DEF ServerReaps, ClientInv, ServerAgrees
<1>6. ServerAgrees'
  BY <1>1, <1>2, <1>5, LevelValues DEF ClientInv, ServerAgrees
<1>. QED
  BY <1>3, <1>4, <1>6 DEF ClientInv

(* What goes on in the server besides.                                     *)
LEMMA ServerStepKeepsClientInv ==
  ASSUME ServerInv, ClientInv, ServerStep
  PROVE  ClientInv'
<1>1. UNCHANGED <<numContexts, shared, resources, call, orphans, stray>>
  BY DEF ServerStep, clientVars
<1>2. Settled'
  BY <1>1 DEF ClientInv, Settled
<1>3. SharesCounted'
  BY <1>1, SameUsers
<1>4. kind \in [Ids -> {"none", "context", "surface", "subpicture"}]
  BY DEF ServerInv, ServerTypeOK
<1>5. /\ \A y \in Ids : resources[y] >= 1 <=>
           kind[y] = "context" /\ y \notin orphans \cup stray
      /\ \A y \in Ids : y \in orphans => kind[y] # "none"
      /\ \A y \in Ids : y \in stray => kind[y] = "context" /\ y \notin orphans
  BY LevelValues DEF ClientInv, ServerAgrees
<1>6. ASSUME kind' = kind
      PROVE  ServerAgrees'
  BY <1>1, <1>5, <1>6, LevelValues DEF ServerAgrees
<1>7. ASSUME NEW x \in Ids \ orphans, DestroySurface(x)
      PROVE  ServerAgrees'
  <2>1. /\ kind[x] \in {"surface", "subpicture"}
        /\ \A y \in Ids : kind'[y] = IF y = x THEN "none" ELSE kind[y]
    BY <1>4, <1>7 DEF DestroySurface
  <2>. QED
    BY <1>1, <1>5, <2>1, LevelValues DEF ServerAgrees
<1>8. ASSUME NEW x \in Ids, NEW y \in Ids, NEW what \in {"surface", "subpicture"},
             CreateSurface(x, what, y)
      PROVE  ServerAgrees'
  <2>1. /\ kind[x] = "none"
        /\ \A z \in Ids : kind'[z] = IF z = x THEN what ELSE kind[z]
    BY <1>4, <1>8 DEF CreateSurface
  <2>. QED
    BY <1>1, <1>5, <2>1, LevelValues DEF ServerAgrees
<1>9. ServerAgrees'
  <2>1. \/ InitXvMC \/ CleanupXvMC
        \/ \E x \in Ids : DisplayRequest(x) \/ \E y \in Ids \cup {NoId} : ClientClaims(x, y)
        \/ \E x \in Ids \ orphans : DestroySurface(x)
        \/ \E x \in Ids, y \in Ids, what \in {"surface", "subpicture"} :
             CreateSurface(x, what, y)
    BY DEF ServerStep
  <2>2. ASSUME InitXvMC \/ CleanupXvMC
        PROVE  kind' = kind
    BY <2>2 DEF InitXvMC, CleanupXvMC
  <2>3. ASSUME NEW x \in Ids,
               DisplayRequest(x) \/ \E y \in Ids \cup {NoId} : ClientClaims(x, y)
        PROVE  kind' = kind
    BY <2>3 DEF DisplayRequest, ClientClaims
  <2>. QED
    BY <1>6, <1>7, <1>8, <2>1, <2>2, <2>3
<1>. QED
  BY <1>2, <1>3, <1>9 DEF ClientInv

(* Every step of a program with one thread keeps the invariant.            *)
LEMMA NextClientInv ==
  ASSUME OneThread, ServerInv, ClientInv, [ClientNext]_<<vars, clientVars>>
  PROVE  ClientInv'
<1>1. CASE ServerStep
  BY <1>1, ServerStepKeepsClientInv
<1>2. CASE Die
  BY <1>2, DieKeepsClientInv
<1>3. ASSUME NEW x \in Ids, ServerReaps(x)
      PROVE  ClientInv'
  BY <1>3, ReapKeepsClientInv
<1>4. ASSUME NEW t \in Threads, NEW x \in Ids,
             BeginCreate(t, x) \/ EndCreate(t, x) \/ CreateFails(t, x) \/ BeginDestroy(t, x)
      PROVE  ClientInv'
  BY <1>4, BeginsAndEndsKeepClientInv
<1>5. ASSUME NEW t \in Threads, NEW x \in Ids, ServerContext(t, x)
      PROVE  ClientInv'
  BY <1>5, ServerContextKeepsClientInv
<1>6. ASSUME NEW t \in Threads, NEW x \in Ids, OpenConnection(t, x) \/ OpenOrMap(t, x)
      PROVE  ClientInv'
  BY <1>6, TakesAloneKeepsClientInv
<1>7. ASSUME NEW t \in Threads, NEW x \in Ids, UseConnection(t, x)
      PROVE  ClientInv'
  BY <1>7, UseKeepsClientInv
<1>8. ASSUME NEW t \in Threads, NEW x \in Ids, OwnResource(t, x) \/ ReleaseOwn(t, x)
      PROVE  ClientInv'
  BY <1>8, OwnKeepsClientInv
<1>9. ASSUME NEW t \in Threads, NEW x \in Ids, ReleaseShared(t, x)
      PROVE  ClientInv'
  BY <1>9, ReleaseSharedKeepsClientInv
<1>10. ASSUME NEW t \in Threads, NEW x \in Ids, EndRelease(t, x)
       PROVE  ClientInv'
  BY <1>10, EndReleaseKeepsClientInv
<1>11. CASE UNCHANGED <<vars, clientVars>>
  <2>1. UNCHANGED <<numContexts, shared, resources, call, orphans, stray, kind>>
    BY <1>11 DEF vars, clientVars
  <2>2. SharesCounted' /\ ServerAgrees'
    BY <2>1, SameUsers, SameAgrees
  <2>3. Settled'
    BY <2>1 DEF ClientInv, Settled
  <2>. QED
    BY <2>2, <2>3 DEF ClientInv
<1>. QED
  BY <1>1, <1>2, <1>3, <1>4, <1>5, <1>6, <1>7, <1>8, <1>9, <1>10, <1>11 DEF ClientNext

(* In a program that calls the library from one thread the books of both   *)
(* sides agree between any two steps.                                      *)
THEOREM ClientInvariant ==
  ASSUME OneThread
  PROVE  ClientSpec => [](ServerInv /\ ClientInv)
<1>1. ClientInit => ServerInv /\ ClientInv
  BY InitServerInv, InitClientInv DEF ClientInit
<1>2. ServerInv /\ ClientInv /\ [ClientNext]_<<vars, clientVars>> => (ServerInv /\ ClientInv)'
  BY ClientStepIsServerStep, NextServerInv, NextClientInv
<1>. QED
  BY <1>1, <1>2, PTL DEF ClientSpec

(* While a context exists the maps, the lock and the connections it uses   *)
(* are there.                                                              *)
LEMMA ClientInvShares == ASSUME ClientInv PROVE SharedWhileUsed
<1>1. \A r \in Shared : shared[r] \in 0..1
  BY DEF ClientInv, SharesCounted
<1>2. ASSUME NEW x \in Ids, resources[x] >= Level("sAreaMap"), NEW r \in Shared
      PROVE  shared[r] = 1
  <2>1. Users(r) # {}
    BY <1>2, SharedLevels DEF Users, ClientInv, Settled, NoContext
  <2>. QED
    BY <2>1 DEF ClientInv, SharesCounted
<1>. QED
  BY <1>1, <1>2 DEF SharedWhileUsed

(* With the last context gone nothing is left but what a failed call is    *)
(* known to leave.                                                         *)
LEMMA ClientInvLeavesNothing == ASSUME ClientInv PROVE NothingLeftBehind
<1>. SUFFICES ASSUME \A t \in Threads : call[t] = Idle
              PROVE  LET mine == {x \in Ids : resources[x] # NoContext}
                     IN  /\ mine = {x \in Ids : kind[x] = "context"} \ (orphans \cup stray)
                         /\ numContexts = Cardinality(mine)
                         /\ \A r \in Shared : shared[r] = IF mine = {} THEN 0 ELSE 1
  BY DEF NothingLeftBehind
<1>. DEFINE mine == {x \in Ids : resources[x] # NoContext}
<1>1. \A t \in Threads : call[t].ctx = NoId
  BY DEF Idle
<1>2. \A x \in Ids : resources[x] \in {-1, 10}
  BY <1>1, ServerAssumption, LevelValues DEF ClientInv, Settled, NoContext
<1>3. mine = {x \in Ids : resources[x] >= 1} /\ mine = Users("sAreaMap")
  BY <1>2, LevelValues DEF Users, NoContext
<1>4. \A r \in Shared : Users(r) = mine
  BY <1>2, SharedLevels DEF Users, NoContext
<1>. HIDE DEF mine
<1>5. mine = {x \in Ids : kind[x] = "context"} \ (orphans \cup stray)
  <2>1. \A x \in Ids : resources[x] >= 1 <=> kind[x] = "context" /\ x \notin orphans \cup stray
    BY LevelValues DEF ClientInv, ServerAgrees
  <2>. QED
    BY <1>3, <2>1
<1>6. numContexts = Cardinality(mine) /\ \A r \in Shared : shared[r] = IF mine = {} THEN 0 ELSE 1
  BY <1>3, <1>4 DEF ClientInv, SharesCounted
<1>. QED
  BY <1>5, <1>6 DEF mine

(* No context is left with an unmapped SAREA or a closed file.             *)
THEOREM SharedResourcesHeld ==
  ASSUME OneThread
  PROVE  ClientSpec => []SharedWhileUsed
<1>1. ServerInv /\ ClientInv => SharedWhileUsed
  BY ClientInvShares
<1>. QED
  BY <1>1, ClientInvariant, PTL

(* Creations that fail and destructions in any order leave nothing behind. *)
THEOREM NothingStaysBehind ==
  ASSUME OneThread
  PROVE  ClientSpec => []NothingLeftBehind
<1>1. ServerInv /\ ClientInv => NothingLeftBehind
  BY ClientInvLeavesNothing
<1>. QED
  BY <1>1, ClientInvariant, PTL
=============================================================================
