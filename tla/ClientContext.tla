---------------------------- MODULE ClientContext ----------------------------
(***************************************************************************)
(* XvMC contexts in a client process: XvMCCreateContext and                *)
(* XvMCDestroyContext of src/xvmc/viaXvMC.c, which take and return, one by *)
(* one, what the contexts of the process share (the DRI connection, the    *)
(* DRM file and three mappings, counted by numContexts) and what each has  *)
(* of its own, over the server of XvMCServer.  A creation that fails gives *)
(* back what it has in the reverse order; a process that dies leaves that  *)
(* to the kernel and to the server.                                        *)
(*                                                                         *)
(* Nothing guards numContexts and the addresses next to it.  A step here   *)
(* is what a thread does between two such accesses.                        *)
(***************************************************************************)
EXTENDS XvMCServer, Sequences

CONSTANTS Threads,      \* threads of the client process
          Mismatch      \* the library may not understand the server's reply

ASSUME ClientAssumption == Mismatch \in BOOLEAN

(* numContexts: contexts of the process that use the shared things         *)
(* shared: how often each of those is held                                 *)
(* resources: how far each context has come (Levels)                       *)
(* call: what each thread is doing                                         *)
(* orphans: contexts of dead clients the server has not destroyed yet      *)
(* stray: contexts of a reply that was not understood                      *)
VARIABLES numContexts, shared, resources, call, orphans, stray

clientVars == <<numContexts, shared, resources, call, orphans, stray>>

(* The names of enum ContextRes in the order in which the resources are    *)
(* acquired; releaseContextResources falls through them from the last.     *)
Levels == <<"context", "driConnection", "fd", "mmioMap", "fbMap", "sAreaMap",
            "drmContext", "mutex", "lowLevel", "drawHash">>
Level(r) == CHOOSE i \in DOMAIN Levels : Levels[i] = r
Created == Len(Levels)
NoContext == -1                                        \* no privData

Shared == {"driConnection", "fd", "mmioMap", "fbMap", "sAreaMap"}

Idle == [op |-> "idle", ctx |-> NoId]

ClientInit ==
  /\ Init
  /\ numContexts = 0
  /\ shared = [r \in Shared |-> 0]
  /\ resources = [x \in Ids |-> NoContext]
  /\ call = [t \in Threads |-> Idle]
  /\ orphans = {} /\ stray = {}

-----------------------------------------------------------------------------
Reach(x, r) == resources' = [resources EXCEPT ![x] = Level(r)]
Hold(r)     == shared' = [shared EXCEPT ![r] = @ + 1]
Give(r)     == shared' = [shared EXCEPT ![r] = @ - 1]

Enter(t, op, x) == call' = [call EXCEPT ![t] = [op |-> op, ctx |-> x]]

(* XvMCCreateContext allocates its private data.                           *)
BeginCreate(t, x) ==
  /\ enabled /\ call[t] = Idle
  /\ resources[x] = NoContext /\ kind[x] = "none"
  /\ resources' = [resources EXCEPT ![x] = 0]
  /\ Enter(t, "create", x)
  /\ UNCHANGED <<vars, numContexts, shared, orphans, stray>>

At(t, x, op, level) ==
  /\ call[t] = [op |-> op, ctx |-> x] /\ resources[x] = level

(* Mutant: the context is noted as taken behind the look at its version. *)
ServerContext_LateLevel(t, x) ==
  /\ At(t, x, "create", 0)
  /\ \/ /\ CreateContext(x)
        /\ \/ Reach(x, "context") /\ UNCHANGED <<call, stray>>
           \/ Mismatch /\ Enter(t, "release", x) /\ UNCHANGED <<resources, stray>>
     \/ /\ CreateContextFails
        /\ Enter(t, "release", x) /\ UNCHANGED <<resources, stray>>
  /\ UNCHANGED <<numContexts, shared, orphans>>

(* The server's context, and a look at the reply and its version; a reply  *)
(* of the wrong size leaves the context with the server.                   *)
ServerContext(t, x) ==
  /\ At(t, x, "create", 0)
  /\ \/ /\ CreateContext(x)
        /\ \/ Reach(x, "context") /\ UNCHANGED <<call, stray>>
           \/ Mismatch /\ Reach(x, "context") /\ Enter(t, "release", x) /\ UNCHANGED stray
           \/ Mismatch /\ Enter(t, "release", x) /\ stray' = stray \cup {x}
                       /\ UNCHANGED resources
     \/ /\ CreateContextFails
        /\ Enter(t, "release", x) /\ UNCHANGED <<resources, stray>>
  /\ UNCHANGED <<numContexts, shared, orphans>>

(* The first context of a process opens and maps; the next ones use that.  *)
OpenConnection(t, x) ==
  /\ At(t, x, "create", Level("context")) /\ numContexts = 0
  /\ Hold("driConnection") /\ Reach(x, "driConnection")
  /\ UNCHANGED <<vars, numContexts, call, orphans, stray>>

UseConnection(t, x) ==
  /\ At(t, x, "create", Level("context")) /\ numContexts > 0
  /\ numContexts' = numContexts + 1
  /\ Reach(x, "sAreaMap")
  /\ UNCHANGED <<vars, shared, call, orphans, stray>>

(* drmOpen, with version and authorisation checks behind it, and the maps; *)
(* with the last of them the context counts.                               *)
OpenOrMap(t, x) ==
  /\ \E r \in Shared \ {"driConnection"} :
       /\ At(t, x, "create", Level(r) - 1)
       /\ Hold(r) /\ Reach(x, r)
       /\ numContexts' = numContexts + (IF r = "sAreaMap" THEN 1 ELSE 0)
  /\ UNCHANGED <<vars, call, orphans, stray>>

(* DRI context, mutex, low level and hash table of the context itself.     *)
OwnResource(t, x) ==
  /\ \E level \in Level("sAreaMap") .. Created - 1 :
       /\ At(t, x, "create", level)
       /\ Reach(x, Levels[level + 1])
  /\ UNCHANGED <<vars, numContexts, shared, call, orphans, stray>>

EndCreate(t, x) ==
  /\ At(t, x, "create", Created)
  /\ Enter(t, "idle", NoId)
  /\ UNCHANGED <<vars, numContexts, shared, resources, orphans, stray>>

(* Each step of a creation but the first and pthread_mutex_init may fail.  *)
CreateFails(t, x) ==
  /\ call[t] = [op |-> "create", ctx |-> x]
  /\ resources[x] \in (1..Created - 1) \ {Level("drmContext")}
  /\ Enter(t, "release", x)
  /\ UNCHANGED <<vars, numContexts, shared, resources, orphans, stray>>

(* XvMCDestroyContext; the client has destroyed surfaces and subpictures.  *)
BeginDestroy(t, x) ==
  /\ call[t] = Idle /\ resources[x] = Created
  /\ \A y \in Ids : kind[y] # "none" => parent[y] # x
  /\ \A u \in Threads : call[u].ctx # x
  /\ Enter(t, "release", x)
  /\ UNCHANGED <<vars, numContexts, shared, resources, orphans, stray>>

(* releaseContextResources: one case of its switch and on into the next,   *)
(* for what the context has of its own and for what it shares.             *)
ReleaseOwn(t, x) ==
  /\ \E level \in Level("sAreaMap") + 1 .. Created :
       /\ At(t, x, "release", level)
       /\ Reach(x, Levels[level - 1])
  /\ UNCHANGED <<vars, numContexts, shared, call, orphans, stray>>

(* Mutant: the count is kept and not looked at. *)
ReleaseShared_Always(t, x) ==
  /\ \E r \in Shared :
       /\ At(t, x, "release", Level(r))
       /\ Reach(x, Levels[Level(r) - 1])
       /\ numContexts' = numContexts - (IF r = "sAreaMap" THEN 1 ELSE 0)
       /\ Give(r)
  /\ UNCHANGED <<vars, call, orphans, stray>>

ReleaseShared(t, x) ==
  /\ \E r \in Shared :
       /\ At(t, x, "release", Level(r))
       /\ Reach(x, Levels[Level(r) - 1])
       /\ numContexts' = numContexts - (IF r = "sAreaMap" THEN 1 ELSE 0)
       /\ IF numContexts' = 0 THEN Give(r) ELSE UNCHANGED shared
  /\ UNCHANGED <<vars, call, orphans, stray>>

EndRelease(t, x) ==
  /\ \/ At(t, x, "release", Level("context")) /\ DestroyContext(x)
     \/ At(t, x, "release", 0) /\ UNCHANGED vars
  /\ resources' = [resources EXCEPT ![x] = NoContext]
  /\ Enter(t, "idle", NoId)
  /\ UNCHANGED <<numContexts, shared, orphans, stray>>

(* The process dies: the kernel takes back what it shared, the server will *)
(* destroy what it has of it, in its own time.                             *)
Die ==
  /\ \E x \in Ids : resources[x] # NoContext \/ x \in stray
  /\ numContexts' = 0
  /\ shared' = [r \in Shared |-> 0]
  /\ resources' = [x \in Ids |-> NoContext]
  /\ call' = [t \in Threads |-> Idle]
  /\ orphans' = {x \in Ids : kind[x] # "none"} /\ stray' = {}
  /\ UNCHANGED vars

ServerReaps(x) ==
  /\ x \in orphans
  /\ DestroySurface(x) \/ DestroyContext(x)
  /\ orphans' = orphans \ {x}
  /\ UNCHANGED <<numContexts, shared, resources, call, stray>>

-----------------------------------------------------------------------------
(* What goes on in the server besides; clients use contexts that they have.*)
Usable(x) == /\ x \in Ids /\ resources[x] = Created
             /\ \A t \in Threads : call[t].ctx # x

ServerStep ==
  /\ \/ InitXvMC
     \/ CleanupXvMC /\ \A x \in Ids : resources[x] = NoContext
     \/ \E x \in Ids \ orphans : DestroySurface(x)
     \/ \E x \in Ids \ orphans : DisplayRequest(x)
     \/ \E x \in Ids, y \in Ids, what \in {"surface", "subpicture"} :
          Usable(y) /\ resources[x] = NoContext /\ CreateSurface(x, what, y)
     \/ \E x \in Ids \ orphans, y \in Ids \cup {NoId} : ClientClaims(x, y)
  /\ UNCHANGED clientVars

ClientNext ==
  \/ ServerStep \/ Die
  \/ \E x \in Ids : ServerReaps(x)
  \/ \E t \in Threads, x \in Ids :
       \/ BeginCreate(t, x) \/ ServerContext(t, x) \/ OpenConnection(t, x)
       \/ UseConnection(t, x) \/ OpenOrMap(t, x) \/ OwnResource(t, x)
       \/ EndCreate(t, x) \/ CreateFails(t, x) \/ BeginDestroy(t, x)
       \/ ReleaseOwn(t, x) \/ ReleaseShared(t, x) \/ EndRelease(t, x)

ClientSpec == ClientInit /\ [][ClientNext]_<<vars, clientVars>>

-----------------------------------------------------------------------------
(* What contexts of a process share is there, once, as long as one of them *)
(* uses it: through creations that fail at any point and destructions in   *)
(* any order no context is left with an unmapped SAREA or a closed file.   *)
SharedWhileUsed ==
  /\ \A r \in Shared : shared[r] \in 0..1
  /\ \A x \in Ids : resources[x] >= Level("sAreaMap") =>
       \A r \in Shared : shared[r] = 1

(* When no call is under way nothing remains of contexts that could not be *)
(* created or that are gone: the server's contexts are those the client    *)
(* has, what they share is held exactly if there are any, and the client's *)
(* count agrees.  (A context whose creation was not understood remains.)   *)
NothingLeftBehind ==
  (\A t \in Threads : call[t] = Idle) =>
    LET mine == {x \in Ids : resources[x] # NoContext}
    IN  /\ mine = {x \in Ids : kind[x] = "context"} \ (orphans \cup stray)
        /\ numContexts = Cardinality(mine)
        /\ \A r \in Shared : shared[r] = IF mine = {} THEN 0 ELSE 1
=============================================================================
