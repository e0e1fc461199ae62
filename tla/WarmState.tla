------------------------------ MODULE WarmState ------------------------------
(***************************************************************************)
(* One daemon process: its warm state (daemon/server.py, class Daemon),    *)
(* the thread that builds it, and the connection threads that answer from  *)
(* whatever there is of it (daemon/transport.py, _handle_socket).          *)
(*                                                                         *)
(* A section under Daemon._lock is one step, and so is the work between    *)
(* two sections.  An index is known by the thread that built it, which is  *)
(* all there is to tell two indexes of one target apart.  A SHUTDOWN       *)
(* request is left to DaemonLifecycle; deadlines and the ranking itself    *)
(* are left out.                                                           *)
(***************************************************************************)

CONSTANTS
    Conn,      \* connection threads: one request each
    Warmer,    \* the thread that runs _build, once, from main()
    Key,       \* the (os, shell) targets asked about
    NoIndex    \* "no entry" in _indexes, and the None of index_for

Thread == Conn \cup {Warmer}

ASSUME WarmerAssumption == Warmer \notin Conn
ASSUME NoIndexAssumption == NoIndex \notin Thread

VARIABLES
    inventory,  \* _inventory is not None
    catalog,    \* _catalog is not None
    indexes,    \* _indexes[k]: the thread that built the index stored for k
    pc,         \* pc[t]: where thread t is
    key,        \* key[t]: the target t is about
    got,        \* got[t]: what index_for returned to t, if it has
    answer,     \* answer[c]: the reply that c's connection comes to
    seen        \* seen[c]: the warm state when c was accepted (history)

warm == <<inventory, catalog, indexes>>
vars == <<inventory, catalog, indexes, pc, key, got, answer, seen>>

Replies == {"bad_request", "version_mismatch", "pong", "unavailable",
            "nothing", "names", "ranked", "internal"}
ConnStates == {"idle", "reading", "inventory", "lookup", "building",
               "storing", "searching", "naming", "replying", "closed"}
WarmerStates == {"discover", "catalog", "detect", "lookup", "building",
                 "storing", "done"}
Snapshot == [inventory : BOOLEAN, indexes : [Key -> Thread \cup {NoIndex}]]

TypeOK ==
    /\ inventory \in BOOLEAN
    /\ catalog \in BOOLEAN
    /\ indexes \in [Key -> Thread \cup {NoIndex}]
    /\ pc \in [Thread -> ConnStates \cup WarmerStates]
    /\ pc[Warmer] \in WarmerStates
    /\ \A c \in Conn : pc[c] \in ConnStates
    /\ key \in [Thread -> Key]
    /\ got \in [Thread -> Thread \cup {NoIndex}]
    /\ answer \in [Conn -> Replies \cup {"none"}]
    /\ seen \in [Conn -> Snapshot]

Empty == [k \in Key |-> NoIndex]

Init ==
    /\ inventory = FALSE
    /\ catalog = FALSE
    /\ indexes = Empty
    /\ pc = [t \in Thread |-> IF t = Warmer THEN "discover" ELSE "idle"]
    /\ key \in [Thread -> Key]
    /\ got = [t \in Thread |-> NoIndex]
    /\ answer = [c \in Conn |-> "none"]
    /\ seen = [c \in Conn |-> [inventory |-> FALSE, indexes |-> Empty]]

Goto(t, label) == pc' = [pc EXCEPT ![t] = label]

-----------------------------------------------------------------------------
(* The warm-up, _build and _build_catalog *)

Discover ==
    /\ pc[Warmer] = "discover"
    /\ inventory' = TRUE
    /\ Goto(Warmer, "catalog")
    /\ UNCHANGED <<catalog, indexes, key, got, answer, seen>>

\* "inventory build failed; serving nothing"
DiscoverFails ==
    /\ pc[Warmer] = "discover"
    /\ Goto(Warmer, "done")
    /\ UNCHANGED <<warm, key, got, answer, seen>>

BuildCatalog ==
    /\ pc[Warmer] = "catalog"
    /\ catalog' = TRUE
    /\ indexes' = Empty
    /\ Goto(Warmer, "detect")
    /\ UNCHANGED <<inventory, key, got, answer, seen>>

\* Mutant: a failed catalog takes the inventory with it.
FailBackToCold ==
    /\ pc[Warmer] = "catalog"
    /\ inventory' = FALSE
    /\ Goto(Warmer, "done")
    /\ UNCHANGED <<catalog, indexes, key, got, answer, seen>>

\* "catalog build failed; suggestions will be unranked"
CatalogFails ==
    /\ pc[Warmer] = "catalog"
    /\ Goto(Warmer, "done")
    /\ UNCHANGED <<warm, key, got, answer, seen>>

\* The shell the daemon was started from gets its index built ahead of need.
Detect(k) ==
    /\ pc[Warmer] = "detect"
    /\ key' = [key EXCEPT ![Warmer] = k]
    /\ Goto(Warmer, "lookup")
    /\ UNCHANGED <<warm, got, answer, seen>>

\* "shell detection failed; leaving the index lazy"
DetectFails ==
    /\ pc[Warmer] = "detect"
    /\ Goto(Warmer, "done")
    /\ UNCHANGED <<warm, key, got, answer, seen>>

-----------------------------------------------------------------------------
(* index_for, on a connection thread or at the end of the warm-up *)

\* Mutant: whoever has an index goes on to search it.
SearchNext(t) == Goto(t, "searching")

\* index_for returned an index, or None.
HasIndex(t) == Goto(t, IF t = Warmer THEN "done" ELSE "searching")
HasNone(t)  == Goto(t, IF t = Warmer THEN "done" ELSE "naming")

\* Mutant: only the catalog is looked at.
LookUpCatalog(t) ==
    /\ pc[t] = "lookup"
    /\ IF catalog THEN Goto(t, "building") ELSE HasNone(t)
    /\ UNCHANGED <<warm, key, got, answer, seen>>

\* The first section: catalog and existing entry are read together.
LookUp(t) ==
    /\ pc[t] = "lookup"
    /\ got' = [got EXCEPT ![t] = indexes[key[t]]]
    /\ CASE indexes[key[t]] # NoIndex -> HasIndex(t)
         [] indexes[key[t]] = NoIndex /\ catalog -> Goto(t, "building")
         [] OTHER -> HasNone(t)
    /\ UNCHANGED <<warm, key, answer, seen>>

\* ToolIndex.from_catalog, outside the lock.
BuildIndex(t) ==
    /\ pc[t] = "building"
    /\ Goto(t, "storing")
    /\ UNCHANGED <<warm, key, got, answer, seen>>

\* "index build failed for ..."
BuildIndexFails(t) ==
    /\ pc[t] = "building"
    /\ HasNone(t)
    /\ UNCHANGED <<warm, key, got, answer, seen>>

\* Mutant: the entry is assigned.
StoreOver(t) ==
    /\ pc[t] = "storing"
    /\ indexes' = [indexes EXCEPT ![key[t]] = t]
    /\ got' = [got EXCEPT ![t] = t]
    /\ HasIndex(t)
    /\ UNCHANGED <<inventory, catalog, key, answer, seen>>

\* Mutant: the thread keeps the index it has built itself.
StoreButKeepOwn(t) ==
    /\ pc[t] = "storing"
    /\ indexes' = [indexes EXCEPT ![key[t]] = IF @ = NoIndex THEN t ELSE @]
    /\ got' = [got EXCEPT ![t] = t]
    /\ HasIndex(t)
    /\ UNCHANGED <<inventory, catalog, key, answer, seen>>

\* The second section, setdefault: the first to store wins.
Store(t) ==
    /\ pc[t] = "storing"
    /\ indexes' = [indexes EXCEPT ![key[t]] = IF @ = NoIndex THEN t ELSE @]
    /\ got' = [got EXCEPT ![t] = indexes'[key[t]]]
    /\ HasIndex(t)
    /\ UNCHANGED <<inventory, catalog, key, answer, seen>>

IndexFor(t) ==
    LookUp(t) \/ BuildIndex(t) \/ BuildIndexFails(t) \/ Store(t)

-----------------------------------------------------------------------------
(* A connection thread, _handle_socket, handle and _suggest *)

Accept(c) ==
    /\ pc[c] = "idle"
    /\ seen' = [seen EXCEPT ![c] =
                   [inventory |-> inventory, indexes |-> indexes]]
    /\ Goto(c, "reading")
    /\ UNCHANGED <<warm, key, got, answer>>

\* The handler has its reply, or has raised: that is a reply too.
Answer(c, r) ==
    /\ answer' = [answer EXCEPT ![c] = r]
    /\ Goto(c, "replying")

\* No line within two seconds, the peer is gone, or decode_request raises
\* what is not a ProtocolError: the connection is closed without a word.
NothingToRead(c) ==
    /\ pc[c] = "reading"
    /\ Goto(c, "closed")
    /\ UNCHANGED <<warm, key, got, answer, seen>>

\* What needs no warm state: a garbled line, another version, a ping.
AnswerAtOnce(c) ==
    /\ pc[c] = "reading"
    /\ \E r \in {"bad_request", "version_mismatch", "pong"} : Answer(c, r)
    /\ UNCHANGED <<warm, key, got, seen>>

\* Only the shell is the widget's to say; the os is the daemon's own.
Suggest(c, k) ==
    /\ pc[c] = "reading"
    /\ key' = [key EXCEPT ![c] = k]
    /\ Goto(c, "inventory")
    /\ UNCHANGED <<warm, got, answer, seen>>

\* Mutant: a request that finds no inventory is queued.
WaitForInventory(c) ==
    /\ pc[c] = "inventory"
    /\ inventory
    /\ Answer(c, "nothing") \/ (Goto(c, "lookup") /\ UNCHANGED answer)
    /\ UNCHANGED <<warm, key, got, seen>>

\* _suggest reads the inventory under the lock; then a blank buffer is told
\* from a query.
ReadInventory(c) ==
    /\ pc[c] = "inventory"
    /\ \/ ~inventory /\ Answer(c, "unavailable")
       \/ inventory /\ Answer(c, "nothing")
       \/ inventory /\ Goto(c, "lookup") /\ UNCHANGED answer
    /\ UNCHANGED <<warm, key, got, seen>>

\* Ranked lines, or the name completion that an empty result falls back to.
Search(c) ==
    /\ pc[c] = "searching"
    /\ \E r \in {"ranked", "names"} : Answer(c, r)
    /\ UNCHANGED <<warm, key, got, seen>>

\* Without an index: _by_name over the inventory.
CompleteNames(c) ==
    /\ pc[c] = "naming"
    /\ Answer(c, "names")
    /\ UNCHANGED <<warm, key, got, seen>>

\* "handler failed": handle() turns it into INTERNAL.
HandlerRaises(c) ==
    /\ pc[c] \in {"searching", "naming"}
    /\ Answer(c, "internal")
    /\ UNCHANGED <<warm, key, got, seen>>

\* Sent, or not: the peer may be gone and encode() may refuse the reply.
\* Either way the connection is over.
Send(c) ==
    /\ pc[c] = "replying"
    /\ \E sent \in BOOLEAN :
          answer' = [answer EXCEPT ![c] = IF sent THEN @ ELSE "none"]
    /\ Goto(c, "closed")
    /\ UNCHANGED <<warm, key, got, seen>>

Serve(c) ==
    \/ NothingToRead(c) \/ AnswerAtOnce(c) \/ \E k \in Key : Suggest(c, k)
    \/ ReadInventory(c) \/ IndexFor(c)
    \/ Search(c) \/ CompleteNames(c) \/ HandlerRaises(c)
    \/ Send(c)

WarmUp ==
    \/ Discover \/ DiscoverFails
    \/ BuildCatalog \/ CatalogFails
    \/ (\E k \in Key : Detect(k)) \/ DetectFails
    \/ IndexFor(Warmer)

Next == WarmUp \/ \E c \in Conn : Accept(c) \/ Serve(c)

Spec == Init /\ [][Next]_vars

(***************************************************************************)
(* A connection thread runs once it is accepted, and what it calls comes   *)
(* back.  Nothing is asked of the warm-up, which may take forever.         *)
(***************************************************************************)
FairSpec == Spec /\ \A c \in Conn : WF_vars(Serve(c))

-----------------------------------------------------------------------------
(* Threads that race for the index of one target "waste one build and then *)
(* agree" (index_for): whoever was given an index for it was given the     *)
(* same one, whichever of them built first, stored first or came later.    *)
AgreeOnIndex ==
    \A s, t \in Thread :
        /\ got[s] # NoIndex
        /\ got[t] # NoIndex
        /\ key[s] = key[t]
        => got[s] = got[t]

\* An index in place is there for good: neither the end of the warm-up nor a
\* slower racer takes it away from the requests that rely on it.
IndexSticks ==
    [][\A k \in Key : indexes[k] # NoIndex => indexes'[k] = indexes[k]]_vars

\* "Built once and reused": a request accepted when its target had an index
\* neither builds one again nor completes names for want of one (it still does
\* when its search finds nothing, server.py:252-260).
BuiltOnce ==
    \A c \in Conn :
        pc[c] \in {"building", "storing", "naming"}
            => seen[c].indexes[key[c]] = NoIndex

\* The daemon is "still indexing" only to requests accepted before the
\* inventory was there: a failing catalog does not take it back (_build).
NeverUnavailableAgain ==
    \A c \in Conn : answer[c] = "unavailable" => ~seen[c].inventory

\* A keypress is never blocked on a cold start (warm): each accepted
\* connection comes to its end, whatever becomes of the warm-up.
NobodyWaits ==
    \A c \in Conn : pc[c] = "reading" ~> pc[c] = "closed"

=============================================================================
