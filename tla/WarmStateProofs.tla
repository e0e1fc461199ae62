--------------------------- MODULE WarmStateProofs ---------------------------
(***************************************************************************)
(* The safety of WarmState for any number of connections and targets.      *)
(***************************************************************************)
EXTENDS WarmState, TLAPS

(***************************************************************************)
(* What the properties rest on: before the catalog is there, nobody builds *)
(* and nothing is stored, so the one clear() of the warm-up clears nothing; *)
(* and what a thread was given or a request saw is what is stored still.   *)
(***************************************************************************)
NoCatalogYet ==
    /\ pc[Warmer] \in {"discover", "catalog"} => ~catalog
    /\ ~catalog => \A k \in Key : indexes[k] = NoIndex
    /\ \A t \in Thread : pc[t] \in {"building", "storing"} => catalog

GotIsStored ==
    /\ \A t \in Thread : got[t] # NoIndex => indexes[key[t]] = got[t]
    /\ \A c \in Conn : pc[c] \in {"idle", "reading"} => got[c] = NoIndex
    /\ pc[Warmer] \in {"discover", "catalog", "detect"} => got[Warmer] = NoIndex

SeenIsStored ==
    \A c \in Conn :
        /\ seen[c].inventory => inventory
        /\ \A k \in Key : seen[c].indexes[k] # NoIndex
                              => indexes[k] = seen[c].indexes[k]

NothingYet == \A c \in Conn : pc[c] = "idle" => answer[c] = "none"

Inv == TypeOK /\ NoCatalogYet /\ GotIsStored /\ SeenIsStored
           /\ BuiltOnce /\ NeverUnavailableAgain /\ NothingYet

-----------------------------------------------------------------------------
USE WarmerAssumption, NoIndexAssumption

\* The initial states are typed (Daemon.__init__).
LEMMA TypeInit == Init => TypeOK
<1> SUFFICES ASSUME Init PROVE TypeOK
    OBVIOUS
<1> USE DEF Init, Thread, Empty
<1>1. Empty \in [Key -> Thread \cup {NoIndex}]
    OBVIOUS
<1>2. seen \in [Conn -> Snapshot]
    BY <1>1, Zenon DEF Snapshot
<1>3. pc \in [Thread -> ConnStates \cup WarmerStates]
    BY DEF ConnStates, WarmerStates
<1>4. pc[Warmer] \in WarmerStates /\ \A c \in Conn : pc[c] \in ConnStates
    BY DEF ConnStates, WarmerStates
<1>5. got \in [Thread -> Thread \cup {NoIndex}]
          /\ answer \in [Conn -> Replies \cup {"none"}]
    OBVIOUS
<1>6. QED  BY <1>1, <1>2, <1>3, <1>4, <1>5 DEF TypeOK

LEMMA TypeStep == TypeOK /\ [Next]_vars => TypeOK'
<1> SUFFICES ASSUME TypeOK, [Next]_vars PROVE TypeOK'
    OBVIOUS
<1> USE DEF TypeOK, Thread, warm, Goto, ConnStates, WarmerStates
<1>1. CASE WarmUp
    <2>1. CASE Discover \/ DiscoverFails \/ CatalogFails \/ DetectFails
        BY <2>1 DEF Discover, DiscoverFails, CatalogFails, DetectFails
    <2>2. CASE BuildCatalog
        BY <2>2 DEF BuildCatalog, Empty
    <2>3. CASE \E k \in Key : Detect(k)
        BY <2>3 DEF Detect
    <2>4. CASE IndexFor(Warmer)
        BY <2>4 DEF IndexFor, LookUp, BuildIndex, BuildIndexFails, Store,
                    HasIndex, HasNone
    <2>5. QED  BY <1>1, <2>1, <2>2, <2>3, <2>4 DEF WarmUp
<1>2. ASSUME NEW c \in Conn, Accept(c)  PROVE TypeOK'
    BY <1>2 DEF Accept, Snapshot
<1>3. ASSUME NEW c \in Conn, Serve(c)  PROVE TypeOK'
    <2>1. CASE NothingToRead(c)
        BY <2>1 DEF NothingToRead
    <2>2. CASE \E k \in Key : Suggest(c, k)
        BY <2>2 DEF Suggest
    <2>3. CASE IndexFor(c)
        BY <2>3 DEF IndexFor, LookUp, BuildIndex, BuildIndexFails, Store,
                    HasIndex, HasNone
    <2>4. CASE AnswerAtOnce(c) \/ ReadInventory(c)
        BY <2>4 DEF AnswerAtOnce, ReadInventory, Answer, Replies
    <2>5. CASE Search(c) \/ CompleteNames(c) \/ HandlerRaises(c)
        BY <2>5 DEF Search, CompleteNames, HandlerRaises, Answer, Replies
    <2>6. CASE Send(c)
        BY <2>6 DEF Send
    <2>7. QED  BY <1>3, <2>1, <2>2, <2>3, <2>4, <2>5, <2>6 DEF Serve
<1>4. CASE UNCHANGED vars
    BY <1>4 DEF vars
<1>5. QED  BY <1>1, <1>2, <1>3, <1>4 DEF Next

\* Every variable keeps its type, whatever fails and in whatever order the
\* warm-up and the connection threads run.
THEOREM TypeCorrect == Spec => []TypeOK
BY TypeInit, TypeStep, PTL DEF Spec

-----------------------------------------------------------------------------
\* What a thread's step leaves of the others.
LEMMA WarmUpFrame ==
    ASSUME TypeOK, WarmUp
    PROVE  /\ \A c \in Conn : pc'[c] = pc[c] /\ key'[c] = key[c] /\ got'[c] = got[c]
           /\ answer' = answer /\ seen' = seen
<1> USE DEF TypeOK, Thread, warm, Goto
<1>1. CASE Discover \/ DiscoverFails \/ CatalogFails \/ DetectFails \/ BuildCatalog
    BY <1>1 DEF Discover, DiscoverFails, CatalogFails, DetectFails, BuildCatalog
<1>2. CASE \E k \in Key : Detect(k)
    BY <1>2 DEF Detect
<1>3. CASE IndexFor(Warmer)
    BY <1>3 DEF IndexFor, LookUp, BuildIndex, BuildIndexFails, Store, HasIndex, HasNone
<1>4. QED  BY <1>1, <1>2, <1>3 DEF WarmUp

LEMMA ConnFrame ==
    ASSUME TypeOK, NEW c \in Conn, Accept(c) \/ Serve(c)
    PROVE  /\ \A t \in Thread \ {c} :
                  pc'[t] = pc[t] /\ key'[t] = key[t] /\ got'[t] = got[t]
           /\ \A d \in Conn \ {c} : answer'[d] = answer[d] /\ seen'[d] = seen[d]
           /\ inventory' = inventory /\ catalog' = catalog
           /\ ~Accept(c) => seen' = seen
<1> USE DEF TypeOK, Thread, warm, Goto
<1>1. CASE Accept(c)
    BY <1>1 DEF Accept
<1>2. CASE NothingToRead(c) \/ Send(c) \/ \E k \in Key : Suggest(c, k)
    BY <1>2 DEF NothingToRead, Send, Suggest
<1>3. CASE IndexFor(c)
    BY <1>3 DEF IndexFor, LookUp, BuildIndex, BuildIndexFails, Store, HasIndex, HasNone
<1>4. CASE AnswerAtOnce(c) \/ ReadInventory(c)
    BY <1>4 DEF AnswerAtOnce, ReadInventory, Answer
<1>5. CASE Search(c) \/ CompleteNames(c) \/ HandlerRaises(c)
    BY <1>5 DEF Search, CompleteNames, HandlerRaises, Answer
<1>6. QED  BY <1>1, <1>2, <1>3, <1>4, <1>5 DEF Serve

\* A connection's step that does not go through index_for leaves the index
\* table and what was returned alone, and neither builds nor starts to.
LEMMA OutsideIndexFor ==
    ASSUME TypeOK, NEW c \in Conn, Accept(c) \/ Serve(c), ~IndexFor(c)
    PROVE  /\ indexes' = indexes
           /\ got' = got
           /\ pc'[c] \notin {"idle", "building", "storing", "naming"}
           /\ pc'[c] = "reading" => pc[c] = "idle"
           /\ key' # key => pc[c] = "reading"
<1> USE DEF TypeOK, Thread, warm, Goto
<1>1. CASE Accept(c)
    BY <1>1 DEF Accept
<1>2. CASE NothingToRead(c) \/ Send(c) \/ \E k \in Key : Suggest(c, k)
    BY <1>2 DEF NothingToRead, Send, Suggest
<1>3. CASE AnswerAtOnce(c) \/ ReadInventory(c)
    BY <1>3 DEF AnswerAtOnce, ReadInventory, Answer
<1>4. CASE Search(c) \/ CompleteNames(c) \/ HandlerRaises(c)
    BY <1>4 DEF Search, CompleteNames, HandlerRaises, Answer
<1>5. QED  BY <1>1, <1>2, <1>3, <1>4 DEF Serve

\* index_for, whoever runs it: once a catalog is there only a free entry is
\* filled, and a thread is given what is stored when it leaves.
LEMMA IndexForStep ==
    ASSUME TypeOK, NoCatalogYet, GotIsStored, NEW t \in Thread, IndexFor(t)
    PROVE  /\ pc[t] \in {"lookup", "building", "storing"}
           /\ inventory' = inventory /\ catalog' = catalog
           /\ key' = key /\ answer' = answer /\ seen' = seen
           /\ pc'[t] \notin {"idle", "reading", "discover", "catalog", "detect"}
           /\ pc'[t] \in {"building", "storing"} => catalog
           /\ pc'[t] \in {"building", "storing", "naming"} /\ pc[t] = "lookup"
                  => indexes[key[t]] = NoIndex
           /\ pc'[t] \in {"building", "storing", "naming"}
                  => pc[t] \in {"lookup", "building"}
           /\ \A k \in Key : indexes[k] # NoIndex => indexes'[k] = indexes[k]
           /\ indexes' # indexes => catalog
           /\ got'[t] # NoIndex => indexes'[key[t]] = got'[t]
           /\ \A s \in Thread \ {t} : got'[s] = got[s] /\ pc'[s] = pc[s]
<1> USE DEF TypeOK, Thread, warm, Goto, HasIndex, HasNone
<1>1. CASE LookUp(t)
    BY <1>1 DEF LookUp
<1>2. CASE BuildIndex(t) \/ BuildIndexFails(t)
    BY <1>2 DEF BuildIndex, BuildIndexFails, NoCatalogYet, GotIsStored
<1>3. CASE Store(t)
    BY <1>3 DEF Store, NoCatalogYet
<1>4. QED  BY <1>1, <1>2, <1>3 DEF IndexFor

\* An entry is never replaced or removed: the clear() of the warm-up comes
\* before the first one.
LEMMA EntriesStay ==
    ASSUME Inv, [Next]_vars
    PROVE  \A k \in Key : indexes[k] # NoIndex => indexes'[k] = indexes[k]
<1> USE DEF Inv
<1>1. CASE WarmUp /\ ~IndexFor(Warmer)
    <2>1. CASE BuildCatalog
        BY <2>1 DEF BuildCatalog, NoCatalogYet
    <2>2. CASE ~BuildCatalog
        BY <1>1, <2>2 DEF WarmUp, Discover, DiscoverFails, CatalogFails, Detect,
                          DetectFails, warm
    <2>3. QED  BY <2>1, <2>2
<1>2. CASE IndexFor(Warmer)
    BY <1>2, IndexForStep DEF Thread
<1>3. ASSUME NEW c \in Conn, Accept(c) \/ Serve(c)
      PROVE  \A k \in Key : indexes[k] # NoIndex => indexes'[k] = indexes[k]
    <2>1. CASE IndexFor(c)
        BY <2>1, IndexForStep DEF Thread
    <2>2. CASE ~IndexFor(c)
        BY <1>3, <2>2, OutsideIndexFor
    <2>3. QED  BY <2>1, <2>2
<1>4. CASE UNCHANGED vars
    BY <1>4 DEF vars
<1>5. QED  BY <1>1, <1>2, <1>3, <1>4 DEF Next

-----------------------------------------------------------------------------
\* Nothing is built or stored before the catalog is published.
LEMMA NoCatalogStep == Inv /\ [Next]_vars => NoCatalogYet'
<1> SUFFICES ASSUME Inv, [Next]_vars PROVE NoCatalogYet'
    OBVIOUS
<1> USE DEF Inv, NoCatalogYet
<1>1. CASE WarmUp /\ ~IndexFor(Warmer)
    <2> USE DEF TypeOK, Thread, warm, Goto
    <2>1. CASE Discover \/ DiscoverFails \/ CatalogFails \/ DetectFails
        BY <2>1 DEF Discover, DiscoverFails, CatalogFails, DetectFails
    <2>2. CASE BuildCatalog
        BY <2>2 DEF BuildCatalog
    <2>3. CASE \E k \in Key : Detect(k)
        BY <2>3 DEF Detect
    <2>4. QED  BY <1>1, <2>1, <2>2, <2>3 DEF WarmUp
<1>2. ASSUME NEW t \in Thread, IndexFor(t)  PROVE NoCatalogYet'
    <2>1. pc' \in [Thread -> ConnStates \cup WarmerStates]
        BY TypeStep DEF TypeOK
    <2>2. Warmer \in Thread
        BY DEF Thread
    <2>3. pc'[Warmer] \in {"discover", "catalog"} => ~catalog'
        BY <1>2, <2>2, IndexForStep
    <2>4. ~catalog' => \A k \in Key : indexes'[k] = NoIndex
        BY <1>2, IndexForStep
    <2>5. ASSUME NEW s \in Thread, pc'[s] \in {"building", "storing"}  PROVE catalog'
        BY <1>2, <2>5, IndexForStep
    <2>6. QED  BY <2>3, <2>4, <2>5
<1>3. ASSUME NEW c \in Conn, Accept(c) \/ Serve(c), ~IndexFor(c)  PROVE NoCatalogYet'
    <2>1. /\ indexes' = indexes /\ catalog' = catalog
          /\ pc'[c] \notin {"building", "storing"}
          /\ \A t \in Thread \ {c} : pc'[t] = pc[t]
        BY <1>3, OutsideIndexFor, ConnFrame
    <2>2. Warmer \in Thread \ {c}
        BY DEF Thread
    <2>3. QED  BY <2>1, <2>2
<1>4. CASE UNCHANGED vars
    BY <1>4 DEF vars
<1>5. QED  BY <1>1, <1>2, <1>3, <1>4 DEF Next, Thread

\* What index_for returned to a thread stays stored for its target.
LEMMA GotStep == Inv /\ [Next]_vars => GotIsStored'
<1> SUFFICES ASSUME Inv, [Next]_vars PROVE GotIsStored'
    OBVIOUS
<1> USE DEF Inv
<1>0. \A k \in Key : indexes[k] # NoIndex => indexes'[k] = indexes[k]
    BY EntriesStay
<1>1. CASE WarmUp /\ ~IndexFor(Warmer)
    <2> USE DEF TypeOK, Thread, warm, Goto, GotIsStored
    <2>1. CASE Discover \/ DiscoverFails \/ CatalogFails \/ DetectFails
        BY <2>1 DEF Discover, DiscoverFails, CatalogFails, DetectFails
    <2>2. CASE BuildCatalog
        BY <1>0, <2>2 DEF BuildCatalog
    <2>3. CASE \E k \in Key : Detect(k)
        BY <2>3 DEF Detect
    <2>4. QED  BY <1>1, <2>1, <2>2, <2>3 DEF WarmUp
<1>2. ASSUME NEW t \in Thread, IndexFor(t)  PROVE GotIsStored'
    <2>1. /\ key' = key
          /\ pc'[t] \notin {"idle", "reading", "discover", "catalog", "detect"}
          /\ got'[t] # NoIndex => indexes'[key[t]] = got'[t]
          /\ \A s \in Thread \ {t} : got'[s] = got[s] /\ pc'[s] = pc[s]
        BY <1>2, IndexForStep
    <2>2. \A s \in Thread : key[s] \in Key
        BY DEF TypeOK
    <2>3. ASSUME NEW s \in Thread, got'[s] # NoIndex
          PROVE  indexes'[key'[s]] = got'[s]
        BY <1>0, <2>1, <2>2, <2>3 DEF GotIsStored
    <2>4. \A c \in Conn : pc'[c] \in {"idle", "reading"} => got'[c] = NoIndex
        BY <2>1 DEF GotIsStored, Thread
    <2>5. pc'[Warmer] \in {"discover", "catalog", "detect"} => got'[Warmer] = NoIndex
        BY <2>1 DEF GotIsStored, Thread
    <2>6. QED  BY <2>3, <2>4, <2>5 DEF GotIsStored
<1>3. ASSUME NEW c \in Conn, Accept(c) \/ Serve(c), ~IndexFor(c)  PROVE GotIsStored'
    <2>1. /\ indexes' = indexes /\ got' = got
          /\ pc'[c] # "idle"
          /\ pc'[c] = "reading" => pc[c] = "idle"
          /\ key' # key => pc[c] = "reading"
          /\ \A t \in Thread \ {c} : pc'[t] = pc[t] /\ key'[t] = key[t]
        BY <1>3, OutsideIndexFor, ConnFrame
    <2>2. Warmer \in Thread \ {c} /\ c \in Thread
        BY DEF Thread
    <2>3. QED  BY <2>1, <2>2 DEF GotIsStored, Thread
<1>4. CASE UNCHANGED vars
    BY <1>4 DEF vars, GotIsStored
<1>5. QED  BY <1>1, <1>2, <1>3, <1>4 DEF Next, Thread

\* The warm state a request saw is never taken back.
LEMMA SeenStep == Inv /\ [Next]_vars => SeenIsStored'
<1> SUFFICES ASSUME Inv, [Next]_vars PROVE SeenIsStored'
    OBVIOUS
<1> USE DEF Inv
<1>0. \A k \in Key : indexes[k] # NoIndex => indexes'[k] = indexes[k]
    BY EntriesStay
<1>1. ASSUME seen' = seen, inventory => inventory'  PROVE SeenIsStored'
    BY <1>0, <1>1 DEF SeenIsStored
<1>2. CASE WarmUp
    <2>1. inventory => inventory'
        <3>1. CASE IndexFor(Warmer)
            BY <3>1, IndexForStep DEF Thread
        <3>2. CASE ~IndexFor(Warmer)
            BY <1>2, <3>2 DEF WarmUp, Discover, DiscoverFails, BuildCatalog,
                              CatalogFails, Detect, DetectFails, warm
        <3>3. QED  BY <3>1, <3>2
    <2>2. QED  BY <1>1, <1>2, <2>1, WarmUpFrame
<1>3. ASSUME NEW c \in Conn, Accept(c)  PROVE SeenIsStored'
    BY <1>3 DEF Accept, warm, SeenIsStored, TypeOK
<1>4. ASSUME NEW c \in Conn, Serve(c), ~Accept(c)  PROVE SeenIsStored'
    BY <1>1, <1>4, ConnFrame
<1>5. CASE UNCHANGED vars
    BY <1>1, <1>5 DEF vars
<1>6. QED  BY <1>2, <1>3, <1>4, <1>5 DEF Next

\* A request that saw an index for its target finds it.
LEMMA BuiltOnceStep == Inv /\ [Next]_vars => BuiltOnce'
<1> SUFFICES ASSUME Inv, [Next]_vars PROVE BuiltOnce'
    OBVIOUS
<1> USE DEF Inv
<1>1. CASE WarmUp
    BY <1>1, WarmUpFrame DEF BuiltOnce
<1>2. ASSUME NEW c \in Conn, IndexFor(c)  PROVE BuiltOnce'
    <2>1. /\ key' = key /\ seen' = seen
          /\ pc'[c] \in {"building", "storing", "naming"}
                 => \/ pc[c] = "building"
                    \/ indexes[key[c]] = NoIndex
          /\ \A t \in Thread \ {c} : pc'[t] = pc[t]
        BY <1>2, IndexForStep DEF Thread
    <2>2. key[c] \in Key
        BY DEF TypeOK, Thread
    <2>3. pc'[c] \in {"building", "storing", "naming"}
              => seen[c].indexes[key[c]] = NoIndex
        BY <2>1, <2>2 DEF BuiltOnce, SeenIsStored
    <2>4. ASSUME NEW d \in Conn \ {c}  PROVE pc'[d] = pc[d]
        BY <2>1 DEF Thread
    <2>5. QED  BY <2>1, <2>3, <2>4 DEF BuiltOnce
<1>3. ASSUME NEW c \in Conn, Accept(c) \/ Serve(c), ~IndexFor(c)  PROVE BuiltOnce'
    <2>1. pc'[c] \notin {"building", "storing", "naming"}
        BY <1>3, OutsideIndexFor
    <2>2. ASSUME NEW d \in Conn \ {c}
          PROVE  pc'[d] = pc[d] /\ key'[d] = key[d] /\ seen'[d] = seen[d]
        BY <1>3, ConnFrame DEF Thread
    <2>3. QED  BY <2>1, <2>2 DEF BuiltOnce
<1>4. CASE UNCHANGED vars
    BY <1>4 DEF vars, BuiltOnce
<1>5. QED  BY <1>1, <1>2, <1>3, <1>4 DEF Next

\* Only ReadInventory says "unavailable", and only without an inventory.
LEMMA UnavailableStep == Inv /\ [Next]_vars => NeverUnavailableAgain'
<1> SUFFICES ASSUME Inv, [Next]_vars PROVE NeverUnavailableAgain'
    OBVIOUS
<1> USE DEF Inv
<1>1. CASE WarmUp
    BY <1>1, WarmUpFrame DEF NeverUnavailableAgain
<1>2. ASSUME NEW c \in Conn, Accept(c)  PROVE NeverUnavailableAgain'
    <2>1. answer' = answer /\ pc[c] = "idle"
        BY <1>2 DEF Accept
    <2>2. answer[c] # "unavailable"
        BY <2>1 DEF NothingYet
    <2>3. QED  BY <1>2, <2>1, <2>2, ConnFrame DEF NeverUnavailableAgain
<1>3. ASSUME NEW c \in Conn, Serve(c), ~Accept(c)  PROVE NeverUnavailableAgain'
    <2>1. seen' = seen /\ \A d \in Conn \ {c} : answer'[d] = answer[d]
        BY <1>3, ConnFrame
    <2>2. CASE answer'[c] = "unavailable" /\ answer[c] # "unavailable"
        <3>1. CASE ReadInventory(c)
            BY <2>1, <2>2, <3>1 DEF ReadInventory, Answer, TypeOK, SeenIsStored,
                                    NeverUnavailableAgain
        <3>2. CASE IndexFor(c)
            BY <2>2, <3>2, IndexForStep DEF Thread
        <3>3. CASE ~ReadInventory(c) /\ ~IndexFor(c)
            BY <1>3, <2>2, <3>3 DEF Serve, NothingToRead, AnswerAtOnce, Suggest,
                   Search, CompleteNames, HandlerRaises, Send, Answer, TypeOK
        <3>4. QED  BY <3>1, <3>2, <3>3
    <2>3. CASE ~(answer'[c] = "unavailable" /\ answer[c] # "unavailable")
        BY <2>1, <2>3 DEF NeverUnavailableAgain
    <2>4. QED  BY <2>2, <2>3
<1>4. CASE UNCHANGED vars
    BY <1>4 DEF vars, NeverUnavailableAgain
<1>5. QED  BY <1>1, <1>2, <1>3, <1>4 DEF Next

\* A connection that has not been read has no answer.
LEMMA NothingYetStep == Inv /\ [Next]_vars => NothingYet'
<1> SUFFICES ASSUME Inv, [Next]_vars PROVE NothingYet'
    OBVIOUS
<1> USE DEF Inv
<1>1. CASE WarmUp
    BY <1>1, WarmUpFrame DEF NothingYet
<1>2. ASSUME NEW c \in Conn, Accept(c) \/ Serve(c)  PROVE NothingYet'
    <2>1. pc'[c] # "idle"
        BY <1>2, IndexForStep, OutsideIndexFor DEF Thread
    <2>2. ASSUME NEW d \in Conn \ {c}  PROVE pc'[d] = pc[d] /\ answer'[d] = answer[d]
        BY <1>2, ConnFrame DEF Thread
    <2>3. QED  BY <2>1, <2>2 DEF NothingYet
<1>3. CASE UNCHANGED vars
    BY <1>3 DEF vars, NothingYet
<1>4. QED  BY <1>1, <1>2, <1>3 DEF Next

-----------------------------------------------------------------------------
LEMMA InvInit == Init => Inv
<1> SUFFICES ASSUME Init PROVE Inv
    OBVIOUS
<1>1. TypeOK
    BY TypeInit
<1>2. Warmer \in Thread /\ \A c \in Conn : c \in Thread /\ c # Warmer
    BY DEF Thread
<1>3. NoCatalogYet /\ GotIsStored
    BY <1>2 DEF Init, Empty, NoCatalogYet, GotIsStored
<1>4. SeenIsStored /\ NeverUnavailableAgain /\ NothingYet
    BY DEF Init, Empty, SeenIsStored, NeverUnavailableAgain, NothingYet
<1>5. BuiltOnce
    BY <1>2 DEF Init, BuiltOnce
<1>6. QED  BY <1>1, <1>3, <1>4, <1>5 DEF Inv

LEMMA InvStep == Inv /\ [Next]_vars => Inv'
BY TypeStep, NoCatalogStep, GotStep, SeenStep, BuiltOnceStep,
   UnavailableStep, NothingYetStep DEF Inv

LEMMA Invariance == Spec => []Inv
BY InvInit, InvStep, PTL DEF Spec

\* Whoever is given an index for a target is given the same one (setdefault).
THEOREM RacersAgree == Spec => []AgreeOnIndex
<1>1. Inv => AgreeOnIndex
    BY DEF Inv, GotIsStored, AgreeOnIndex
<1>2. QED  BY <1>1, Invariance, PTL

\* A stored index is never replaced or removed (one warm-up per process).
THEOREM EntriesAreForever == Spec => IndexSticks
<1>1. Inv /\ [Next]_vars
          => [\A k \in Key : indexes[k] # NoIndex => indexes'[k] = indexes[k]]_vars
    BY EntriesStay
<1>2. QED  BY <1>1, Invariance, PTL DEF Spec, IndexSticks

\* A target that has its index costs no later request a build (index_for).
THEOREM WarmStaysWarm == Spec => []BuiltOnce
<1>1. Inv => BuiltOnce
    BY DEF Inv
<1>2. QED  BY <1>1, Invariance, PTL

\* Nobody accepted after the inventory is told to wait for it (_build).
THEOREM InventoryStays == Spec => []NeverUnavailableAgain
<1>1. Inv => NeverUnavailableAgain
    BY DEF Inv
<1>2. QED  BY <1>1, Invariance, PTL

=============================================================================
