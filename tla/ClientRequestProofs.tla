------------------------- MODULE ClientRequestProofs -------------------------
(***************************************************************************)
(* The safety of one request for every timeout, every length of a line and *)
(* any number of changes of the daemon.                                    *)
(***************************************************************************)
EXTENDS ClientRequest, TLAPS

\* When a blocking call may end: connect() at the deadline, since it is the
\* first of its attempt; the calls after it one whole budget later.
CallsEnd ==
    /\ now <= 2 * Timeout
    /\ budget <= Timeout
    /\ pc = "connect" => now <= until /\ until = Timeout
    /\ pc \in {"send", "recv"} => until <= 2 * Timeout
    /\ pc = "sleep" => until <= 2 * Timeout

\* Each attempt that is over has failed once, and a result ends the call.
MissesCounted ==
    /\ result = "pending" <=> pc # "done"
    /\ pc \notin {"sleep", "done"} => misses = attempt
    /\ pc = "sleep" => misses = 1 /\ attempt = 0

\* A connection is made once for each attempt, and a handler runs once for
\* each connection.
Handled(a) == conn[a] \notin {"none", "sent"}

ConnectionsCounted ==
    /\ attempt = 0 => conn[1] = "none"
    /\ pc \in {"start", "check", "connect", "send"} => conn[attempt] = "none"
    /\ taken = 2 => Handled(0) /\ Handled(1)
    /\ taken = 1 => Handled(0) \/ Handled(1)
    /\ \A a \in Attempts : conn[a] \in {"taken"} \cup ReplyKinds => taken > 0
    /\ heard > 0 => taken > 0

Inv == TypeOK /\ CallsEnd /\ MissesCounted /\ ConnectionsCounted /\ OneMissIsHidden

-----------------------------------------------------------------------------
USE TimeoutAssumption, BoundAssumption

\* The call as it begins (request, before its first statement).
LEMMA InvInit == Init => Inv
BY DEF Init, Inv, TypeOK, CallsEnd, MissesCounted, ConnectionsCounted,
       OneMissIsHidden, Attempts, Blocked, ReplyKinds, Handled, Deadline

\* What a call that only waits, returns or misses leaves of the counts.
LEMMA ConnectionsKept ==
    ASSUME Inv, UNCHANGED <<conn, taken>>, heard' \in {0, heard},
           attempt' = attempt \/ (attempt = 0 /\ pc = "sleep"),
           pc' \in {"start", "check", "connect", "send"}
               => pc \in {"start", "check", "connect", "sleep"} /\ (pc = "sleep" => attempt' = 1)
    PROVE  ConnectionsCounted'
BY DEF Inv, TypeOK, MissesCounted, ConnectionsCounted, Handled, Attempts, ReplyKinds

\* A call that misses: the first pauses, the second is None.
LEMMA MissKeepsInv ==
    ASSUME Inv, Miss, pc \in {"connect", "send", "recv", "read"},
           UNCHANGED <<now, up, flips, conn, taken>>
    PROVE  Inv'
<1> USE DEF Inv, Miss, Deadline
<1>1. TypeOK'
    BY DEF TypeOK, MissesCounted, Attempts, Blocked, ReplyKinds
<1>2. CallsEnd'
    BY DEF TypeOK, CallsEnd
<1>3. MissesCounted'
    BY DEF TypeOK, MissesCounted, Attempts
<1>4. ConnectionsCounted'
    BY ConnectionsKept DEF TypeOK
<1>5. OneMissIsHidden'
    BY DEF TypeOK, MissesCounted, OneMissIsHidden, Attempts
<1>6. QED  BY <1>1, <1>2, <1>3, <1>4, <1>5

\* A call that settles: with None only past the deadline or on a reply that
\* could not be read.
LEMMA ReturnKeepsInv ==
    ASSUME Inv, NEW r \in {"answer", "none", "raised"}, Return(r),
           pc \in {"start", "check", "read", "recv"},
           r = "none" => now >= Deadline \/ conn[attempt] \in {"garbled", "closed"},
           UNCHANGED <<now, up, flips, conn, taken>>
    PROVE  Inv'
<1> USE DEF Inv, Return
<1>1. TypeOK'
    BY DEF TypeOK, Attempts, Blocked, ReplyKinds
<1>2. CallsEnd' /\ MissesCounted'
    BY DEF TypeOK, CallsEnd, MissesCounted
<1>3. ConnectionsCounted'
    BY ConnectionsKept
<1>4. OneMissIsHidden'
    BY DEF TypeOK, MissesCounted, OneMissIsHidden, Deadline
<1>5. QED  BY <1>1, <1>2, <1>3, <1>4

\* A call that begins: it ends within twice the timeout, as it begins before
\* the deadline.
LEMMA BlockKeepsInv ==
    ASSUME Inv, NEW call \in {"send", "recv"}, Block(call), now <= Timeout,
           call = "send" => pc = "connect", call = "recv" => pc = "read",
           UNCHANGED <<now, up, flips, conn, taken>>
    PROVE  Inv'
<1> USE DEF Inv, Block
<1>1. TypeOK'
    BY DEF TypeOK, Attempts, Blocked, ReplyKinds
<1>2. CallsEnd'
    BY DEF TypeOK, CallsEnd
<1>3. MissesCounted' /\ OneMissIsHidden'
    BY DEF TypeOK, MissesCounted, OneMissIsHidden
<1>4. ConnectionsCounted'
    BY ConnectionsKept
<1>5. QED  BY <1>1, <1>2, <1>3, <1>4

\* What a reply decodes to, and what is left when no more of it comes: a miss,
\* or the end of a call that a handler has run for.
LEMMA Decoded == \A r \in ReplyKinds : /\ Outcome[r] \in {"answer", "none", "raised"}
                                       /\ Outcome[r] = "none" <=> r = "garbled"
BY DEF Outcome, ReplyKinds

LEMMA LineEnds ==
    ASSUME Inv, EndOfLine
    PROVE  \/ Miss
           \/ \E r \in {"answer", "none", "raised"} : Return(r) /\ taken > 0
<1>1. heard \in Nat /\ (heard > 0 => taken > 0)
    BY DEF Inv, TypeOK, ConnectionsCounted
<1>2. CASE heard = 0
    BY <1>2 DEF EndOfLine
<1>3. CASE heard # 0
    <2>1. Return("none") \/ \E r \in Replies : Return(Outcome[r])
        BY <1>3 DEF EndOfLine
    <2>2. QED  BY <1>1, <1>3, <2>1, Decoded
<1>4. QED  BY <1>2, <1>3

\* The client's own steps.
LEMMA ClientKeepsInv == Inv /\ (Client \/ SocketFails) => Inv'
<1> SUFFICES ASSUME Inv, Client \/ SocketFails PROVE Inv'
    OBVIOUS
<1>t. TypeOK /\ CallsEnd /\ MissesCounted /\ ConnectionsCounted /\ OneMissIsHidden
    BY DEF Inv
<1>1. CASE Encode
    <2>1. CASE Return("raised")
        BY <1>1, <2>1, ReturnKeepsInv DEF Encode
    <2>2. CASE pc' = "check" /\ UNCHANGED <<attempt, budget, until, heard, result, misses>>
        BY <1>t, <1>1, <2>2, ConnectionsKept
            DEF Encode, Inv, TypeOK, CallsEnd, MissesCounted, OneMissIsHidden
    <2>3. QED  BY <1>1, <2>1, <2>2 DEF Encode
<1>2. CASE BeginAttempt
    <2>1. CASE now < Deadline
        BY <1>t, <1>2, <2>1, ConnectionsKept
            DEF BeginAttempt, Deadline, Inv, TypeOK, Blocked, CallsEnd, MissesCounted,
                OneMissIsHidden
    <2>2. CASE ~(now < Deadline)
        BY <1>t, <1>2, <2>2, ReturnKeepsInv DEF BeginAttempt, Deadline, TypeOK
    <2>3. QED  BY <2>1, <2>2
<1>3. CASE Connect
    BY <1>t, <1>3, BlockKeepsInv DEF Connect, CallsEnd, TypeOK
<1>4. CASE Send
    <2>1. conn' = [conn EXCEPT ![attempt] = IF up THEN "sent" ELSE "closed"]
              /\ conn[attempt] = "none" /\ attempt \in Attempts /\ UNCHANGED taken
        BY <1>t, <1>4 DEF Send, ConnectionsCounted, TypeOK
    <2>2. TypeOK' /\ CallsEnd' /\ MissesCounted' /\ OneMissIsHidden'
        BY <1>t, <1>4, <2>1 DEF Send, TypeOK, CallsEnd, MissesCounted, OneMissIsHidden
    <2>3. ConnectionsCounted'
        BY <1>t, <1>4, <2>1
            DEF Send, TypeOK, ConnectionsCounted, Handled, Attempts, ReplyKinds
    <2>4. QED  BY <2>2, <2>3 DEF Inv
<1>5. CASE SocketFails \/ TimesOut
    BY <1>5, MissKeepsInv DEF SocketFails, TimesOut
<1>6. CASE ReadOn
    <2>1. CASE now < Deadline
        BY <1>t, <1>6, <2>1, BlockKeepsInv DEF ReadOn, Deadline, TypeOK
    <2>2. CASE now >= Deadline
        <3>1. EndOfLine /\ pc = "read" /\ UNCHANGED <<now, up, flips, conn, taken>>
            BY <1>t, <1>6, <2>2 DEF ReadOn, Deadline, TypeOK
        <3>2. CASE Miss
            BY <3>1, <3>2, MissKeepsInv
        <3>3. ASSUME NEW r \in {"answer", "none", "raised"}, Return(r) PROVE Inv'
            BY <2>2, <3>1, <3>3, ReturnKeepsInv
        <3>4. QED  BY <3>1, <3>2, <3>3, LineEnds
    <2>3. QED  BY <1>t, <2>1, <2>2 DEF Deadline, TypeOK
<1>7. CASE Chunk
    <2>1. CASE heard >= MaxChunks
        BY <1>7, <2>1, MissKeepsInv DEF Chunk
    <2>2. CASE ~(heard >= MaxChunks)
        <3>1. /\ pc = "recv" /\ pc' = "read" /\ heard' = heard + 1 /\ taken > 0
              /\ UNCHANGED <<attempt, budget, until, result, misses>>
              /\ UNCHANGED <<now, up, flips, conn, taken>>
            BY <1>t, <1>7, <2>2 DEF Chunk, TypeOK, ConnectionsCounted
        <3>2. ConnectionsCounted'
            BY <1>t, <3>1 DEF TypeOK, ConnectionsCounted, Handled
        <3>3. TypeOK' /\ CallsEnd' /\ MissesCounted' /\ OneMissIsHidden'
            BY <1>t, <3>1
                DEF TypeOK, Blocked, CallsEnd, MissesCounted, OneMissIsHidden
        <3>4. QED  BY <3>2, <3>3 DEF Inv
    <2>3. QED  BY <2>1, <2>2
<1>8. CASE Decode
    <2>1. PICK r \in ReplyKinds : conn[attempt] = r /\ Return(Outcome[r])
        BY <1>8 DEF Decode
    <2>2. Outcome[r] = "none" => conn[attempt] = "garbled"
        BY <2>1, Decoded
    <2>3. QED  BY <1>8, <2>1, <2>2, Decoded, ReturnKeepsInv DEF Decode
<1>9. CASE EndOfFile
    <2>1. /\ EndOfLine /\ pc = "recv" /\ conn[attempt] = "closed"
          /\ UNCHANGED <<now, up, flips, conn, taken>>
        BY <1>9 DEF EndOfFile
    <2>2. CASE Miss
        BY <2>1, <2>2, MissKeepsInv
    <2>3. ASSUME NEW r \in {"answer", "none", "raised"}, Return(r) PROVE Inv'
        BY <2>1, <2>3, ReturnKeepsInv
    <2>4. QED  BY <2>1, <2>2, <2>3, LineEnds
<1>10. CASE Wake
    BY <1>t, <1>10, ConnectionsKept
        DEF Wake, Inv, TypeOK, CallsEnd, MissesCounted, OneMissIsHidden, Attempts
<1>11. QED
    BY <1>1, <1>2, <1>3, <1>4, <1>5, <1>6, <1>7, <1>8, <1>9, <1>10 DEF Client

\* The daemon's steps leave the client alone, and a handler runs once for
\* each connection.
LEMMA DaemonKeepsInv ==
    ASSUME Inv, NEW a \in Attempts, Thread(a)
    PROVE  Inv'
<1> USE DEF clientVars
<1>t. TypeOK /\ CallsEnd /\ MissesCounted /\ ConnectionsCounted /\ OneMissIsHidden
    BY DEF Inv
<1>1. CASE Handle(a)
    <2>1. conn' = [conn EXCEPT ![a] = "taken"] /\ conn[a] = "sent" /\ taken' = taken + 1
        BY <1>1 DEF Handle
    <2>2. taken < 2
        BY <1>t, <2>1 DEF TypeOK, ConnectionsCounted, Handled, Attempts
    <2>3. TypeOK'
        BY <1>t, <1>1, <2>1, <2>2 DEF Handle, TypeOK
    <2>4. CallsEnd' /\ MissesCounted' /\ OneMissIsHidden'
        BY <1>t, <1>1, <2>1
            DEF Handle, TypeOK, CallsEnd, MissesCounted, OneMissIsHidden, Attempts
    <2>5. ConnectionsCounted'
        BY <1>t, <1>1, <2>1, <2>2
            DEF Handle, TypeOK, ConnectionsCounted, Handled, Attempts, ReplyKinds
    <2>6. QED  BY <2>3, <2>4, <2>5 DEF Inv
<1>2. CASE Reply(a)
    <2>1. PICK r \in Replies : conn' = [conn EXCEPT ![a] = r]
        BY <1>2 DEF Reply
    <2>2. r \in ReplyKinds /\ conn[a] = "taken" /\ UNCHANGED taken
        BY <1>2 DEF Reply
    <2>3. TypeOK'
        BY <1>t, <1>2, <2>1, <2>2 DEF Reply, TypeOK
    <2>4. CallsEnd' /\ MissesCounted' /\ OneMissIsHidden'
        BY <1>t, <1>2, <2>1, <2>2
            DEF Reply, TypeOK, CallsEnd, MissesCounted, OneMissIsHidden, Attempts
    <2>5. ConnectionsCounted'
        BY <1>t, <1>2, <2>1, <2>2
            DEF Reply, TypeOK, ConnectionsCounted, Handled, Attempts, ReplyKinds
    <2>6. QED  BY <2>3, <2>4, <2>5 DEF Inv
<1>3. CASE Drop(a)
    <2>1. conn' = [conn EXCEPT ![a] = "closed"] /\ conn[a] # "none" /\ UNCHANGED taken
        BY <1>3 DEF Drop, ReplyKinds
    <2>2. TypeOK'
        BY <1>t, <1>3, <2>1 DEF Drop, TypeOK
    <2>3. CallsEnd' /\ MissesCounted' /\ OneMissIsHidden'
        BY <1>t, <1>3, <2>1
            DEF Drop, TypeOK, CallsEnd, MissesCounted, OneMissIsHidden, Attempts
    <2>4. ConnectionsCounted'
        BY <1>t, <1>3, <2>1
            DEF Drop, TypeOK, ConnectionsCounted, Handled, Attempts, ReplyKinds
    <2>5. QED  BY <2>2, <2>3, <2>4 DEF Inv
<1>4. QED  BY <1>1, <1>2, <1>3 DEF Thread

\* Every step keeps the invariant.
LEMMA InvStep == Inv /\ [Next]_vars => Inv'
<1> SUFFICES ASSUME Inv, [Next]_vars PROVE Inv'
    OBVIOUS
<1>t. TypeOK /\ CallsEnd /\ MissesCounted /\ ConnectionsCounted /\ OneMissIsHidden
    BY DEF Inv
<1>1. CASE Flip
    <2>1. TypeOK' /\ CallsEnd' /\ MissesCounted' /\ OneMissIsHidden'
        BY <1>t, <1>1
            DEF Flip, clientVars, TypeOK, CallsEnd, MissesCounted, OneMissIsHidden, Attempts
    <2>2. ConnectionsCounted'
        BY <1>t, <1>1
            DEF Flip, clientVars, TypeOK, ConnectionsCounted, Handled, Attempts, ReplyKinds
    <2>3. QED  BY <2>1, <2>2 DEF Inv
<1>2. CASE Tick
    <2>1. TypeOK' /\ CallsEnd' /\ MissesCounted' /\ OneMissIsHidden'
        BY <1>t, <1>2
            DEF Tick, clientVars, Blocked, TypeOK, CallsEnd, MissesCounted, OneMissIsHidden
    <2>2. ConnectionsCounted'
        BY <1>t, <1>2 DEF Tick, clientVars, ConnectionsCounted, Handled
    <2>3. QED  BY <2>1, <2>2 DEF Inv
<1>3. CASE UNCHANGED vars
    BY <1>t, <1>3 DEF vars, Inv, TypeOK, CallsEnd, MissesCounted, ConnectionsCounted,
                      Handled, OneMissIsHidden
<1>4. QED
    BY <1>1, <1>2, <1>3, ClientKeepsInv, DaemonKeepsInv DEF Next

\* Inv holds of every request.
LEMMA InvHolds == Spec => []Inv
<1>1. Init => Inv
    BY InvInit
<1>2. Inv /\ [Next]_vars => Inv'
    BY InvStep
<1>3. QED  BY <1>1, <1>2, PTL DEF Spec

-----------------------------------------------------------------------------
\* The caller is held for twice its timeout at most (request, _read_line).
THEOREM HeldForTwiceTheTimeout == Spec => []TwiceTheTimeout
<1>1. Inv => TwiceTheTimeout
    BY DEF Inv, CallsEnd, TwiceTheTimeout
<1>2. QED  BY <1>1, InvHolds, PTL

\* None before the deadline means two misses or an unreadable reply.
THEOREM MissesAreHidden == Spec => []OneMissIsHidden
<1>1. Inv => OneMissIsHidden
    BY DEF Inv
<1>2. QED  BY <1>1, InvHolds, PTL

\* The types hold throughout: a handler runs twice at most.
THEOREM TypeCorrect == Spec => []TypeOK
<1>1. Inv => TypeOK
    BY DEF Inv
<1>2. QED  BY <1>1, InvHolds, PTL

\* To its caller a request is what AtomicRequest says, liveness apart: it
\* settles once, an answer means that a handler ran, none runs a third time.
THEOREM ActsAtomically ==
    Spec => Atomic!Init /\ [][Atomic!Next]_<<taken, result>>
<1>1. Init => Atomic!Init
    BY DEF Init, Atomic!Init
<1>2. Inv /\ [Next]_vars => [Atomic!Next]_<<taken, result>>
    <2> SUFFICES ASSUME Inv, [Next]_vars PROVE [Atomic!Next]_<<taken, result>>
        OBVIOUS
    <2> USE DEF Inv, Atomic!Next, Atomic!Act, Atomic!Settle, Atomic!Outcomes
    <2>1. ASSUME Miss, UNCHANGED taken, pc # "done"
          PROVE  [Atomic!Next]_<<taken, result>>
        BY <2>1 DEF Miss, MissesCounted
    <2>2. ASSUME NEW r \in {"answer", "none", "raised"}, Return(r), UNCHANGED taken,
                 pc # "done", r = "answer" => taken > 0
          PROVE  [Atomic!Next]_<<taken, result>>
        BY <2>2 DEF Return, MissesCounted
    <2>3. CASE Encode
        BY <2>2, <2>3 DEF Encode
    <2>4. CASE BeginAttempt
        BY <2>2, <2>4 DEF BeginAttempt
    <2>5. CASE Connect \/ Send \/ Wake
        BY <2>5 DEF Connect, Send, Wake, Block
    <2>6. CASE SocketFails \/ TimesOut
        BY <2>1, <2>6 DEF SocketFails, TimesOut
    <2>7. CASE ReadOn
        BY <2>1, <2>2, <2>7, LineEnds DEF ReadOn, Block
    <2>8. CASE Chunk
        BY <2>1, <2>8 DEF Chunk
    <2>9. CASE Decode
        <3>1. conn[attempt] \in ReplyKinds => taken > 0
            BY DEF ConnectionsCounted, TypeOK
        <3>2. PICK r \in ReplyKinds : conn[attempt] = r /\ Return(Outcome[r])
            BY <2>9 DEF Decode
        <3>3. QED  BY <2>2, <2>9, <3>1, <3>2, Decoded DEF Decode
    <2>10. CASE EndOfFile
        BY <2>1, <2>2, <2>10, LineEnds DEF EndOfFile
    <2>11. ASSUME NEW a \in Attempts, Thread(a)
           PROVE  [Atomic!Next]_<<taken, result>>
        <3>1. conn[a] = "sent" => taken < 2
            BY DEF TypeOK, ConnectionsCounted, Handled, Attempts
        <3>2. QED  BY <2>11, <3>1 DEF Thread, Handle, Reply, Drop, clientVars
    <2>12. CASE Flip \/ Tick \/ UNCHANGED vars
        BY <2>12 DEF Flip, Tick, clientVars, vars
    <2>13. QED
        BY <2>3, <2>4, <2>5, <2>6, <2>7, <2>8, <2>9, <2>10, <2>11, <2>12 DEF Next, Client
<1>3. QED  BY <1>1, <1>2, InvHolds, PTL DEF Spec
=============================================================================
