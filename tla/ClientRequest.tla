---------------------------- MODULE ClientRequest ----------------------------
(***************************************************************************)
(* One call of request() (daemon/transport.py): at most two attempts to    *)
(* connect, send a line and read a line inside one deadline, against a     *)
(* daemon that comes and goes and whose connection threads may drop,       *)
(* delay, cut short or garble a reply.  Time is discrete; the client's own *)
(* statements take none, and a blocked socket call takes at most the       *)
(* timeout that settimeout() fixed when the attempt began.                 *)
(***************************************************************************)
EXTENDS Naturals

CONSTANTS
    Timeout,    \* timeout_s, in ticks of one retry pause (0.01 s)
    MaxChunks,  \* recv()s that a line of MAX_LINE_BYTES takes
    MaxFlips,   \* bound: how often the daemon goes down or comes up
    Replies     \* the lines a daemon may send, a subset of ReplyKinds

\* "good" decodes; "garbled" is a ProtocolError; "misshapen" is a suggestion
\* without a command, on which Suggestion(...) raises TypeError.
ReplyKinds == {"good", "garbled", "misshapen"}

ASSUME TimeoutAssumption == Timeout \in Nat \ {0}
ASSUME BoundAssumption ==
    MaxChunks \in Nat /\ MaxFlips \in Nat /\ Replies \subseteq ReplyKinds

VARIABLES
    now,       \* time since the call
    pc,        \* where the client is
    attempt,   \* 0 or 1
    budget,    \* the socket timeout of this attempt
    until,     \* when the blocking call in progress times out
    heard,     \* chunks received in this attempt
    result,    \* the caller's view: pending, answer, none, raised
    misses,    \* attempts that failed without a reply
    up,        \* a daemon listens at the endpoint
    flips,     \* how often that has changed
    conn,      \* conn[a]: the daemon's side of the connection of attempt a
    taken      \* how many connection threads have run the handler

clientVars == <<pc, attempt, budget, until, heard, result, misses>>
vars == <<now, pc, attempt, budget, until, heard, result, misses,
          up, flips, conn, taken>>

Attempts == {0, 1}
Deadline == Timeout
Blocked == {"connect", "send", "recv", "sleep"}

TypeOK ==
    /\ now \in Nat
    /\ pc \in Blocked \cup {"start", "check", "read", "done"}
    /\ attempt \in Attempts
    /\ budget \in Nat
    /\ until \in Nat
    /\ heard \in Nat
    /\ result \in {"pending", "answer", "none", "raised"}
    /\ misses \in 0..2
    /\ up \in BOOLEAN
    /\ flips \in 0..MaxFlips
    /\ conn \in [Attempts -> {"none", "sent", "taken", "closed"} \cup ReplyKinds]
    /\ taken \in 0..2

Init ==
    /\ now = 0
    /\ pc = "start"
    /\ attempt = 0
    /\ budget = 0
    /\ until = 0
    /\ heard = 0
    /\ result = "pending"
    /\ misses = 0
    /\ up \in BOOLEAN
    /\ flips = 0
    /\ conn = [a \in Attempts |-> "none"]
    /\ taken = 0

-----------------------------------------------------------------------------
(* The client. *)

Return(r) ==
    /\ pc' = "done"
    /\ result' = r
    /\ UNCHANGED <<attempt, budget, until, heard, misses>>

\* Start a blocking socket call: every one has the attempt's whole timeout.
Block(call) ==
    /\ pc' = call
    /\ until' = now + budget
    /\ UNCHANGED <<attempt, budget, heard, result, misses>>

\* Mutant: the retry that is no retry.
GiveUpAtOnce ==
    /\ pc' = "done"
    /\ result' = "none"
    /\ misses' = misses + 1
    /\ UNCHANGED <<attempt, budget, until, heard>>

\* An OSError, or None for want of a line: the first time, pause and retry.
Miss ==
    /\ misses' = misses + 1
    /\ IF attempt = 0
       THEN /\ pc' = "sleep"
            /\ until' = IF now < Deadline THEN now + 1 ELSE now
            /\ UNCHANGED <<attempt, budget, heard, result>>
       ELSE /\ pc' = "done"
            /\ result' = "none"
            /\ UNCHANGED <<attempt, budget, until, heard>>

\* encode() refuses a message over MAX_LINE_BYTES, outside any try.
Encode ==
    /\ pc = "start"
    /\ \/ Return("raised")
       \/ /\ pc' = "check"
          /\ UNCHANGED <<attempt, budget, until, heard, result, misses>>
    /\ UNCHANGED <<now, up, flips, conn, taken>>

BeginAttempt ==
    /\ pc = "check"
    /\ IF now < Deadline
       THEN /\ pc' = "connect"
            /\ budget' = Deadline - now
            /\ until' = Deadline
            /\ heard' = 0
            /\ UNCHANGED <<attempt, result, misses>>
       ELSE Return("none")
    /\ UNCHANGED <<now, up, flips, conn, taken>>

Connect == pc = "connect" /\ up /\ Block("send")
           /\ UNCHANGED <<now, up, flips, conn, taken>>

Send ==
    /\ pc = "send"
    /\ pc' = "read"
    /\ conn' = [conn EXCEPT ![attempt] = IF up THEN "sent" ELSE "closed"]
    /\ UNCHANGED <<now, attempt, budget, until, heard, result, misses>>
    /\ UNCHANGED <<up, flips, taken>>

\* Refused, no socket or port file, a full backlog, a reset.
SocketFails ==
    /\ pc \in {"connect", "send", "recv"}
    /\ Miss
    /\ UNCHANGED <<now, up, flips, conn, taken>>

\* settimeout() bounds every blocking call.
TimesOut ==
    /\ pc \in {"connect", "send", "recv"}
    /\ now = until
    /\ Miss
    /\ UNCHANGED <<now, up, flips, conn, taken>>

\* decode_response, for a whole reply of each kind.
Outcome == [good |-> "answer", garbled |-> "none", misshapen |-> "raised"]

\* What was read so far is all there is: nothing, a piece that is no JSON, or
\* the whole text of a reply without the newline; a connection that closed
\* meanwhile does not say what it was sending.
EndOfLine ==
    IF heard = 0 THEN Miss
    ELSE \/ Return("none")
         \/ \E r \in Replies : conn[attempt] \in {r, "closed"} /\ Return(Outcome[r])

\* Mutant: the deadline is left to the socket's timeout.
ReadWithoutDeadline ==
    /\ pc = "read"
    /\ Block("recv")
    /\ UNCHANGED <<now, up, flips, conn, taken>>

\* _read_line: the deadline is looked at between two recv()s only.
ReadOn ==
    /\ pc = "read"
    /\ IF now < Deadline THEN Block("recv") ELSE EndOfLine
    /\ UNCHANGED <<now, up, flips, conn, taken>>

\* A chunk without a newline; one too many and the reply is given up.
Chunk ==
    /\ pc = "recv"
    /\ conn[attempt] \in ReplyKinds
    /\ IF heard >= MaxChunks
       THEN Miss
       ELSE /\ pc' = "read"
            /\ heard' = heard + 1
            /\ UNCHANGED <<attempt, budget, until, result, misses>>
    /\ UNCHANGED <<now, up, flips, conn, taken>>

\* The line is complete, and decode_response looks at it.
Decode ==
    /\ pc = "recv"
    /\ \E r \in ReplyKinds : conn[attempt] = r /\ Return(Outcome[r])
    /\ UNCHANGED <<now, up, flips, conn, taken>>

EndOfFile ==
    /\ pc = "recv"
    /\ conn[attempt] = "closed"
    /\ EndOfLine
    /\ UNCHANGED <<now, up, flips, conn, taken>>

\* Mutant: the loop does not count its attempts.
WakeOnSameAttempt ==
    /\ pc = "sleep"
    /\ now = until
    /\ pc' = "check"
    /\ UNCHANGED <<now, attempt, budget, until, heard, result, misses>>
    /\ UNCHANGED <<up, flips, conn, taken>>

Wake ==
    /\ pc = "sleep"
    /\ now = until
    /\ pc' = "check"
    /\ attempt' = 1
    /\ UNCHANGED <<now, budget, until, heard, result, misses>>
    /\ UNCHANGED <<up, flips, conn, taken>>

-----------------------------------------------------------------------------
(* The daemon, and time. *)

\* A connection thread reads the line and answers for it, handler or refusal.
Handle(a) ==
    /\ conn[a] = "sent"
    /\ conn' = [conn EXCEPT ![a] = "taken"]
    /\ taken' = taken + 1
    /\ UNCHANGED <<now, up, flips>> /\ UNCHANGED clientVars

Reply(a) ==
    /\ conn[a] = "taken"
    /\ \E r \in Replies : conn' = [conn EXCEPT ![a] = r]
    /\ UNCHANGED <<now, up, flips, taken>> /\ UNCHANGED clientVars

\* Its read or send fails, its reply is too long for encode(), or the daemon
\* dies in the middle of the reply.
Drop(a) ==
    /\ conn[a] \in {"sent", "taken"} \cup ReplyKinds
    /\ conn' = [conn EXCEPT ![a] = "closed"]
    /\ UNCHANGED <<now, up, flips, taken>> /\ UNCHANGED clientVars

\* The daemon exits, taking its connections with it, or one starts.
Flip ==
    /\ flips < MaxFlips
    /\ flips' = flips + 1
    /\ up' = ~up
    /\ conn' = [a \in Attempts |-> IF conn[a] \in {"sent", "taken"}
                                   THEN "closed" ELSE conn[a]]
    /\ UNCHANGED <<now, taken>> /\ UNCHANGED clientVars

\* Time passes only while the client is blocked, and never past a timeout.
Tick ==
    /\ pc \in Blocked
    /\ now < until
    /\ now' = now + 1
    /\ UNCHANGED clientVars /\ UNCHANGED <<up, flips, conn, taken>>

\* What the client does by itself, without waiting for a failure.
Client ==
    Encode \/ BeginAttempt \/ Connect \/ Send \/ TimesOut \/ ReadOn
    \/ Chunk \/ Decode \/ EndOfFile \/ Wake

Thread(a) == Handle(a) \/ Reply(a) \/ Drop(a)

Next == Client \/ SocketFails \/ (\E a \in Attempts : Thread(a)) \/ Flip \/ Tick

\* The client runs, and time passes; nothing is assumed of the daemon.
Fairness == WF_vars(Client) /\ WF_vars(Tick)
Spec == Init /\ [][Next]_vars /\ Fairness

-----------------------------------------------------------------------------
(* Properties. *)

\* The caller is held for at most twice its timeout: the socket timeout is
\* not shortened as the attempt goes on (transport.py:145), so the last call
\* may begin at the deadline and use all of it again.  It is not held longer.
TwiceTheTimeout == now <= 2 * Timeout

\* One attempt that fails by bad timing does not read as "no daemon" while
\* there is time left (transport.py:101); only a reply that cannot be read,
\* or that ends in the middle, ends the request at once.
OneMissIsHidden ==
    result = "none" =>
        \/ misses = 2
        \/ now >= Deadline
        \/ conn[attempt] \in {"garbled", "closed"} /\ misses = attempt

\* A request is to the rest of cl-ai what AtomicRequest says: it settles, an
\* answer means that the daemon acted, and a retry makes that twice at most.
Atomic == INSTANCE AtomicRequest
SettlesOnce == Atomic!Spec
=============================================================================
