---- MODULE WebSocketRelay ----
(***************************************************************************)
(* A WebSocket upgrade through the proxy: handleWebSocket, the two         *)
(* goroutines it starts, and the two peers.  A stream is the sequence of   *)
(* the chunks a peer sent, numbered; a peer may leave at any time, and it  *)
(* may stop reading, for good: no write of the relay has a deadline.       *)
(***************************************************************************)
EXTENDS Naturals, Sequences

CONSTANT MaxChunks \* bound on the chunks each peer sends

ASSUME ChunksAssumption == MaxChunks \in Nat

\* Mutant: room for the signal handleWebSocket waits for and no other.
CapacityOne == 1

\* the room of completionSignals
Capacity == 2

Sides == {"client", "backend"}
Other(s) == IF s = "client" THEN "backend" ELSE "client"

VARIABLES
    handler,   \* where handleWebSocket is
    sent,      \* how many chunks each peer sent
    left,      \* the peers that left
    stalled,   \* the peers that no longer read what is written to them
    read,      \* how many chunks of each peer were taken from its connection
    inHand,    \* the chunk each copying goroutine read and did not write yet, or 0
    delivered, \* the chunks of each peer that were passed on
    copier,    \* where the goroutine that copies from each peer is
    signals,   \* the completion signals in the channel
    closed     \* the connections handleWebSocket closed

vars == <<handler, sent, left, stalled, read, inHand, delivered, copier, signals, closed>>
peers == <<sent, left, stalled>>
copierVars == <<read, inHand, delivered, copier>>

TypeOK ==
    /\ handler \in {"dial", "hijack", "forward", "await", "answer", "relay", "close", "done"}
    /\ sent \in [Sides -> 0..MaxChunks]
    /\ left \subseteq Sides
    /\ stalled \subseteq Sides
    /\ read \in [Sides -> 0..MaxChunks]
    /\ inHand \in [Sides -> 0..MaxChunks]
    /\ delivered \in [Sides -> Seq(1..MaxChunks)]
    /\ copier \in [Sides -> {"none", "read", "write", "signal", "finished"}]
    /\ signals \in 0..Capacity
    /\ closed \subseteq Sides

Init ==
    /\ handler = "dial"
    /\ sent = [s \in Sides |-> 0]
    /\ left = {}
    /\ stalled = {}
    /\ read = [s \in Sides |-> 0]
    /\ inHand = [s \in Sides |-> 0]
    /\ delivered = [s \in Sides |-> << >>]
    /\ copier = [s \in Sides |-> "none"]
    /\ signals = 0
    /\ closed = {}

-----------------------------------------------------------------------------
(* The peers *)

\* The client may send at once; the backend has nothing to say before it is asked.
Send(s) ==
    /\ s \notin left
    /\ s = "client" \/ handler \notin {"dial", "hijack", "forward"}
    /\ sent[s] < MaxChunks
    /\ sent' = [sent EXCEPT ![s] = @ + 1]
    /\ UNCHANGED <<handler, left, stalled, copierVars, signals, closed>>

Leave(s) ==
    /\ s \notin left
    /\ left' = left \cup {s}
    /\ UNCHANGED <<handler, sent, stalled, copierVars, signals, closed>>

\* A peer stops reading: its window fills up and writes to it block while it stays.
Stall(s) ==
    /\ s \notin left \cup stalled
    /\ stalled' = stalled \cup {s}
    /\ UNCHANGED <<handler, sent, left, copierVars, signals, closed>>

-----------------------------------------------------------------------------
(* handleWebSocket *)

Goto(next) ==
    /\ handler' = next
    /\ UNCHANGED <<peers, copierVars, signals, closed>>

\* A failed dial is answered with 502, and there is nothing to close; ...
Dial == handler = "dial" /\ (Goto("hijack") \/ Goto("done"))

\* ... a failed hijack with 500, and only the backend's connection is closed; ...
Hijack ==
    \/ handler = "hijack" /\ Goto("forward")
    \/ /\ handler = "hijack"
       /\ handler' = "done"
       /\ closed' = {"backend"}
       /\ UNCHANGED <<peers, copierVars, signals>>

\* ... from there on every failure closes both and says nothing.
Forward ==
    /\ handler = "forward"
    /\ \/ Goto("await")
       \/ "backend" \in left /\ Goto("close")

\* ReadResponse blocks until the backend answers or leaves.
Await ==
    /\ handler = "await"
    /\ \/ Goto("answer")
       \/ "backend" \in left /\ Goto("close")

AnswerFails == handler = "answer" /\ "client" \in left /\ Goto("close")

\* Mutant: the copy starts at the connection, behind what the buffered readers hold.
StartRelayUnbuffered ==
    /\ handler = "answer"
    /\ handler' = "relay"
    /\ copier' = [s \in Sides |-> "read"]
    /\ read' = sent
    /\ UNCHANGED <<peers, inHand, delivered, signals, closed>>

\* Mutant: only the backend is copied from.
StartRelayOneWay ==
    /\ handler = "answer"
    /\ handler' = "relay"
    /\ copier' = [copier EXCEPT !["backend"] = "read"]
    /\ UNCHANGED <<peers, read, inHand, delivered, signals, closed>>

\* Both goroutines start; they read what clientBuffer and backendReader hold first.
StartRelay ==
    /\ handler = "answer"
    /\ handler' = "relay"
    /\ copier' = [s \in Sides |-> "read"]
    /\ UNCHANGED <<peers, read, inHand, delivered, signals, closed>>

\* Mutant: both directions have to end.
EndRelayWithBoth ==
    /\ handler = "relay"
    /\ signals = 2
    /\ handler' = "close"
    /\ signals' = 0
    /\ UNCHANGED <<peers, copierVars, closed>>

\* Mutant: it takes a signal without waiting for one.
EndRelayAtOnce ==
    /\ handler = "relay"
    /\ handler' = "close"
    /\ signals' = signals - 1
    /\ UNCHANGED <<peers, copierVars, closed>>

EndRelay ==
    /\ handler = "relay"
    /\ signals > 0
    /\ handler' = "close"
    /\ signals' = signals - 1
    /\ UNCHANGED <<peers, copierVars, closed>>

\* the deferred Close calls
CloseBoth ==
    /\ handler = "close"
    /\ handler' = "done"
    /\ closed' = Sides
    /\ UNCHANGED <<peers, copierVars, signals>>

-----------------------------------------------------------------------------
(* copyWithBuffer, from side s to the other *)

ReadChunk(s) ==
    /\ copier[s] = "read"
    /\ s \notin closed
    /\ read[s] < sent[s]
    /\ read' = [read EXCEPT ![s] = @ + 1]
    /\ inHand' = [inHand EXCEPT ![s] = read[s] + 1]
    /\ copier' = [copier EXCEPT ![s] = "write"]
    /\ UNCHANGED <<handler, peers, delivered, signals, closed>>

\* conn.Write has no deadline: it returns only when the peer reads, leaves or is closed.
WriteChunk(s) ==
    /\ copier[s] = "write"
    /\ Other(s) \notin left \cup stalled \cup closed
    /\ delivered' = [delivered EXCEPT ![s] = Append(@, inHand[s])]
    /\ inHand' = [inHand EXCEPT ![s] = 0]
    /\ copier' = [copier EXCEPT ![s] = "read"]
    /\ UNCHANGED <<handler, peers, read, signals, closed>>

\* A write to a peer that left may pass unnoticed: the chunk is gone.
LoseChunk(s) ==
    /\ copier[s] = "write"
    /\ Other(s) \in left \ closed
    /\ inHand' = [inHand EXCEPT ![s] = 0]
    /\ copier' = [copier EXCEPT ![s] = "read"]
    /\ UNCHANGED <<handler, peers, read, delivered, signals, closed>>

\* What ends the copy: the end of the stream, a closed connection, a failed write.
Ended(s) ==
    \/ copier[s] = "read" /\ (s \in closed \/ (s \in left /\ read[s] = sent[s]))
    \/ copier[s] = "write" /\ Other(s) \in left \cup closed

FinishCopy(s) ==
    /\ Ended(s)
    /\ copier' = [copier EXCEPT ![s] = "signal"]
    /\ UNCHANGED <<handler, peers, read, inHand, delivered, signals, closed>>

\* The send blocks while the channel is full.
Signal(s) ==
    /\ copier[s] = "signal"
    /\ signals < Capacity
    /\ copier' = [copier EXCEPT ![s] = "finished"]
    /\ signals' = signals + 1
    /\ UNCHANGED <<handler, peers, read, inHand, delivered, closed>>

-----------------------------------------------------------------------------
Copy(s) == ReadChunk(s) \/ WriteChunk(s) \/ LoseChunk(s) \/ FinishCopy(s) \/ Signal(s)
Begin   == Dial \/ Hijack \/ Forward \/ Await \/ AnswerFails \/ StartRelay
Finish  == EndRelay \/ CloseBoth

Next == Begin \/ Finish \/ \E s \in Sides : Send(s) \/ Leave(s) \/ Stall(s) \/ Copy(s)

\* Goroutines that can go on do so.  Nothing makes a peer answer, read, send or leave, and
\* nothing is assumed of the calls before the relay, which wait for the peers too.
Fairness == WF_vars(Finish) /\ \A s \in Sides : WF_vars(Copy(s))

Spec == Init /\ [][Next]_vars
FairSpec == Spec /\ Fairness

-----------------------------------------------------------------------------
(* Properties *)

\* What arrives at a peer is what the other sent, from the first chunk and in its order,
\* those included that came before the relay began.
NothingSkipped ==
    \A s \in Sides : \A i \in 1..Len(delivered[s]) : delivered[s][i] = i

\* A goroutine that is done copying never waits for room for its completion signal: the one
\* that ends second, when nobody receives any more, is not left behind.
RoomToSignal == \A s \in Sides : copier[s] = "signal" => signals < Capacity

\* The copier that read from s waits for the other peer to read.
Blocked(s) == copier[s] = "write" /\ Other(s) \in stalled \ (left \cup closed)

\* A peer that leaves ends the relay: the other's connection is closed and both goroutines
\* end, the one blocked on a peer that stays silent included.  The one exception is a relay
\* that holds a chunk of the peer that left, for a peer that neither reads nor leaves:
\* it stays open for ever.
NoHalfOpen ==
    \/ (handler = "relay" /\ left # {}) ~>
            (handler = "done" /\ closed = Sides /\ \A s \in Sides : copier[s] = "finished")
    \/ <>[](handler = "relay" /\ \E s \in left : Blocked(s))

\* While both peers stay and the receiver reads, every chunk sent arrives.
EveryChunkArrives ==
    \A s \in Sides, k \in 1..MaxChunks :
        (handler = "relay" /\ sent[s] >= k) ~>
            (Len(delivered[s]) >= k \/ left # {} \/ Other(s) \in stalled)
====
