---- MODULE WebSocketRelayProofs ----
(***************************************************************************)
(* Theorems about WebSocketRelay for any number of chunks: type            *)
(* correctness, that no direction of the relay skips or reorders, and that *)
(* no copier waits for room for its completion signal.                     *)
(***************************************************************************)
EXTENDS WebSocketRelay, SequenceTheorems, TLAPS

\* A copier has passed on exactly what it took, less the chunk in hand; once
\* the peer it writes to has left it may have lost some, but then it never
\* writes again.
UpToDate(s) ==
    /\ read[s] <= sent[s]
    /\ copier[s] = "none" => read[s] = 0 /\ delivered[s] = << >>
    /\ copier[s] = "read" /\ Other(s) \notin left => Len(delivered[s]) = read[s]
    /\ copier[s] = "write" => read[s] > 0 /\ inHand[s] = read[s]
    /\ copier[s] = "write" /\ Other(s) \notin left => Len(delivered[s]) + 1 = read[s]

InOrder(s) == \A i \in 1..Len(delivered[s]) : delivered[s][i] = i

Stream(s) == UpToDate(s) /\ InOrder(s)

BeforeRelay == {"dial", "hijack", "forward", "await", "answer"}
NotStarted(s) == handler \in BeforeRelay => copier[s] = "none"

\* Each copier that told its end put in one signal, and handleWebSocket may have taken it.
Told(s) == IF copier[s] = "finished" THEN 1 ELSE 0
SignalsTold == signals <= Told("client") + Told("backend")

IInv == TypeOK /\ SignalsTold /\ \A s \in Sides : NotStarted(s) /\ Stream(s)

\* There are two sides.
LEMMA OtherSide == \A s \in Sides : Other(s) \in Sides /\ Other(s) # s
  BY DEF Sides, Other

\* The initial state satisfies the invariant.
LEMMA InitIInv == Init => IInv
<1> SUFFICES ASSUME Init PROVE IInv
  OBVIOUS
<1>1. TypeOK
  BY ChunksAssumption DEF Init, TypeOK, Capacity
<1>2. ASSUME NEW s \in Sides PROVE Stream(s)
  BY ChunksAssumption DEF Init, Stream, UpToDate, InOrder
<1>3. SignalsTold
  BY DEF Init, SignalsTold, Told, Sides
<1> QED
  BY <1>1, <1>2, <1>3 DEF IInv, NotStarted, Init

\* What leaves the copiers alone and puts no signal in keeps the count of signals.
LEMMA SignalsKept ==
  ASSUME IInv, UNCHANGED copier, signals' \in Nat, signals' <= signals
  PROVE  SignalsTold'
  BY DEF IInv, TypeOK, SignalsTold, Told, Capacity

\* Peers only send more, stop reading and leave; none of it loses what was taken.
LEMMA PeersKeep ==
  ASSUME IInv, NEW s \in Sides, Send(s) \/ Leave(s) \/ Stall(s)
  PROVE  IInv'
<1>0. SignalsTold'
  BY SignalsKept DEF Send, Leave, Stall, copierVars, IInv, TypeOK, Capacity
<1> USE ChunksAssumption DEF IInv, TypeOK, copierVars
<1>1. CASE Send(s)
  BY <1>0, <1>1 DEF Send, NotStarted, Stream, UpToDate, InOrder
<1>2. CASE Leave(s)
  BY <1>0, <1>2 DEF Leave, NotStarted, Stream, UpToDate, InOrder
<1>3. CASE Stall(s)
  BY <1>0, <1>3 DEF Stall, NotStarted, Stream, UpToDate, InOrder
<1> QED
  BY <1>1, <1>2, <1>3

\* handleWebSocket touches no stream; it starts the copiers with nothing read.
LEMMA HandlerKeeps ==
  ASSUME IInv, Begin \/ Finish
  PROVE  IInv'
<1> USE ChunksAssumption DEF IInv, TypeOK, copierVars, peers
<1>1. CASE StartRelay
  <2>1. \A s \in Sides : copier[s] = "none"
    BY <1>1 DEF StartRelay, NotStarted, BeforeRelay
  <2>2. TypeOK' /\ \A s \in Sides : NotStarted(s)'
    BY <1>1 DEF StartRelay, NotStarted, BeforeRelay
  <2>3. ASSUME NEW s \in Sides PROVE Stream(s)'
    <3>1. Stream(s) /\ copier[s] = "none" /\ copier'[s] = "read"
      BY <1>1, <2>1 DEF StartRelay
    <3>2. UNCHANGED <<sent, left, read, inHand, delivered>>
      BY <1>1 DEF StartRelay
    <3> QED
      BY <3>1, <3>2 DEF Stream, UpToDate, InOrder
  <2>4. SignalsTold'
    BY <1>1, <2>1 DEF StartRelay, SignalsTold, Told, Sides
  <2> QED
    BY <2>2, <2>3, <2>4
<1>2. CASE Dial \/ Hijack \/ Forward \/ Await \/ AnswerFails \/ EndRelay \/ CloseBoth
  <2> USE DEF Dial, Hijack, Forward, Await, AnswerFails, EndRelay, CloseBoth, Goto
  <2>1. UNCHANGED <<peers, copierVars>>
    BY <1>2
  <2>2. TypeOK'
    <3>1. closed' \subseteq Sides
      BY <1>2 DEF Sides
    <3>2. signals' \in 0..Capacity
      BY <1>2 DEF Capacity
    <3>3. handler' \in BeforeRelay \cup {"relay", "close", "done"}
      BY <1>2 DEF BeforeRelay
    <3> QED
      BY <2>1, <3>1, <3>2, <3>3 DEF BeforeRelay
  <2>3. handler' \in BeforeRelay => handler \in BeforeRelay
    BY <1>2 DEF BeforeRelay
  <2>4. SignalsTold'
    BY <1>2, <2>1, SignalsKept DEF Capacity
  <2> QED
    BY <2>1, <2>2, <2>3, <2>4 DEF NotStarted, Stream, UpToDate, InOrder
<1> QED
  BY <1>1, <1>2 DEF Begin, Finish

-----------------------------------------------------------------------------
(* The copiers: what one does leaves the stream of the other alone. *)

\* A step of one copier leaves the stream of the other as it was.
LEMMA OtherStreamKept ==
  ASSUME IInv, NEW s \in Sides, NEW t \in Sides, t # s,
         UNCHANGED <<handler, sent, left>>,
         read'[t] = read[t], inHand'[t] = inHand[t],
         delivered'[t] = delivered[t], copier'[t] = copier[t]
  PROVE  NotStarted(t)' /\ Stream(t)'
  BY DEF IInv, NotStarted, Stream, UpToDate, InOrder

\* A copier that goes on or stops copying puts no signal in.
LEMMA NoSignalYet ==
  ASSUME IInv, NEW s \in Sides, NEW at,
         UNCHANGED signals, copier[s] # "finished",
         copier' = [copier EXCEPT ![s] = at], at # "finished"
  PROVE  SignalsTold'
  BY DEF IInv, TypeOK, SignalsTold, Told, Sides, Capacity

\* A copier takes the next chunk only when it passed on the last.
LEMMA ReadChunkKeeps ==
  ASSUME IInv, NEW s \in Sides, ReadChunk(s)
  PROVE  IInv'
<1> USE ChunksAssumption DEF ReadChunk, peers
<1>1. TypeOK'
  BY DEF IInv, TypeOK
<1>2. ASSUME NEW t \in Sides, t # s PROVE NotStarted(t)' /\ Stream(t)'
  BY <1>2, OtherStreamKept DEF IInv, TypeOK
<1>3. NotStarted(s)' /\ Stream(s)'
  BY DEF IInv, TypeOK, NotStarted, Stream, UpToDate, InOrder
<1>4. SignalsTold'
  BY NoSignalYet
<1> QED
  BY <1>1, <1>2, <1>3, <1>4 DEF IInv

\* The step that delivers: the chunk in hand is the next one in order.
LEMMA WriteChunkKeeps ==
  ASSUME IInv, NEW s \in Sides, WriteChunk(s)
  PROVE  IInv'
<1> USE ChunksAssumption DEF WriteChunk, peers
<1>1. /\ inHand[s] \in 1..MaxChunks
      /\ inHand[s] = Len(delivered[s]) + 1
      /\ inHand[s] = read[s]
      /\ delivered[s] \in Seq(1..MaxChunks)
  BY DEF IInv, TypeOK, Stream, UpToDate
<1>2. delivered'[s] = Append(delivered[s], inHand[s])
  BY DEF IInv, TypeOK
<1>3. /\ delivered'[s] \in Seq(1..MaxChunks)
      /\ Len(delivered'[s]) = Len(delivered[s]) + 1
  <2> DEFINE longer == Append(delivered[s], inHand[s])
  <2>1. longer \in Seq(1..MaxChunks) /\ Len(longer) = Len(delivered[s]) + 1
    BY <1>1, AppendProperties
  <2> QED
    BY <1>2, <2>1
<1>4. TypeOK'
  <2>1. delivered' \in [Sides -> Seq(1..MaxChunks)]
    BY <1>1, <1>2, <1>3 DEF IInv, TypeOK
  <2> QED
    BY <2>1 DEF IInv, TypeOK
<1>5. ASSUME NEW t \in Sides, t # s PROVE NotStarted(t)' /\ Stream(t)'
  BY <1>5, OtherStreamKept DEF IInv, TypeOK
<1>6. UpToDate(s)' /\ NotStarted(s)'
  BY <1>1, <1>3 DEF IInv, TypeOK, NotStarted, Stream, UpToDate
<1>7. InOrder(s)'
  <2>1. InOrder(s)
    BY DEF IInv, Stream
  <2> QED
    BY <1>1, <1>2, <1>3, <2>1 DEF InOrder
<1>8. SignalsTold'
  BY NoSignalYet
<1> QED
  BY <1>4, <1>5, <1>6, <1>7, <1>8 DEF IInv, Stream

\* A chunk is lost only when its receiver has left.
LEMMA LoseChunkKeeps ==
  ASSUME IInv, NEW s \in Sides, LoseChunk(s)
  PROVE  IInv'
<1> USE ChunksAssumption DEF LoseChunk, peers
<1>1. TypeOK'
  BY DEF IInv, TypeOK
<1>2. ASSUME NEW t \in Sides, t # s PROVE NotStarted(t)' /\ Stream(t)'
  BY <1>2, OtherStreamKept DEF IInv, TypeOK
<1>3. NotStarted(s)' /\ Stream(s)'
  BY DEF IInv, TypeOK, NotStarted, Stream, UpToDate, InOrder
<1>4. SignalsTold'
  BY NoSignalYet
<1> QED
  BY <1>1, <1>2, <1>3, <1>4 DEF IInv

\* The end of a copy touches no stream.
LEMMA FinishCopyKeeps ==
  ASSUME IInv, NEW s \in Sides, FinishCopy(s)
  PROVE  IInv'
<1> USE ChunksAssumption DEF FinishCopy, peers
<1>1. TypeOK'
  BY DEF IInv, TypeOK
<1>2. ASSUME NEW t \in Sides, t # s PROVE NotStarted(t)' /\ Stream(t)'
  BY <1>2, OtherStreamKept DEF IInv, TypeOK
<1>3. NotStarted(s)' /\ Stream(s)'
  BY DEF IInv, TypeOK, NotStarted, Stream, UpToDate, InOrder, Ended
<1>4. SignalsTold'
  BY NoSignalYet DEF Ended
<1> QED
  BY <1>1, <1>2, <1>3, <1>4 DEF IInv

\* A copier that has not told its end yet finds room for it: at most the other has told.
LEMMA Room ==
  ASSUME IInv, NEW s \in Sides, copier[s] # "finished"
  PROVE  signals < Capacity
<1>1. Told(s) = 0 /\ Told(Other(s)) <= 1
  BY DEF Told
<1>2. signals <= Told(s) + Told(Other(s))
  BY DEF IInv, SignalsTold, Sides, Other, Told
<1> QED
  BY <1>1, <1>2 DEF IInv, TypeOK, Capacity, Told

\* A completion signal is one more, of a copier that told none before.
LEMMA SignalKeeps ==
  ASSUME IInv, NEW s \in Sides, Signal(s)
  PROVE  IInv'
<1> USE ChunksAssumption DEF Signal, peers
<1>1. TypeOK'
  BY DEF IInv, TypeOK, Capacity
<1>2. ASSUME NEW t \in Sides, t # s PROVE NotStarted(t)' /\ Stream(t)'
  BY <1>2, OtherStreamKept DEF IInv, TypeOK
<1>3. NotStarted(s)' /\ Stream(s)'
  BY DEF IInv, TypeOK, NotStarted, Stream, UpToDate, InOrder
<1>4. SignalsTold'
  BY DEF IInv, TypeOK, SignalsTold, Told, Sides, Capacity
<1> QED
  BY <1>1, <1>2, <1>3, <1>4 DEF IInv

\* Every step keeps the invariant.
LEMMA NextIInv == IInv /\ [Next]_vars => IInv'
<1> SUFFICES ASSUME IInv, [Next]_vars PROVE IInv'
  OBVIOUS
<1>1. CASE Begin \/ Finish
  BY <1>1, HandlerKeeps
<1>2. ASSUME NEW s \in Sides, Send(s) \/ Leave(s) \/ Stall(s) PROVE IInv'
  BY <1>2, PeersKeep
<1>3. ASSUME NEW s \in Sides, Copy(s) PROVE IInv'
  BY <1>3, ReadChunkKeeps, WriteChunkKeeps, LoseChunkKeeps, FinishCopyKeeps, SignalKeeps DEF Copy
<1>4. CASE UNCHANGED vars
  BY <1>4 DEF vars, copierVars, peers, IInv, TypeOK, SignalsTold, Told, NotStarted, Stream,
     UpToDate, InOrder
<1> QED
  BY <1>1, <1>2, <1>3, <1>4 DEF Next

\* The inductive invariant holds throughout.
THEOREM Invariance == Spec => []IInv
  BY InitIInv, NextIInv, PTL DEF Spec

\* Every variable keeps its type, for any number of chunks.
THEOREM TypeCorrect == Spec => []TypeOK
<1>1. IInv => TypeOK
  BY DEF IInv
<1> QED
  BY <1>1, Invariance, PTL

\* Neither goroutine is ever left behind at its completion signal, however the relay ends: the
\* channel has room for both, whether or not handleWebSocket took one.
THEOREM SignalsFindRoom == Spec => []RoomToSignal
<1>1. IInv => RoomToSignal
  BY Room DEF RoomToSignal
<1> QED
  BY <1>1, Invariance, PTL

\* Each peer gets the other's chunks from the first one on, in order and without a gap, however
\* many are sent and whenever anyone leaves.
THEOREM RelayInOrder == Spec => []NothingSkipped
<1>1. IInv => NothingSkipped
  BY DEF IInv, Stream, InOrder, NothingSkipped
<1> QED
  BY <1>1, Invariance, PTL
====
