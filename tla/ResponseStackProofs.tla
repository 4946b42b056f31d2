---- MODULE ResponseStackProofs ----
(***************************************************************************)
(* Theorems about ResponseStack for any policies and any number of         *)
(* informational responses.                                                *)
(***************************************************************************)
EXTENDS ResponseStack, SequenceTheorems, TLAPS

Values   == {"ghttpd", "close", "local", "backend"} \cup PolicyValues
Headers  == [Names -> Seq(Values)]
Statuses == Finals \cup {Hint, Switching}
Places   == {"idle", "headers", "handler", "relay", "body", "return", "aborted", "done"}

\* what a client received is a sequence of responses with a status and a header map
SentType == sent \in Seq([status : Statuses, header : Headers])

\* Only a proxy sends anything before the answer, and only an upgrade hijacks.
Early ==
    /\ at \in {"headers", "handler"} => ~hijacked /\ (source # "proxy" \/ at = "headers" =>
                                                       sent = << >> /\ recorded = 200)
    /\ at = "relay" => hijacked
    /\ hijacked => recorded = 200

\* The policy writer has acted exactly when net/http has sent something, and it
\* acted on what was sent first.
AppliedOnFirst ==
    /\ applied <=> sent # << >> /\ ~hijacked
    /\ PolicyOnFirst
    /\ ServerOnFirst

\* A header map that names the server, and closes an HTTP/1.0 connection.
Holds(h, n, v) == \E i \in 1..Len(h[n]) : h[n][i] = v
NamedIn(h) == Holds(h, "Server", "ghttpd") /\ (oneZero => Holds(h, "Connection", "close"))

\* The handlers start from such a map, which nobody has sent yet.
HeaderNamed == at = "handler" /\ sent = << >> => NamedIn(header)

\* From the answer on, the recorder holds the status the client got last.
Recorded ==
    /\ at \in {"body", "return", "done"} => recorded \in Finals
    /\ at \in {"body", "return", "done"} /\ ~hijacked =>
          sent # << >> /\ recorded = sent[Len(sent)].status
    /\ at = "done" => logged = recorded

IInv == TypeOK /\ SentType /\ Early /\ AppliedOnFirst /\ HeaderNamed /\ Recorded

-----------------------------------------------------------------------------
(* Header maps *)

\* A policy names some of the headers, each with its value.
LEMMA PolicyFacts ==
    ASSUME NEW p \in Policies
    PROVE  /\ DOMAIN p \subseteq Names
           /\ \A n \in DOMAIN p : p[n] \in PolicyValues
BY DEF Policies

\* What the handlers set, add or start again with is a header map.
LEMMA MapTypes ==
    /\ Empty \in Headers
    /\ \A h \in Headers, n \in Names, v \in Values : Put(h, n, v) \in Headers
    /\ \A h, more \in Headers : Added(h, more) \in Headers
<1>1. Empty \in Headers
  BY DEF Empty, Headers
<1>2. ASSUME NEW h \in Headers, NEW n \in Names, NEW v \in Values
      PROVE  Put(h, n, v) \in Headers
  <2>1. <<v>> \in Seq(Values)
    OBVIOUS
  <2> QED  BY <2>1 DEF Put, Headers
<1>3. ASSUME NEW h \in Headers, NEW more \in Headers
      PROVE  Added(h, more) \in Headers
  <2>1. \A n \in Names : h[n] \o more[n] \in Seq(Values)
    BY ConcatProperties DEF Headers
  <2> QED  BY <2>1 DEF Added, Headers
<1> QED  BY <1>1, <1>2, <1>3

\* A backend's headers are a header map.
LEMMA BackendTypes == BackendHeaders \subseteq Headers
<1>1. << >> \in Seq(Values) /\ <<"backend">> \in Seq(Values)
  <2>1. "backend" \in Values
    BY DEF Values
  <2>2. << >> \in Seq(Values)
    OBVIOUS
  <2>3. <<"backend">> \in Seq(Values)
    BY <2>1
  <2> QED  BY <2>2, <2>3
<1>2. ASSUME NEW b \in BackendHeaders PROVE b \in Headers
  <2>1. PICK s \in {<< >>, <<"backend">>}, t \in {<< >>, <<"backend">>} :
            b = [Empty EXCEPT !["Server"] = s, !["Content-Type"] = t]
    BY <1>2 DEF BackendHeaders
  <2>2. s \in Seq(Values) /\ t \in Seq(Values)
    BY <1>1
  <2> QED  BY <2>1, <2>2, MapTypes DEF Headers, Names
<1> QED  BY <1>2

\* The policy writer turns a header map into one that says what the policy says, the
\* first time it acts.
LEMMA PolicyWriter ==
    ASSUME policy \in Policies, NEW h \in Headers
    PROVE  /\ WithPolicy(h) \in Headers
           /\ ~applied => \A n \in DOMAIN policy : WithPolicy(h)[n] = <<policy[n]>>
<1>1. DOMAIN policy \subseteq Names /\ \A n \in DOMAIN policy : policy[n] \in PolicyValues
  BY PolicyFacts
<1>2. \A v \in PolicyValues : <<v>> \in Seq(Values)
  BY DEF Values
<1>3. \A n \in DOMAIN policy : <<policy[n]>> \in Seq(Values)
  BY <1>1, <1>2
<1> QED  BY <1>1, <1>3 DEF WithPolicy, Headers

\* Putting another header into a map, and adding a backend's, keeps what it names.
LEMMA NamesStay ==
    ASSUME NEW h \in Headers, NamedIn(h)
    PROVE  /\ \A v \in Values : NamedIn(Put(h, "Content-Type", v))
           /\ \A more \in BackendHeaders : NamedIn(Added(h, more))
<1>1. ASSUME NEW v \in Values PROVE NamedIn(Put(h, "Content-Type", v))
  BY DEF NamedIn, Holds, Put, Headers, Names
<1>2. ASSUME NEW more \in Headers, NEW n \in Names, NEW v, Holds(h, n, v)
      PROVE  Holds(Added(h, more), n, v)
  <2>1. h[n] \in Seq(Values) /\ more[n] \in Seq(Values) /\ Added(h, more)[n] = h[n] \o more[n]
    BY <1>2 DEF Headers, Added
  <2>2. PICK i \in 1..Len(h[n]) : h[n][i] = v
    BY <1>2 DEF Holds
  <2>3. Len(h[n]) \in Nat /\ Len(more[n]) \in Nat
    BY <2>1, LenProperties
  <2>4. i \in 1..(Len(h[n]) + Len(more[n])) /\ i <= Len(h[n])
    <3> DEFINE a == Len(h[n])
               b == Len(more[n])
    <3>1. a \in Nat /\ b \in Nat /\ i \in 1..a
      BY <2>2, <2>3
    <3> HIDE DEF a, b
    <3>2. i \in 1..(a + b) /\ i <= a
      BY <3>1
    <3> QED  BY <3>2 DEF a, b
  <2>5. i \in 1..Len(h[n] \o more[n]) /\ (h[n] \o more[n])[i] = v
    BY <2>1, <2>2, <2>4, ConcatProperties
  <2> QED  BY <2>1, <2>5 DEF Holds
<1> QED  BY <1>1, <1>2, BackendTypes DEF NamedIn, Names

\* What the wrapper puts into a map names the server, and closes the connection.
LEMMA WrapperNames ==
    ASSUME NEW h \in Headers
    PROVE  LET named == Put(h, "Server", "ghttpd")
           IN  /\ Holds(named, "Server", "ghttpd")
               /\ Holds(Put(named, "Connection", "close"), "Server", "ghttpd")
               /\ Holds(Put(named, "Connection", "close"), "Connection", "close")
BY DEF Holds, Put, Headers, Names

-----------------------------------------------------------------------------
(* Writing a response *)

\* Every response in a sequence of them has a status.
LEMMA StatusOfEach ==
    ASSUME NEW q \in Seq([status : Statuses, header : Headers])
    PROVE  \A i \in 1..Len(q) : q[i].status \in Finals \cup {Hint, Switching}
<1>1. \A i \in 1..Len(q) : q[i] \in [status : Statuses, header : Headers]
  BY ElementOfSeq
<1> QED  BY <1>1 DEF Statuses

\* What one more response does to the responses the client has.
LEMMA OneMore ==
    ASSUME SentType, NEW r \in [status : Statuses, header : Headers]
    PROVE  /\ Append(sent, r) \in Seq([status : Statuses, header : Headers])
           /\ Append(sent, r) # << >>
           /\ Append(sent, r)[Len(Append(sent, r))] = r
           /\ sent = << >> => Append(sent, r)[1] = r
           /\ sent # << >> => Append(sent, r)[1] = sent[1]
<1>1. /\ Append(sent, r) \in Seq([status : Statuses, header : Headers])
      /\ Len(Append(sent, r)) = Len(sent) + 1
      /\ \A i \in 1..Len(sent) : Append(sent, r)[i] = sent[i]
      /\ Append(sent, r)[Len(sent) + 1] = r
  BY AppendProperties DEF SentType
<1>2. Len(sent) \in Nat /\ (sent = << >> <=> Len(sent) = 0)
  BY EmptySeq, LenProperties DEF SentType
<1>3. Append(sent, r) # << >>
  BY <1>1, <1>2
<1> QED  BY <1>1, <1>2, <1>3

\* A response through the policy writer: the invariant's part about what was sent.
LEMMA Responding ==
    ASSUME IInv, ~hijacked, policy' = policy, hijacked' = hijacked, oneZero' = oneZero,
           NEW status \in Statuses, NEW h \in Headers, sent = << >> => NamedIn(h),
           applied' = TRUE,
           sent' = Append(sent, [status |-> status, header |-> WithPolicy(h)])
    PROVE  SentType' /\ AppliedOnFirst' /\ sent' # << >> /\ sent'[Len(sent')].status = status
<1> DEFINE r == [status |-> status, header |-> WithPolicy(h)]
<1>1. /\ WithPolicy(h) \in Headers
      /\ ~applied => \A n \in DOMAIN policy : WithPolicy(h)[n] = <<policy[n]>>
  BY PolicyWriter DEF IInv, TypeOK
<1>2. r \in [status : Statuses, header : Headers]
  BY <1>1
<1>3. /\ sent' \in Seq([status : Statuses, header : Headers])
      /\ sent' # << >>
      /\ sent'[Len(sent')] = r
      /\ sent = << >> => sent'[1] = r
      /\ sent # << >> => sent'[1] = sent[1]
  BY <1>2, OneMore DEF IInv
<1>4. \A n \in DOMAIN policy : sent'[1].header[n] = <<policy[n]>>
  <2>1. CASE sent = << >>
    BY <2>1, <1>1, <1>3 DEF IInv, AppliedOnFirst
  <2>2. CASE sent # << >>
    BY <2>2, <1>3 DEF IInv, AppliedOnFirst, PolicyOnFirst
  <2> QED  BY <2>1, <2>2
<1>5. ServerOnFirst'
  <2>1. CASE sent = << >>
    <3>1. ~applied /\ NamedIn(h)
      BY <2>1 DEF IInv, AppliedOnFirst
    <3>2. \A n \in Names : n \notin DOMAIN policy => WithPolicy(h)[n] = h[n]
      BY <3>1 DEF WithPolicy
    <3>3. sent'[1].header = WithPolicy(h)
      BY <1>3, <2>1
    <3> QED  BY <3>1, <3>2, <3>3 DEF ServerOnFirst, Carries, NamedIn, Holds, Names
  <2>2. CASE sent # << >>
    BY <2>2, <1>3 DEF IInv, AppliedOnFirst, ServerOnFirst, Carries
  <2> QED  BY <2>1, <2>2
<1> QED  BY <1>3, <1>4, <1>5 DEF SentType, AppliedOnFirst, PolicyOnFirst

-----------------------------------------------------------------------------
(* The invariant *)

\* The initial state satisfies the invariant.
LEMMA InitInvariant == Init => IInv
<1> SUFFICES ASSUME Init PROVE IInv
  OBVIOUS
<1>1. header \in Headers
  BY MapTypes DEF Init, Idle
<1>2. Len(sent) = 0 /\ SentType
  BY DEF Init, Idle, SentType
<1>3. \A i \in 1..Len(sent) : sent[i].status \in Finals \cup {Hint, Switching}
  BY <1>2
<1>4. {applied, hijacked} \subseteq BOOLEAN
  BY Zenon DEF Init, Idle
<1>5. TypeOK
  BY <1>1, <1>3, <1>4 DEF Init, Idle, TypeOK, Headers, Values, Finals
<1> QED  BY <1>2, <1>5 DEF Init, Idle, IInv, Early, AppliedOnFirst, PolicyOnFirst, ServerOnFirst, HeaderNamed, Recorded

\* A request starts with nothing sent, whoever it will be answered by.
LEMMA ArriveKeeps ==
    ASSUME IInv, NEW resolved \in Policies, NEW answering \in Sources, Arrive(resolved, answering)
    PROVE  IInv'
<1>1. header' \in Headers
  BY MapTypes DEF Arrive
<1>2. Len(sent') = 0 /\ SentType'
  BY DEF Arrive, SentType
<1>3. \A i \in 1..Len(sent') : sent'[i].status \in Finals \cup {Hint, Switching}
  BY <1>2
<1>4. {applied', hijacked'} \subseteq BOOLEAN
  BY Zenon DEF Arrive
<1>5. oneZero' \in BOOLEAN /\ policy' \in Policies
  BY Zenon DEF Arrive, IInv, TypeOK
<1>6. TypeOK'
  BY <1>1, <1>3, <1>4, <1>5 DEF Arrive, TypeOK, Headers, Values, Finals
<1> QED  BY <1>2, <1>6 DEF Arrive, IInv, Early, AppliedOnFirst, PolicyOnFirst, ServerOnFirst, HeaderNamed, Recorded

\* A step that sends nothing.
LEMMA QuietStep ==
    ASSUME IInv, header' \in Headers, UNCHANGED <<request, applied, recorded, sent>>,
           hijacked' = hijacked, at' \in Places, logged' = logged
    PROVE  TypeOK' /\ SentType' /\ AppliedOnFirst'
<1>1. TypeOK'
  BY DEF IInv, TypeOK, request, Headers, Values, Places
<1> QED
  BY <1>1 DEF IInv, SentType, AppliedOnFirst, PolicyOnFirst, ServerOnFirst, Carries, request

\* The header wrapper sends nothing.
LEMMA WrapKeeps == IInv /\ WrapWithHeaders => IInv'
<1> SUFFICES ASSUME IInv, WrapWithHeaders PROVE IInv'
  OBVIOUS
<1>1. header \in Headers
  BY DEF IInv, TypeOK, Headers, Values
<1>2. Put(header, "Server", "ghttpd") \in Headers
  BY <1>1, MapTypes DEF Names, Values
<1>3. Put(Put(header, "Server", "ghttpd"), "Connection", "close") \in Headers
  BY <1>2, MapTypes DEF Names, Values
<1>4. header' \in Headers
  BY <1>2, <1>3 DEF WrapWithHeaders
<1>5. TypeOK' /\ SentType' /\ AppliedOnFirst'
  BY <1>4, QuietStep DEF WrapWithHeaders, Places
<1>6. NamedIn(header)'
  BY <1>1, WrapperNames DEF NamedIn, Holds, WrapWithHeaders, request
<1> QED  BY <1>5, <1>6 DEF IInv, Early, HeaderNamed, Recorded, WrapWithHeaders, request

\* The answer to a request, written with or without a status of its own.
LEMMA AnswerKeeps ==
    ASSUME IInv, at = "handler", at' = "body", NEW h \in Headers, NEW status \in Finals,
           WriteHeader(status, h, WithPolicy(h)) \/ (WriteOnly(h) /\ status = 200 /\ recorded = 200),
           sent = << >> => NamedIn(h),
           UNCHANGED <<request, hijacked, logged>>
    PROVE  IInv'
<1>1. /\ ~hijacked /\ policy' = policy /\ hijacked' = hijacked /\ applied' = TRUE
      /\ oneZero' = oneZero
      /\ sent' = Append(sent, [status |-> status, header |-> WithPolicy(h)])
      /\ status \in Statuses /\ recorded' = status /\ header' = WithPolicy(h)
  BY DEF IInv, Early, WriteHeader, WriteOnly, request, Statuses
<1>2. SentType' /\ AppliedOnFirst' /\ sent' # << >> /\ sent'[Len(sent')].status = status
  BY <1>1, Responding
<1>3. header' \in Headers
  BY <1>1, PolicyWriter DEF IInv, TypeOK
<1>4. applied' \in BOOLEAN
  BY <1>1
<1>5. \A i \in 1..Len(sent') : sent'[i].status \in Finals \cup {Hint, Switching}
  BY <1>2, StatusOfEach DEF SentType
<1>6. TypeOK'
  BY <1>1, <1>3, <1>4, <1>5 DEF IInv, TypeOK, request, Headers, Values
<1> QED  BY <1>1, <1>2, <1>6 DEF IInv, Early, HeaderNamed, Recorded

\* The file pipeline answers with or without a status.
LEMMA FilesKeep == IInv /\ AnswerFromFiles => IInv'
<1> SUFFICES ASSUME IInv, AnswerFromFiles PROVE IInv'
  OBVIOUS
<1> DEFINE h == Put(header, "Content-Type", "local")
<1>1. h \in Headers
  BY MapTypes DEF IInv, TypeOK, Headers, Values, Names
<1>2. PICK status \in {200, 404} :
          WriteHeader(status, h, WithPolicy(h)) \/ (WriteOnly(h) /\ status = 200)
  BY DEF AnswerFromFiles
<1>3. recorded = 200
  BY DEF IInv, Early, AnswerFromFiles
<1>4. sent = << >> => NamedIn(h)
  BY NamesStay DEF IInv, HeaderNamed, AnswerFromFiles, TypeOK, Headers, Values
<1> QED  BY <1>1, <1>2, <1>3, <1>4, AnswerKeeps DEF AnswerFromFiles, Finals

\* The reverse proxy's final answer.
LEMMA ForwardKeeps == IInv /\ ForwardAnswer => IInv'
<1> SUFFICES ASSUME IInv, ForwardAnswer PROVE IInv'
  OBVIOUS
<1>1. PICK status \in {200, 404}, more \in BackendHeaders :
          WriteHeader(status, Added(header, more), WithPolicy(Added(header, more)))
  BY DEF ForwardAnswer
<1>2. Added(header, more) \in Headers
  BY MapTypes, BackendTypes DEF IInv, TypeOK, Headers, Values
<1>3. sent = << >> => NamedIn(Added(header, more))
  BY NamesStay DEF IInv, HeaderNamed, ForwardAnswer, TypeOK, Headers, Values
<1> QED  BY <1>1, <1>2, <1>3, AnswerKeeps DEF ForwardAnswer, Finals

\* An error answer, by whichever handler.
LEMMA ErrorKeeps ==
    ASSUME IInv, at = "handler", at' = "body", NEW status \in Finals, Error(status),
           UNCHANGED <<request, hijacked, logged>>
    PROVE  IInv'
<1> DEFINE h == Put(header, "Content-Type", "local")
<1>1. h \in Headers
  BY MapTypes DEF IInv, TypeOK, Headers, Values, Names
<1>2. WriteHeader(status, h, WithPolicy(h))
  BY DEF Error
<1>3. sent = << >> => NamedIn(h)
  BY NamesStay DEF IInv, HeaderNamed, TypeOK, Headers, Values
<1> QED  BY <1>1, <1>2, <1>3, AnswerKeeps

\* An informational response: sent first, it carries the policy; nothing is answered yet.
LEMMA HintKeeps == IInv /\ ForwardHint => IInv'
<1> SUFFICES ASSUME IInv, ForwardHint PROVE IInv'
  OBVIOUS
<1>1. PICK more \in BackendHeaders : WriteHeader(Hint, Added(header, more), Empty)
  BY DEF ForwardHint
<1>2. Added(header, more) \in Headers /\ Empty \in Headers
  BY MapTypes, BackendTypes DEF IInv, TypeOK, Headers, Values
<1>3. /\ ~hijacked /\ policy' = policy /\ hijacked' = hijacked /\ applied' = TRUE
      /\ oneZero' = oneZero
      /\ sent' = Append(sent, [status |-> Hint, header |-> WithPolicy(Added(header, more))])
      /\ Hint \in Statuses /\ recorded' = Hint /\ header' = Empty
  BY <1>1 DEF IInv, Early, WriteHeader, ForwardHint, request, Statuses
<1>4. SentType' /\ AppliedOnFirst' /\ sent' # << >>
  <2> DEFINE h == Added(header, more)
  <2>1. sent = << >> => NamedIn(h)
    BY <1>1, NamesStay DEF IInv, HeaderNamed, ForwardHint, TypeOK, Headers, Values
  <2>2. h \in Headers
    BY <1>2
  <2>3. sent' = Append(sent, [status |-> Hint, header |-> WithPolicy(h)])
    BY <1>3
  <2> HIDE DEF h
  <2> QED  BY <1>3, <2>1, <2>2, <2>3, Responding
<1>5. applied' \in BOOLEAN
  BY <1>3
<1>6. \A i \in 1..Len(sent') : sent'[i].status \in Finals \cup {Hint, Switching}
  BY <1>4, StatusOfEach DEF SentType
<1>7. TypeOK'
  BY <1>2, <1>3, <1>5, <1>6 DEF IInv, TypeOK, ForwardHint, request, Headers, Values
<1> QED  BY <1>3, <1>4, <1>7 DEF IInv, Early, HeaderNamed, Recorded, ForwardHint, request

\* The connection is taken before anything was sent.
LEMMA HijackKeeps == IInv /\ Hijack => IInv'
<1> SUFFICES ASSUME IInv, Hijack PROVE IInv'
  OBVIOUS
<1>1. sent = << >> /\ recorded = 200 /\ ~applied
  BY DEF IInv, Early, AppliedOnFirst, Hijack
<1>2. hijacked' \in BOOLEAN
  BY DEF Hijack
<1>3. TypeOK'
  BY <1>2 DEF IInv, TypeOK, Hijack, request
<1> QED  BY <1>1, <1>3 DEF IInv, SentType, Early, AppliedOnFirst, PolicyOnFirst, ServerOnFirst, HeaderNamed, Recorded, Hijack, request

\* What a relay writes passes by policy writer and recorder.
LEMMA RelayKeeps == IInv /\ Relay => IInv'
<1> SUFFICES ASSUME IInv, Relay PROVE IInv'
  OBVIOUS
<1>1. SentType'
  <2>1. CASE UNCHANGED sent
    BY <2>1 DEF IInv, SentType
  <2>2. CASE \E status \in {Switching, 404}, h \in BackendHeaders :
                sent' = Append(sent, [status |-> status, header |-> h])
    <3>1. PICK status \in {Switching, 404}, h \in BackendHeaders :
              sent' = Append(sent, [status |-> status, header |-> h])
      BY <2>2
    <3>2. [status |-> status, header |-> h] \in [status : Statuses, header : Headers]
      BY BackendTypes DEF Statuses, Finals
    <3> QED  BY <3>1, <3>2, OneMore DEF IInv, SentType
  <2> QED  BY <2>1, <2>2 DEF Relay
<1>2. hijacked /\ hijacked' /\ ~applied /\ ~applied'
  BY DEF IInv, Early, AppliedOnFirst, Relay
<1>3. \A i \in 1..Len(sent') : sent'[i].status \in Finals \cup {Hint, Switching}
  BY <1>1, StatusOfEach DEF SentType
<1>4. TypeOK'
  BY <1>3 DEF IInv, TypeOK, Relay, request
<1> QED
  BY <1>1, <1>2, <1>4
     DEF IInv, Early, AppliedOnFirst, PolicyOnFirst, ServerOnFirst, HeaderNamed, Recorded, Relay, request, Finals

\* The steps after the answer.
LEMMA EndKeeps == IInv /\ (FinishBody \/ AbortBody) => IInv'
<1> SUFFICES ASSUME IInv, FinishBody \/ AbortBody PROVE IInv'
  OBVIOUS
<1>1. header' \in Headers /\ at' \in {"return", "aborted"} /\ at = "body"
  BY DEF IInv, TypeOK, Headers, Values, FinishBody, AbortBody
<1>2. UNCHANGED <<request, header, applied, recorded, sent, hijacked, logged>>
  BY DEF FinishBody, AbortBody
<1>3. TypeOK' /\ SentType' /\ AppliedOnFirst'
  BY <1>1, <1>2, QuietStep DEF Places
<1> QED  BY <1>1, <1>2, <1>3 DEF IInv, Early, HeaderNamed, Recorded, request

\* The log takes the recorder's status.
LEMMA LogKeeps == IInv /\ LogCompleted => IInv'
<1> SUFFICES ASSUME IInv, LogCompleted PROVE IInv'
  OBVIOUS
<1>1. TypeOK'
  BY DEF IInv, TypeOK, Recorded, LogCompleted, request
<1> QED
  BY <1>1 DEF IInv, SentType, Early, AppliedOnFirst, PolicyOnFirst, ServerOnFirst, HeaderNamed, Recorded, LogCompleted, request

\* Every step keeps the inductive invariant, ...
LEMMA InvariantStep == IInv /\ [Next]_vars => IInv'
<1> SUFFICES ASSUME IInv, [Next]_vars PROVE IInv'
  OBVIOUS
<1>1. CASE BackendFails
  BY <1>1, ErrorKeeps DEF BackendFails, Finals
<1>2. CASE UpgradeFails
  <2>1. PICK status \in {500, 502} : Error(status)
    BY <1>2 DEF UpgradeFails
  <2> QED  BY <1>2, <2>1, ErrorKeeps DEF UpgradeFails, Finals
<1>3. CASE \E resolved \in Policies, answering \in Sources : Arrive(resolved, answering)
  BY <1>3, ArriveKeeps
<1>4. CASE UNCHANGED vars
  BY <1>4
     DEF IInv, TypeOK, SentType, Early, AppliedOnFirst, PolicyOnFirst, ServerOnFirst, HeaderNamed, NamedIn, Holds,
         Carries, Recorded, vars
<1> QED
  BY <1>1, <1>2, <1>3, <1>4, WrapKeeps, FilesKeep, ForwardKeeps, HintKeeps, HijackKeeps, RelayKeeps,
     EndKeeps, LogKeeps DEF Next, Answer

\* ... so that it holds throughout.
THEOREM Invariance == Spec => []IInv
<1> QED  BY InitInvariant, InvariantStep, PTL DEF Spec

\* The variables have their types.
THEOREM TypeCorrect == Spec => []TypeOK
<1>1. IInv => TypeOK
  BY DEF IInv
<1> QED  BY <1>1, Invariance, PTL

\* What net/http sends first has the policy's value of every header a policy names.
THEOREM PolicyFirst == Spec => []PolicyOnFirst
<1>1. IInv => PolicyOnFirst
  BY DEF IInv, AppliedOnFirst
<1> QED  BY <1>1, Invariance, PTL

\* What net/http sends first names the server, and closes an HTTP/1.0 connection, unless a
\* policy speaks for that header: no handler and no backend takes it away before.
THEOREM ServerFirst == Spec => []ServerOnFirst
<1>1. IInv => ServerOnFirst
  BY DEF IInv, AppliedOnFirst
<1> QED  BY <1>1, Invariance, PTL

\* The log has the status the client got last; of an upgrade that took the connection it has
\* the 200 the recorder began with.
THEOREM LogMatches == Spec => []LogMatchesWire
<1>1. IInv => LogMatchesWire
  BY DEF IInv, Early, Recorded, LogMatchesWire
<1> QED  BY <1>1, Invariance, PTL
====
