--------------------------- MODULE IpcWireProofs ---------------------------
(***************************************************************************)
(* For messages of any length, and chunks, limits and buffers of any size: *)
(* neither side keeps more than it should, and a call is what module Rpc   *)
(* says a call is.                                                         *)
(***************************************************************************)
EXTENDS IpcWire, TLAPS

\* The task has nothing to say before it has routed the request, and nothing
\* was read before it was accepted.
Early ==
  /\ srv \in {"none", "backlog", "reading", "routing"} => sent = 0 /\ outcome = "none"
  /\ srv \in {"none", "backlog"} => rcvd = 0
  /\ cli = "connecting" => srv = "none"

IInv == TypeOK /\ Early

LEMMA CallSizes ==
  ASSUME NEW c \in Calls
  PROVE  /\ c.head \in Nat \ {0} /\ c.body \in Nat /\ c.reply \in Nat \ {0}
         /\ c.plain \in BOOLEAN
<1>1. c.head \in Heads /\ c.body \in Bodies /\ c.reply \in Replies /\ c.plain \in BOOLEAN
  BY DEF Calls
<1>2. QED
  BY <1>1, SizeAssumption

LEMMA InitIInv == Init => IInv
<1> SUFFICES ASSUME Init PROVE IInv
  OBVIOUS
<1>1. call.head \in Nat /\ call.body \in Nat /\ call.reply \in Nat
  BY CallSizes DEF Init
<1>2. QED
  BY <1>1 DEF Init, IInv, TypeOK, Early, Size, ReplySize, CarriedOut, ErrorReply

LEMMA NextIInv == IInv /\ [Next]_vars => IInv'
<1> SUFFICES ASSUME IInv, [Next]_vars PROVE IInv'
  OBVIOUS
<1> USE DEF IInv, TypeOK, Early
<1>0. /\ call.head \in Nat /\ call.body \in Nat /\ call.reply \in Nat
      /\ Size \in Nat /\ ReplySize \in Nat
      /\ Chunk \in Nat /\ Limit \in Nat /\ Buffer \in Nat
  BY SizeAssumption, CallSizes DEF Size, ReplySize, CarriedOut, ErrorReply
<1>1. ASSUME NEW c \in Calls, Request(c) PROVE IInv'
  <2>1. c.head \in Nat /\ c.body \in Nat /\ c.reply \in Nat
    BY CallSizes
  <2>2. QED
    BY <1>1, <2>1 DEF Request, Size, ReplySize, CarriedOut, ErrorReply
<1>2. CASE Connect
  BY <1>0, <1>2 DEF Connect, Return, Size, ReplySize, CarriedOut
<1>3. CASE WriteRequest
  <2> DEFINE part == IF wrote < call.head THEN call.head ELSE Size
             room == Buffer - (wrote - rcvd)
  <2>1. /\ wrote' = wrote + Least(part - wrote, room)
        /\ room > 0 /\ cli' \in {"reading", "writing"}
        /\ UNCHANGED <<sock, call, got, result, server>>
    BY <1>3 DEF WriteRequest
  <2>2. /\ part - wrote \in Nat /\ part <= Size /\ room \in Nat
    BY <1>0, <2>1 DEF Size
  <2>3. wrote' \in Nat /\ wrote <= wrote' /\ wrote' <= Size
    BY <1>0, <2>1, <2>2 DEF Least
  <2>4. QED
    BY <1>0, <2>1, <2>3 DEF server, Size, ReplySize, CarriedOut
<1>4. CASE WriteRequestFails
  BY <1>0, <1>4 DEF WriteRequestFails, Return, server, Size, ReplySize, CarriedOut
<1>5. CASE ReadReply
  <2>1. sent - got \in Nat /\ got' = got + Least(Chunk, sent - got)
    BY <1>5 DEF ReadReply
  <2>2. got' \in Nat /\ got' <= sent
    BY <1>0, <2>1 DEF Least
  <2>3. QED
    BY <1>0, <1>5, <2>2 DEF ReadReply, Return, server, Size, ReplySize, CarriedOut
<1>6. CASE ReplyEnds
  BY <1>0, <1>6 DEF ReplyEnds, Return, Verdict, server, Size, ReplySize, CarriedOut
<1>7. CASE ClientDies
  BY <1>0, <1>7 DEF ClientDies, Return, server, Size, ReplySize, CarriedOut
<1>8. CASE Accept
  BY <1>0, <1>8 DEF Accept, client, Size, ReplySize, CarriedOut
<1>9. CASE ReadRequest
  <2>1. wrote - rcvd \in Nat /\ rcvd' = rcvd + Least(Chunk, wrote - rcvd)
    BY <1>9 DEF ReadRequest
  <2>2. rcvd' \in Nat /\ rcvd' <= wrote
    BY <1>0, <2>1 DEF Least
  <2>3. QED
    BY <1>0, <1>9, <2>2 DEF ReadRequest, client, Size, ReplySize, CarriedOut
<1>10. CASE RequestEnds
  BY <1>0, <1>10 DEF RequestEnds, client, Size, ReplySize, CarriedOut
<1>11. CASE Route
  <2>1. outcome' \in {"refused", "misread", "done"}
    BY <1>11 DEF Route
  <2>2. sent' = 0 /\ ReplySize' \in Nat
    BY <1>0, <1>11 DEF Route, ReplySize, CarriedOut, ErrorReply
  <2>3. QED
    BY <1>0, <1>11, <2>1, <2>2 DEF Route, client, Size
<1>12. CASE WriteReply
  <2> DEFINE room == Buffer - (sent - got)
  <2>1. /\ sent' = sent + Least(ReplySize - sent, room) /\ room > 0
        /\ srv = "replying" /\ srv' \in {"closed", "replying"}
        /\ UNCHANGED <<sock, call, client, rcvd, outcome>>
    BY <1>12 DEF WriteReply
  <2>2. ReplySize - sent \in Nat /\ room \in Nat
    BY <1>0, <2>1
  <2>3. sent' \in Nat /\ sent <= sent' /\ sent' <= ReplySize
    BY <1>0, <2>1, <2>2 DEF Least
  <2>4. QED
    BY <1>0, <2>1, <2>3 DEF client, Size, ReplySize, CarriedOut
<1>13. CASE WriteReplyFails
  BY <1>0, <1>13 DEF WriteReplyFails, client, Size, ReplySize, CarriedOut
<1>14. CASE DaemonStarts
  BY <1>0, <1>14 DEF DaemonStarts, client, server, Size, ReplySize, CarriedOut
<1>15. CASE DaemonDies
  BY <1>0, <1>15 DEF DaemonDies, client, Size, ReplySize, CarriedOut
<1>16. CASE UNCHANGED vars
  BY <1>16 DEF vars, client, server, Size, ReplySize, CarriedOut
<1>17. QED
  BY <1>1, <1>2, <1>3, <1>4, <1>5, <1>6, <1>7, <1>8, <1>9, <1>10, <1>11, <1>12,
     <1>13, <1>14, <1>15, <1>16 DEF Next, ClientStep, ServerStep

\* The state of a call keeps its type: no one reads more than was written, nor
\* writes more than there is.
THEOREM TypeCorrect == Spec => []TypeOK
<1>1. IInv => TypeOK
  BY DEF IInv
<1>2. QED
  BY <1>1, InitIInv, NextIInv, PTL DEF Spec

-----------------------------------------------------------------------------
\* Whoever is still reading is below the limit.
BelowLimit ==
  /\ srv = "reading" => rcvd <= Limit
  /\ cli \in {"connecting", "writing", "reading"} => got <= Limit

\* Neither side ever keeps more of a message than the limit and one chunk, so
\* that what a daemon holds of a connection, and a command of a reply, is
\* bounded whatever the other side sends.
THEOREM Bounded == Spec => []BufferBounded
<1> DEFINE BInv == BelowLimit /\ BufferBounded
<1> USE DEF BelowLimit, BufferBounded
<1>1. Init => BInv
  BY SizeAssumption DEF Init
<1>2. IInv /\ IInv' /\ BInv /\ [Next]_vars => BInv'
  <2> SUFFICES ASSUME IInv, IInv', BInv, [Next]_vars PROVE BInv'
    OBVIOUS
  <2>0. /\ Chunk \in Nat /\ Limit \in Nat
        /\ wrote \in Nat /\ got \in Nat /\ rcvd \in Nat /\ sent \in Nat
        /\ got <= sent /\ rcvd <= wrote
    BY SizeAssumption DEF IInv, TypeOK
  <2>1. ASSUME NEW c \in Calls, Request(c) PROVE BInv'
    BY <2>0, <2>1 DEF Request
  <2>2. CASE Connect
    BY <2>0, <2>2 DEF Connect, Return, IInv, Early
  <2>3. CASE WriteRequest
    BY <2>0, <2>3 DEF WriteRequest, server
  <2>4. CASE WriteRequestFails
    BY <2>0, <2>4 DEF WriteRequestFails, Return, server
  <2>5. CASE ReadReply
    <3>1. Least(Chunk, sent - got) <= Chunk /\ Least(Chunk, sent - got) \in Nat
      BY <2>0 DEF Least
    <3>2. QED
      BY <2>0, <2>5, <3>1 DEF ReadReply, Return, server
  <2>6. CASE ReplyEnds
    BY <2>0, <2>6 DEF ReplyEnds, Return, server
  <2>7. CASE ClientDies
    BY <2>0, <2>7 DEF ClientDies, Return, server
  <2>8. CASE Accept
    BY <2>0, <2>8 DEF Accept, client, IInv, Early
  <2>9. CASE ReadRequest
    <3>1. Least(Chunk, wrote - rcvd) <= Chunk /\ Least(Chunk, wrote - rcvd) \in Nat
      BY <2>0 DEF Least
    <3>2. QED
      BY <2>0, <2>9, <3>1 DEF ReadRequest, client
  <2>10. CASE RequestEnds \/ Route \/ WriteReply \/ WriteReplyFails
    BY <2>0, <2>10 DEF RequestEnds, Route, WriteReply, WriteReplyFails, client
  <2>11. CASE DaemonStarts \/ DaemonDies
    BY <2>0, <2>11 DEF DaemonStarts, DaemonDies, client, server
  <2>12. CASE UNCHANGED vars
    BY <2>12 DEF vars, client, server
  <2>13. QED
    BY <2>1, <2>2, <2>3, <2>4, <2>5, <2>6, <2>7, <2>8, <2>9, <2>10, <2>11, <2>12
       DEF Next, ClientStep, ServerStep
<1>3. QED
  BY <1>1, <1>2, InitIInv, NextIInv, PTL DEF Spec

-----------------------------------------------------------------------------
\* A head that fits is written in one piece, so that what is routed without all
\* of the head is nothing; and it is pending for the caller as long as the client
\* runs.
HeadWhole == call.head <= Buffer => wrote = 0 \/ call.head <= wrote
Routed    == srv = "routing" => call.head <= rcvd \/ (rcvd = wrote /\ cli = "idle")
NoMisread == Exact => outcome # "misread"
Pending   == result = "pending" <=> cli # "idle"

RInv == HeadWhole /\ Routed /\ NoMisread /\ Pending

LEMMA NextRInv == IInv /\ RInv /\ [Next]_vars => RInv'
<1> SUFFICES ASSUME IInv, RInv, [Next]_vars PROVE RInv'
  OBVIOUS
<1> USE DEF RInv, HeadWhole, Routed, NoMisread, Exact, Pending
<1>0. /\ call.head \in Nat \ {0} /\ call.body \in Nat /\ call.plain \in BOOLEAN
      /\ Size \in Nat /\ ReplySize \in Nat /\ Buffer \in Nat /\ Chunk \in Nat
      /\ wrote \in Nat /\ got \in Nat /\ rcvd \in Nat /\ sent \in Nat
      /\ got <= sent /\ rcvd <= wrote /\ wrote <= Size
      /\ call \in Calls /\ result \in {"none", "pending", "ok", "error"}
  BY SizeAssumption, CallSizes DEF IInv, TypeOK, Size, ReplySize, CarriedOut, ErrorReply
<1>1. ASSUME NEW c \in Calls, Request(c) PROVE RInv'
  BY <1>1 DEF Request
<1>2. CASE Connect
  BY <1>2 DEF Connect, Return
<1>3. CASE WriteRequest
  <2> DEFINE part == IF wrote < call.head THEN call.head ELSE Size
             room == Buffer - (wrote - rcvd)
  <2>1. /\ wrote' = wrote + Least(part - wrote, room)
        /\ cli = "writing" /\ cli' \in {"reading", "writing"} /\ room > 0
        /\ UNCHANGED <<sock, call, got, result, server>>
    BY <1>3 DEF WriteRequest
  <2>2. call.head <= Buffer => call.head <= wrote'
    <3> SUFFICES ASSUME call.head <= Buffer PROVE call.head <= wrote'
      OBVIOUS
    <3>1. CASE wrote = 0
      BY <1>0, <2>1, <3>1 DEF Least
    <3>2. CASE call.head <= wrote
      <4>1. part - wrote \in Nat /\ room \in Nat
        BY <1>0, <2>1, <3>2
      <4>2. Least(part - wrote, room) \in Nat
        BY <4>1 DEF Least
      <4>3. QED
        BY <1>0, <2>1, <3>2, <4>2
    <3>3. QED
      BY <3>1, <3>2
  <2>3. QED
    BY <1>0, <2>1, <2>2 DEF server
<1>4. CASE WriteRequestFails
  BY <1>4 DEF WriteRequestFails, Return, server
<1>5. CASE ReadReply
  BY <1>5 DEF ReadReply, Return, server
<1>6. CASE ReplyEnds
  BY <1>6 DEF ReplyEnds, Return, Verdict, server
<1>7. CASE ClientDies
  BY <1>7 DEF ClientDies, Return, server
<1>8. CASE Accept
  BY <1>8 DEF Accept, client
<1>9. CASE ReadRequest
  <2>1. Least(Chunk, wrote - rcvd) \in Nat
    BY <1>0 DEF Least
  <2>2. QED
    BY <1>0, <1>9, <2>1 DEF ReadRequest, client
<1>10. CASE RequestEnds
  BY <1>10 DEF RequestEnds, client
<1>11. CASE Route
  <2>1. call.head <= Buffer => rcvd = 0 \/ call.head <= rcvd
    BY <1>0, <1>11 DEF Route
  <2>2. Exact => outcome' \in {"refused", "done"}
    BY <1>0, <1>11, <2>1 DEF Route
  <2>3. QED
    BY <1>11, <2>2 DEF Route, client
<1>12. CASE WriteReply \/ WriteReplyFails
  BY <1>12 DEF WriteReply, WriteReplyFails, client
<1>13. CASE DaemonStarts \/ DaemonDies
  BY <1>13 DEF DaemonStarts, DaemonDies, client, server
<1>14. CASE UNCHANGED vars
  BY <1>14 DEF vars, client, server
<1>15. QED
  BY <1>1, <1>2, <1>3, <1>4, <1>5, <1>6, <1>7, <1>8, <1>9, <1>10, <1>11, <1>12,
     <1>13, <1>14 DEF Next, ClientStep, ServerStep

\* Every step of a call is a step of Rpc, or changes nothing of what Rpc sees.
LEMMA RpcStep == IInv /\ RInv /\ RInv' /\ [Next]_vars => [Caller!Next]_(Caller!vars)
<1> SUFFICES ASSUME IInv, RInv, RInv', [Next]_vars
             PROVE  [Caller!Next]_(Caller!vars)
  OBVIOUS
<1> USE DEF RInv, Pending, Exact, Caller!Next, Caller!vars
<1>1. ASSUME NEW c \in Calls, Request(c) PROVE Caller!Ask
  <2>1. Exact' \in BOOLEAN
    BY DEF Exact
  <2>2. QED
    BY <1>1, <2>1 DEF Request, Caller!Ask
<1>2. ASSUME Connect \/ WriteRequestFails \/ ReadReply
      PROVE  Caller!Fail \/ UNCHANGED <<Exact, outcome, result>>
  BY <1>2 DEF Connect, WriteRequestFails, ReadReply, Return, server, Caller!Fail
<1>3. ASSUME ReplyEnds PROVE Caller!Succeed \/ Caller!Fail
  BY <1>3 DEF ReplyEnds, Return, Verdict, CarriedOut, server, Caller!Succeed, Caller!Fail
<1>4. ASSUME ClientDies PROVE Caller!Abandon
  BY <1>4 DEF ClientDies, Return, server, Caller!Abandon
<1>5. ASSUME Route PROVE Caller!Handle
  <2>1. outcome = "none" /\ UNCHANGED <<call, result>>
    BY <1>5 DEF Route, IInv, Early, client
  <2>2. outcome' \in {"refused", "misread", "done"}
    BY <1>5 DEF Route
  <2>3. Exact => outcome' # "misread"
    BY <2>1 DEF NoMisread
  <2>4. QED
    BY <2>1, <2>2, <2>3 DEF Caller!Handle
<1>6. ASSUME \/ WriteRequest \/ Accept \/ ReadRequest \/ RequestEnds \/ WriteReply
             \/ WriteReplyFails \/ DaemonStarts \/ DaemonDies \/ UNCHANGED vars
      PROVE  UNCHANGED <<Exact, outcome, result>>
  BY <1>6 DEF WriteRequest, Accept, ReadRequest, RequestEnds, WriteReply,
              WriteReplyFails, DaemonStarts, DaemonDies, vars, client, server
<1>7. QED
  BY <1>1, <1>2, <1>3, <1>4, <1>5, <1>6 DEF Next, ClientStep, ServerStep

\* A call over the socket is a call of Rpc: carried out at most once, and only as
\* it was meant if its id survives the path and its head fits in the stream,
\* whichever side dies and whatever is cut; Ok only when it was carried out.
THEOREM ImplementsRpc == Spec => RpcSpec
<1>1. Init => RInv /\ Caller!Init
  BY DEF Init, RInv, HeadWhole, Routed, NoMisread, Pending, Exact, Caller!Init
<1>2. QED
  BY <1>1, InitIInv, NextIInv, NextRInv, RpcStep, PTL DEF Spec, RpcSpec, Caller!Spec

=============================================================================
