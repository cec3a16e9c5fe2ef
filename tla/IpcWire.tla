------------------------------ MODULE IpcWire ------------------------------
(***************************************************************************)
(* One request over tailcat-node.sock: IpcClient::request in a CLI process *)
(* (src/ipc/client.rs) and handle_connection in the daemon                 *)
(* (src/ipc/server.rs), with the stream between them.                      *)
(*                                                                         *)
(* A request is a head, which ends with an empty line, and a body; a reply *)
(* likewise.  The stream is counted, not spelled: how much was written and *)
(* how much was read of it.  The server never looks at Content-Length, and *)
(* neither side sets a timeout.  Each connection has a task of its own in  *)
(* the daemon, so one connection at a time is modelled.                    *)
(***************************************************************************)
EXTENDS Integers

CONSTANTS
  Chunk,     \* what one read takes at most (4096 bytes)
  Limit,     \* the largest head, and reply, that is read (65536 bytes)
  Buffer,    \* what the kernel holds of a stream, each way
  Heads,     \* lengths of a request's head
  Bodies,    \* lengths of its body; 0 when there is none
  Replies    \* lengths of the reply to a request that was carried out

ASSUME SizeAssumption ==
  /\ Chunk \in Nat \ {0} /\ Limit \in Nat \ {0} /\ Buffer \in Nat \ {0}
  /\ Heads \subseteq Nat \ {0} /\ Bodies \subseteq Nat /\ Replies \subseteq Nat \ {0}

VARIABLES
  sock,     \* tailcat-node.sock, and whether a daemon listens on it
  call,     \* the request
  cli,      \* how far the client is
  wrote,    \* how much of the request it has written
  got,      \* how much of the reply it has read
  srv,      \* how far the daemon's task for the connection is
  rcvd,     \* how much of the request the daemon has read
  outcome,  \* what the daemon made of the request
  sent,     \* how much of its reply it has written
  result    \* what the client made of the reply

client == <<cli, wrote, got, result>>
server == <<srv, rcvd, outcome, sent>>
vars == <<sock, call, client, server>>

\* A request is plain when the id that route() finds in its path is the one that
\* was meant: the CLI writes ids as they are, the path ends at the first blank,
\* and all prefixes like the route's are stripped.  A body is JSON, and so exact.
Calls == {c \in [head: Heads, body: Bodies, reply: Replies, plain: BOOLEAN] :
            c.plain \/ c.body = 0}

\* What the daemon says when it refuses is a line.
ErrorReply == 1

Size == call.head + call.body
CarriedOut == outcome \in {"done", "misread"}
ReplySize == IF CarriedOut THEN call.reply ELSE ErrorReply
Least(a, b) == IF a < b THEN a ELSE b

TypeOK ==
  /\ sock \in {"absent", "stale", "live"}
  /\ call \in Calls
  /\ cli \in {"idle", "connecting", "writing", "reading"}
  /\ srv \in {"none", "backlog", "reading", "routing", "replying", "closed"}
  /\ wrote \in Nat /\ got \in Nat /\ rcvd \in Nat /\ sent \in Nat
  /\ got <= sent /\ sent <= ReplySize /\ rcvd <= wrote /\ wrote <= Size
  /\ outcome \in {"none", "done", "refused", "misread"}
  /\ result \in {"none", "pending", "ok", "error"}

Init ==
  /\ sock = "absent"
  /\ call \in Calls
  /\ cli = "idle" /\ wrote = 0 /\ got = 0 /\ result = "none"
  /\ srv = "none" /\ rcvd = 0 /\ outcome = "none" /\ sent = 0

(***************************************************************************)
(* The client.                                                             *)
(***************************************************************************)
Return(r) == cli' = "idle" /\ result' = r

Request(c) ==
  /\ cli = "idle"
  /\ srv \in {"none", "closed"}
  /\ call' = c
  /\ cli' = "connecting" /\ wrote' = 0 /\ got' = 0 /\ result' = "pending"
  /\ srv' = "none" /\ rcvd' = 0 /\ outcome' = "none" /\ sent' = 0
  /\ UNCHANGED sock

\* The socket is there, or it is not, or nobody listens.
Connect ==
  /\ cli = "connecting"
  /\ \/ /\ sock = "live"
        /\ cli' = "writing"
        /\ srv' = "backlog"
        /\ UNCHANGED result
     \/ /\ sock # "live"
        /\ Return("error")
        /\ UNCHANGED srv
  /\ UNCHANGED <<sock, call, wrote, got, rcvd, outcome, sent>>

\* write_all of the head, then of the body; each write takes what has room.
WriteRequest ==
  /\ cli = "writing"
  /\ srv # "closed"
  /\ LET part == IF wrote < call.head THEN call.head ELSE Size
         room == Buffer - (wrote - rcvd)
     IN  /\ room > 0
         /\ wrote' = wrote + Least(part - wrote, room)
  /\ cli' = IF wrote' = Size THEN "reading" ELSE "writing"
  /\ UNCHANGED <<sock, call, got, result, server>>

\* Broken pipe.
WriteRequestFails ==
  /\ cli = "writing"
  /\ srv = "closed"
  /\ Return("error")
  /\ UNCHANGED <<sock, call, wrote, got, server>>

\* The whole reply is in memory before its length is looked at.
ReadReplyUnlimited ==
  /\ cli = "reading"
  /\ got < sent
  /\ got' = got + Least(Chunk, sent - got)
  /\ UNCHANGED <<cli, result>>
  /\ UNCHANGED <<sock, call, wrote, server>>

ReadReply ==
  /\ cli = "reading"
  /\ got < sent
  /\ got' = got + Least(Chunk, sent - got)
  /\ IF got' > Limit THEN Return("error") ELSE UNCHANGED <<cli, result>>
  /\ UNCHANGED <<sock, call, wrote, server>>

\* What a client that does not look at the status makes of a reply.
VerdictOfBody == IF got > 0 /\ got = ReplySize THEN "ok" ELSE "error"

\* A reply that was cut is no JSON; one that was not has a status.
Verdict == IF got = ReplySize /\ CarriedOut THEN "ok" ELSE "error"

\* The end of the stream, or a reset when the daemon closed it with some of
\* the request unread.
ReplyEnds ==
  /\ cli = "reading"
  /\ got = sent
  /\ srv = "closed"
  /\ \/ Return(Verdict)
     \/ rcvd < wrote /\ Return("error")
  /\ UNCHANGED <<sock, call, wrote, got, server>>

\* The process is killed, or its user gives up.
ClientDies ==
  /\ cli # "idle"
  /\ Return("none")
  /\ UNCHANGED <<sock, call, wrote, got, server>>

(***************************************************************************)
(* The daemon.                                                             *)
(***************************************************************************)
Accept ==
  /\ srv = "backlog"
  /\ srv' = "reading"
  /\ UNCHANGED <<sock, call, client, rcvd, outcome, sent>>

\* The end of the head, of which a chunk may have a part only, is looked for
\* in the last chunk.
ReadRequestByChunk ==
  /\ srv = "reading"
  /\ rcvd < wrote
  /\ rcvd' = rcvd + Least(Chunk, wrote - rcvd)
  /\ srv' = IF rcvd' >= call.head /\ rcvd < call.head - 1 THEN "routing"
            ELSE IF rcvd' > Limit THEN "closed" ELSE "reading"
  /\ UNCHANGED <<sock, call, client, outcome, sent>>

\* The head has ended when its end is anywhere in what was read.  A head
\* that is too long is not answered.
ReadRequest ==
  /\ srv = "reading"
  /\ rcvd < wrote
  /\ rcvd' = rcvd + Least(Chunk, wrote - rcvd)
  /\ srv' = IF rcvd' >= call.head THEN "routing"
            ELSE IF rcvd' > Limit THEN "closed" ELSE "reading"
  /\ UNCHANGED <<sock, call, client, outcome, sent>>

\* The end of the stream ends the head, too.
RequestEnds ==
  /\ srv = "reading"
  /\ rcvd = wrote
  /\ cli = "idle"
  /\ srv' = "routing"
  /\ UNCHANGED <<sock, call, client, rcvd, outcome, sent>>

\* parse_request, and the handler.  Nothing is "not found"; the body is what
\* came with the end of the head, and a cut one is no JSON; a path that was
\* cut is a path, and so is one that ends at a blank in the id.
Route ==
  /\ srv = "routing"
  /\ outcome' \in {"refused"}
       \cup (IF rcvd = Size /\ call.plain THEN {"done"} ELSE {})
       \cup (IF 0 < rcvd /\ (rcvd < call.head \/ ~call.plain) THEN {"misread"} ELSE {})
  /\ srv' = "replying"
  /\ UNCHANGED <<sock, call, client, rcvd, sent>>

\* A write that was short starts again from the beginning.
WriteReplyAgain ==
  /\ srv = "replying"
  /\ cli # "idle"
  /\ LET room == Buffer - (sent - got)
     IN  /\ room > 0
         /\ sent' = sent + Least(ReplySize, room)
  /\ srv' = IF sent' >= ReplySize THEN "closed" ELSE "replying"
  /\ UNCHANGED <<sock, call, client, rcvd, outcome>>

WriteReply ==
  /\ srv = "replying"
  /\ cli # "idle"
  /\ LET room == Buffer - (sent - got)
     IN  /\ room > 0
         /\ sent' = sent + Least(ReplySize - sent, room)
  /\ srv' = IF sent' = ReplySize THEN "closed" ELSE "replying"
  /\ UNCHANGED <<sock, call, client, rcvd, outcome>>

\* Broken pipe.  The request has been carried out all the same.
WriteReplyFails ==
  /\ srv = "replying"
  /\ cli = "idle"
  /\ srv' = "closed"
  /\ UNCHANGED <<sock, call, client, rcvd, outcome, sent>>

\* A daemon comes, and goes, whatever its tasks are doing: killed, with the
\* socket left behind, or through its signal handler, which removes it.
DaemonStarts ==
  /\ sock # "live"
  /\ sock' = "live"
  /\ UNCHANGED <<call, client, server>>

DaemonDies ==
  /\ sock = "live"
  /\ sock' \in {"absent", "stale"}
  /\ srv' = IF srv = "none" THEN "none" ELSE "closed"
  /\ UNCHANGED <<call, client, rcvd, outcome, sent>>

-----------------------------------------------------------------------------
ClientStep == Connect \/ WriteRequest \/ WriteRequestFails \/ ReadReply \/ ReplyEnds

ServerStep == Accept \/ ReadRequest \/ RequestEnds \/ Route \/ WriteReply \/ WriteReplyFails

Next ==
  \/ \E c \in Calls : Request(c)
  \/ ClientStep
  \/ ClientDies
  \/ ServerStep
  \/ DaemonStarts
  \/ DaemonDies

Spec == Init /\ [][Next]_vars

\* Both processes run, and the handler of the request returns (module Daemon
\* says when).  Nobody has to call, to die, or to start a daemon.
FairSpec == Spec /\ WF_vars(ClientStep) /\ WF_vars(ServerStep)

-----------------------------------------------------------------------------
(***************************************************************************)
(* Properties                                                              *)
(***************************************************************************)

\* Neither side keeps more of a message than the limit and a last chunk,
\* whatever the other one sends (src/ipc/client.rs:80, src/ipc/server.rs:77).
BufferBounded == rcvd <= Limit + Chunk /\ got <= Limit + Chunk

\* What keeps a request from being taken for another one, wherever it is cut: the
\* first write of the client takes all of its head.
Exact == call.plain /\ call.head <= Buffer

\* The call, as the command that makes it sees it: carried out at most once, an
\* exact one never as something else than was asked, and reported as done only
\* when something was.
Caller == INSTANCE Rpc WITH exact <- Exact
RpcSpec == Caller!Spec

\* No timeout is set, and none is needed: a call ends, with an answer or with
\* an error, for every length of head, body and reply, and when the daemon goes
\* away under it.
CallReturns == cli # "idle" ~> cli = "idle"

=============================================================================
