------------------------------ MODULE Session ------------------------------
(***************************************************************************)
(* How a command travels: man/client.c frames it, man/session.c collects   *)
(* it from as many reads as it takes and hands it to the manager, whose    *)
(* answer goes back on the same socket.                                    *)
(*                                                                         *)
(* Bytes are counted, not named.  A frame is a header, which holds the     *)
(* length of the body, and the body, written by one write().  The          *)
(* manager's thread serves one session at a time, and its sockets block:   *)
(* `reading` is the session whose body it reads or, when the body is whole,*)
(* whose command it is about to carry out.                                 *)
(***************************************************************************)
EXTENDS Naturals, Sequences

CONSTANTS
    Clients,
    NoClient,
    MaxCmdLen,  \* MAX_CMD_LEN, the size of a session's buffer
    HeaderSize, \* sizeof(uint32_t)
    Lengths,    \* the lengths of the commands that are framed: client.c stops
                \* below MaxCmdLen (126), what else connects need not
    MaxCalls    \* bound: commands per client

Quit == MaxCmdLen                       \* a length of -1: any that is not below MaxCmdLen
BodyRead == MaxCmdLen - HeaderSize - 1  \* the most one read() of a body asks for

ASSUME SizeAssumption == MaxCmdLen \in Nat /\ HeaderSize \in Nat /\ HeaderSize + 1 < MaxCmdLen
ASSUME LengthsAssumption == Lengths \subseteq 1 .. MaxCmdLen
ASSUME ClientAssumption == NoClient \notin Clients
ASSUME MaxCallsAssumption == MaxCalls \in Nat

VARIABLES
    up,        \* the manager runs
    client,    \* client[c]: "off", "ready" to send, has "sent", "gone"
    wire,      \* wire[c]: frames on their way to the manager
    replies,   \* replies[c]: answers on their way to the client
    sess,      \* sess[c]: "none", "open" or "closed"
    cmdLen,    \* cmd_len
    bytesRead, \* bytes_read
    tail,      \* buf_tail - buf
    reading,
    calls, runs, returns  \* history: commands sent, carried out and answered

vars == <<up, client, wire, replies, sess, cmdLen, bytesRead, tail, reading, calls, runs, returns>>
session == <<sess, cmdLen, bytesRead, tail, reading>>
history == <<calls, runs, returns>>

\* len: what the header says; left: bytes of the body still unread.
Frames == [len : 1 .. MaxCmdLen, left : 1 .. MaxCmdLen]

Init ==
    /\ up = TRUE
    /\ client = [c \in Clients |-> "off"]
    /\ wire = [c \in Clients |-> <<>>] /\ replies = [c \in Clients |-> 0]
    /\ sess = [c \in Clients |-> "none"]
    /\ cmdLen = [c \in Clients |-> 0] /\ bytesRead = cmdLen /\ tail = cmdLen
    /\ reading = NoClient
    /\ calls = [c \in Clients |-> 0] /\ runs = calls /\ returns = calls

----------------------------------------------------------------------------
(***************************************************************************)
(* The client                                                              *)
(***************************************************************************)
Connect(c) ==
    /\ up /\ client[c] = "off"
    /\ client' = [client EXCEPT ![c] = "ready"]
    /\ UNCHANGED <<up, wire, replies, session, history>>

\* Mutant: the length counts the header too.
FrameCountsHeader(n) == [len |-> n + HeaderSize, left |-> n]
\* Mutant: the header goes out in a write() of its own, ahead of the body.
FrameHeaderAhead(n) == [len |-> n, left |-> 0]
Frame(n) == [len |-> n, left |-> n]

\* send_cmd: header and body in one write(), then the wait for the answer.
Send(c) ==
    /\ client[c] = "ready" /\ calls[c] < MaxCalls
    /\ \E n \in Lengths : wire' = [wire EXCEPT ![c] = Append(@, Frame(n))]
    /\ client' = [client EXCEPT ![c] = "sent"]
    /\ calls' = [calls EXCEPT ![c] = @ + 1]
    /\ UNCHANGED <<up, replies, session, runs, returns>>

\* "quit" goes out with a length of -1, and the client closes its end.
SendQuit(c) ==
    /\ client[c] = "ready"
    /\ \E n \in Lengths : wire' = [wire EXCEPT ![c] = Append(@, [len |-> Quit, left |-> n])]
    /\ client' = [client EXCEPT ![c] = "gone"]
    /\ UNCHANGED <<up, replies, session, history>>

\* The answer is read: try_send then closes, the interactive client goes on.
Receive(c) ==
    /\ client[c] = "sent" /\ replies[c] > 0
    /\ replies' = [replies EXCEPT ![c] = 0]
    /\ returns' = [returns EXCEPT ![c] = @ + 1]
    /\ \E next \in {"ready", "gone"} : client' = [client EXCEPT ![c] = next]
    /\ UNCHANGED <<up, wire, session, calls, runs>>

\* The read finds the end of the stream instead: send_cmd returns -1.
ReceiveEnd(c) ==
    /\ client[c] = "sent" /\ replies[c] = 0
    /\ ~up \/ sess[c] = "closed"
    /\ client' = [client EXCEPT ![c] = "gone"]
    /\ UNCHANGED <<up, wire, replies, session, history>>

\* The user interrupts the client.
Abandon(c) ==
    /\ client[c] \in {"ready", "sent"}
    /\ client' = [client EXCEPT ![c] = "gone"]
    /\ UNCHANGED <<up, wire, replies, session, history>>

----------------------------------------------------------------------------
(***************************************************************************)
(* The manager's side                                                      *)
(***************************************************************************)
Accept(c) ==
    /\ up /\ reading = NoClient
    /\ sess[c] = "none" /\ client[c] # "off"
    /\ sess' = [sess EXCEPT ![c] = "open"]
    /\ UNCHANGED <<up, client, wire, replies, cmdLen, bytesRead, tail, reading, history>>

\* poll() marks the session: it has bytes to read or its peer is gone.
Served(c) == up /\ reading = NoClient /\ sess[c] = "open"

Close(c) == sess' = [sess EXCEPT ![c] = "closed"]

\* Nothing but the end of the stream.
SessionEnd(c) ==
    /\ Served(c) /\ wire[c] = <<>> /\ client[c] = "gone"
    /\ Close(c)
    /\ UNCHANGED <<up, client, wire, replies, cmdLen, bytesRead, tail, reading, history>>

\* The header says -1 or too much: the session is closed.
HeaderBad(c) ==
    /\ Served(c) /\ cmdLen[c] = 0 /\ wire[c] # <<>>
    /\ Head(wire[c]).len >= MaxCmdLen
    /\ cmdLen' = [cmdLen EXCEPT ![c] = Head(wire[c]).len]
    /\ wire' = [wire EXCEPT ![c] = <<>>]
    /\ Close(c)
    /\ UNCHANGED <<up, client, replies, bytesRead, tail, reading, history>>

\* Mutant: session.c 84 has > for >=.
ReadHeaderToTheLimit(c) ==
    /\ Served(c) /\ cmdLen[c] = 0 /\ wire[c] # <<>>
    /\ Head(wire[c]).len <= MaxCmdLen
    /\ cmdLen' = [cmdLen EXCEPT ![c] = Head(wire[c]).len]
    /\ bytesRead' = [bytesRead EXCEPT ![c] = 0]
    /\ reading' = c
    /\ UNCHANGED <<up, client, wire, replies, sess, tail, history>>

ReadHeader(c) ==
    /\ Served(c) /\ cmdLen[c] = 0 /\ wire[c] # <<>>
    /\ Head(wire[c]).len < MaxCmdLen
    /\ cmdLen' = [cmdLen EXCEPT ![c] = Head(wire[c]).len]
    /\ bytesRead' = [bytesRead EXCEPT ![c] = 0]
    /\ reading' = c
    /\ UNCHANGED <<up, client, wire, replies, sess, tail, history>>

\* A command that has begun goes on with the next read.
Resume(c) ==
    /\ Served(c) /\ cmdLen[c] # 0 /\ wire[c] # <<>>
    /\ reading' = c
    /\ UNCHANGED <<up, client, wire, replies, sess, cmdLen, bytesRead, tail, history>>

\* What one read() of the body brings; the wire holds one frame at most.
Chunk(c) == IF Head(wire[c]).left < BodyRead THEN Head(wire[c]).left ELSE BodyRead

Rest(c) == [len |-> Head(wire[c]).len, left |-> Head(wire[c]).left - Chunk(c)]

Drain(c) ==
    wire' = [wire EXCEPT ![c] = IF Rest(c).left = 0 THEN Tail(@) ELSE <<Rest(c)>> \o Tail(@)]

\* Mutant: whatever the first read brings is taken for the command.
WholeAtOnce(c) == bytesRead[c] > 0
Whole(c) == bytesRead[c] = cmdLen[c]

\* One read() of the body; buf_tail is left at the byte that becomes the NUL.
ReadBody(c) ==
    /\ up /\ reading = c /\ ~Whole(c) /\ wire[c] # <<>> /\ Chunk(c) > 0
    /\ Drain(c)
    /\ bytesRead' = [bytesRead EXCEPT ![c] = @ + Chunk(c)]
    /\ tail' = [tail EXCEPT ![c] = @ + Chunk(c)]
    /\ UNCHANGED <<up, client, replies, sess, cmdLen, history>>
    /\ reading' = IF Whole(c)' THEN c ELSE NoClient

\* process_command: the session is reset, the command carried out and answered.
Process(c) ==
    /\ up /\ reading = c /\ Whole(c)
    /\ cmdLen' = [cmdLen EXCEPT ![c] = 0]
    /\ tail' = [tail EXCEPT ![c] = 0]
    /\ runs' = [runs EXCEPT ![c] = @ + 1]
    /\ replies' = [replies EXCEPT ![c] = IF client[c] = "gone" THEN @ ELSE @ + 1]
    /\ reading' = NoClient
    /\ UNCHANGED <<up, client, wire, sess, bytesRead, calls, returns>>

\* The manager shuts down or dies: every connection ends.
ManagerEnds ==
    /\ up
    /\ up' = FALSE
    /\ UNCHANGED <<client, wire, replies, session, history>>

----------------------------------------------------------------------------
Receives(c) == Receive(c) \/ ReceiveEnd(c)
Serves(c) ==
    \/ Accept(c) \/ SessionEnd(c) \/ HeaderBad(c) \/ ReadHeader(c) \/ Resume(c)
    \/ ReadBody(c) \/ Process(c)

Next ==
    \/ \E c \in Clients : Connect(c) \/ Send(c) \/ SendQuit(c) \/ Receives(c) \/ Abandon(c)
                          \/ Serves(c)
    \/ ManagerEnds

\* The poll array is served in order, so no ready session is passed over; a
\* client that waits for an answer reads it.
Fairness == \A c \in Clients : SF_vars(Serves(c)) /\ WF_vars(Receives(c))

Spec == Init /\ [][Next]_vars /\ Fairness

----------------------------------------------------------------------------
\* Every variable stays in its range.
TypeOK ==
    /\ up \in BOOLEAN
    /\ client \in [Clients -> {"off", "ready", "sent", "gone"}]
    /\ wire \in [Clients -> Seq(Frames)]
    /\ replies \in [Clients -> Nat]
    /\ sess \in [Clients -> {"none", "open", "closed"}]
    /\ cmdLen \in [Clients -> 0 .. MaxCmdLen]
    /\ bytesRead \in [Clients -> Nat]
    /\ tail \in [Clients -> Nat]
    /\ reading \in Clients \union {NoClient}
    /\ calls \in [Clients -> Nat] /\ runs \in [Clients -> Nat] /\ returns \in [Clients -> Nat]

\* What the session collects fits its buffer, of MaxCmdLen bytes, with the NUL
\* that every read() puts after it at buf_tail, the completing one included
\* (session.c 84-98): each read() may ask for nearly all of the buffer, and only
\* the declared length, of a peer that sends what it declared, keeps it in there.
FitsBuffer == \A c \in Clients : tail[c] <= MaxCmdLen - 1

\* A frame is on the wire only while its client waits, so one read() of a body
\* never reaches into the next command (session.c 92 asks for more than the
\* command has left).
OneFrameAtATime ==
    \A c \in Clients : Len(wire[c]) <= 1 /\ (client[c] = "ready" => wire[c] = <<>>)

\* The manager, which looks after everything else on the same thread, never
\* blocks in the read of a body (session.c 92).
NeverWaitsForBytes ==
    \A c \in Clients :
        reading = c /\ bytesRead[c] # cmdLen[c] => wire[c] # <<>> /\ Head(wire[c]).left > 0

\* A command is carried out when all of it has come, and nothing more: buf holds
\* as many bytes as were declared, and none of them is left on the wire.
RunsWholeCommands ==
    [][\A c \in Clients : runs'[c] # runs[c] =>
          bytesRead[c] = cmdLen[c] /\ tail[c] = cmdLen[c] /\ wire[c] = <<>>]_vars

\* Session implements Rpc: exactly one execution per answered command.
Call == INSTANCE Rpc
Answers == Call!Spec

\* A client that waits for an answer gets it, or learns that there is none.
CallsReturn == \A c \in Clients : client[c] = "sent" ~> client[c] # "sent"
=============================================================================
