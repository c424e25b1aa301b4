--------------------------- MODULE SessionProofs ---------------------------
(***************************************************************************)
(* Proofs about Session, for any buffer and header size, any set of        *)
(* clients and commands of any length, those that do not fit included.     *)
(***************************************************************************)
EXTENDS Session, TLAPS

\* A session agrees with the stream it reads: before a header nothing has been
\* collected, after it what was collected and what is left add up to the length
\* that was declared, and a command that is about to be carried out is whole.
InStep(c) ==
    \/ wire[c] = <<>> /\ tail[c] = 0 /\ reading # c /\ (cmdLen[c] = 0 \/ sess[c] = "closed")
    \/ /\ wire[c] = <<>> /\ reading = c /\ cmdLen[c] < MaxCmdLen
       /\ bytesRead[c] = cmdLen[c] /\ tail[c] = cmdLen[c]
    \/ \E f \in Frames :
          /\ wire[c] = <<f>>
          /\ cmdLen[c] = 0 => tail[c] = 0 /\ (f.len < MaxCmdLen => f.left = f.len)
          /\ cmdLen[c] # 0 => /\ cmdLen[c] = f.len /\ f.len < MaxCmdLen
                              /\ bytesRead[c] + f.left = f.len /\ tail[c] = bytesRead[c]

\* A command that will be carried out if nothing breaks.
Due(c) == (wire[c] # <<>> /\ Head(wire[c]).len < MaxCmdLen) \/ reading = c

\* The client's side of the call.
CallInStep(c) ==
    /\ client[c] \in {"off", "ready"} =>
          /\ wire[c] = <<>> /\ reading # c /\ replies[c] = 0 /\ sess[c] # "closed"
          /\ calls[c] = runs[c] /\ runs[c] = returns[c]
    /\ client[c] = "off" => sess[c] = "none"
    /\ client[c] = "sent" =>
          /\ calls[c] = returns[c] + 1
          /\ \/ /\ replies[c] = 1 /\ runs[c] = calls[c]
                /\ wire[c] = <<>> /\ reading # c /\ sess[c] # "closed"
             \/ /\ replies[c] = 0 /\ runs[c] = returns[c]
                /\ wire[c] # <<>> \/ reading = c \/ sess[c] = "closed"
    /\ Due(c) => runs[c] < calls[c]

ReadingInStep(c) ==
    reading = c => /\ sess[c] = "open" /\ cmdLen[c] # 0 /\ (wire[c] # <<>> \/ Whole(c))

Inv == TypeOK /\ \A c \in Clients : InStep(c) /\ CallInStep(c) /\ ReadingInStep(c)

----------------------------------------------------------------------------
\* Sequences of at most one frame.
LEMMA OneFrame ==
    ASSUME NEW f
    PROVE  /\ Append(<<>>, f) = <<f>> /\ <<f>> \o <<>> = <<f>>
           /\ Head(<<f>>) = f /\ Tail(<<f>>) = <<>> /\ Len(<<f>>) = 1 /\ <<f>> # <<>>
OBVIOUS

LEMMA FrameType ==
    ASSUME NEW n \in Lengths
    PROVE  /\ Frame(n) \in Frames /\ Frame(n).len = n /\ Frame(n).left = n
           /\ [len |-> Quit, left |-> n] \in Frames
           /\ [len |-> Quit, left |-> n].len = MaxCmdLen
BY LengthsAssumption, SizeAssumption DEF Frame, Frames, Quit

\* One read() of a body brings n bytes of the frame f and leaves the rest.
LEMMA DrainWire ==
    ASSUME TypeOK, NEW c \in Clients, NEW f \in Frames, wire[c] = <<f>>, Drain(c),
           NEW n, n = Chunk(c)
    PROVE  /\ n \in 1 .. f.left
           /\ n = f.left => wire'[c] = <<>>
           /\ n # f.left => \E g \in Frames :
                 wire'[c] = <<g>> /\ g.len = f.len /\ g.left = f.left - n
           /\ \A d \in Clients : d # c => wire'[d] = wire[d]
           /\ wire' \in [Clients -> Seq(Frames)]
<1> DEFINE g == [len |-> f.len, left |-> f.left - n]
<1>1. Head(wire[c]) = f /\ Tail(wire[c]) = <<>> /\ <<g>> \o <<>> = <<g>>
    BY OneFrame
<1>2. n \in 1 .. f.left
    BY <1>1, SizeAssumption DEF Chunk, BodyRead, Frames
<1>3. wire' = [wire EXCEPT ![c] = IF f.left = n THEN <<>> ELSE <<g>>]
    <2>1. Rest(c) = g /\ (g.left = 0 <=> f.left = n)
        BY <1>1, <1>2 DEF Rest, Frames
    <2> QED
        BY <1>1, <2>1 DEF Drain
<1>4. n # f.left => g \in Frames /\ g.len = f.len /\ g.left = f.left - n
    <2>1. f.left \in 1 .. MaxCmdLen /\ f.len \in 1 .. MaxCmdLen /\ MaxCmdLen \in Nat
        BY SizeAssumption DEF Frames
    <2>2. n # f.left => f.left - n \in 1 .. MaxCmdLen
        BY <1>2, <2>1
    <2> QED
        BY <2>1, <2>2 DEF Frames
<1>5. wire \in [Clients -> Seq(Frames)]
    BY DEF TypeOK
<1> HIDE DEF g
<1>6. wire'[c] = IF f.left = n THEN <<>> ELSE <<g>>
    BY <1>3, <1>5
<1>7. \A d \in Clients : d # c => wire'[d] = wire[d]
    BY <1>3, <1>5
<1>8. wire' \in [Clients -> Seq(Frames)]
    BY <1>3, <1>4, <1>5
<1> QED
    BY <1>2, <1>4, <1>6, <1>7, <1>8

\* A client that a step does not concern keeps its invariant.
Same(d) ==
    /\ client'[d] = client[d] /\ wire'[d] = wire[d] /\ replies'[d] = replies[d]
    /\ sess'[d] = sess[d] /\ cmdLen'[d] = cmdLen[d] /\ bytesRead'[d] = bytesRead[d]
    /\ tail'[d] = tail[d] /\ calls'[d] = calls[d] /\ runs'[d] = runs[d]
    /\ returns'[d] = returns[d] /\ (reading' = d <=> reading = d)

LEMMA Bystander ==
    ASSUME Inv, NEW d \in Clients, Same(d)
    PROVE  InStep(d)' /\ CallInStep(d)' /\ ReadingInStep(d)'
<1>1. InStep(d) /\ CallInStep(d) /\ ReadingInStep(d)
    BY DEF Inv
<1>2. InStep(d)'
    BY <1>1 DEF Same, InStep
<1>3. CallInStep(d)'
    BY <1>1 DEF Same, CallInStep, Due
<1>4. ReadingInStep(d)'
    BY <1>1 DEF Same, ReadingInStep, Whole
<1> QED
    BY <1>2, <1>3, <1>4

\* A step that concerns c alone.
LEMMA OneClient ==
    ASSUME Inv, NEW c \in Clients, TypeOK', InStep(c)', CallInStep(c)', ReadingInStep(c)',
           \A d \in Clients \ {c} : Same(d)
    PROVE  Inv'
BY Bystander DEF Inv

LEMMA InvInit == Init => Inv
<1> SUFFICES ASSUME Init
             PROVE  Inv
    OBVIOUS
<1>1. TypeOK
    BY SizeAssumption DEF Init, TypeOK
<1>2. ASSUME NEW c \in Clients
      PROVE  InStep(c) /\ CallInStep(c) /\ ReadingInStep(c)
    BY ClientAssumption DEF Init, InStep, CallInStep, ReadingInStep, Due
<1> QED
    BY <1>1, <1>2 DEF Inv

\* A function changed at one client.
LEMMA Update ==
    ASSUME NEW S, NEW f \in [Clients -> S], NEW c \in Clients, NEW x \in S
    PROVE  /\ [f EXCEPT ![c] = x] \in [Clients -> S] /\ [f EXCEPT ![c] = x][c] = x
           /\ \A d \in Clients : d # c => [f EXCEPT ![c] = x][d] = f[d]
OBVIOUS

LEMMA Counter ==
    ASSUME NEW f \in [Clients -> Nat], NEW c \in Clients
    PROVE  [f EXCEPT ![c] = @ + 1] = [f EXCEPT ![c] = f[c] + 1] /\ f[c] + 1 \in Nat
OBVIOUS

\* Sending: the wire was empty, and holds the new frame alone.
LEMMA SendStep ==
    ASSUME Inv, NEW c \in Clients, Send(c) \/ SendQuit(c)
    PROVE  Inv'
<1> DEFINE Full(f) == wire' = [wire EXCEPT ![c] = <<f>>]
<1>0. TypeOK /\ InStep(c) /\ CallInStep(c) /\ ReadingInStep(c)
    BY DEF Inv
<1>1. wire[c] = <<>> /\ client[c] = "ready" /\ reading # c
    BY <1>0 DEF Send, SendQuit, CallInStep
<1>2. /\ replies[c] = 0 /\ calls[c] = runs[c] /\ runs[c] = returns[c]
      /\ cmdLen[c] = 0 /\ tail[c] = 0 /\ sess[c] # "closed" /\ calls[c] \in Nat
    BY <1>0, <1>1 DEF CallInStep, InStep, TypeOK
<1>3. /\ UNCHANGED session /\ UNCHANGED <<up, replies, runs, returns>>
    BY Zenon DEF Send, SendQuit, history
<1>4. Send(c) => /\ client' = [client EXCEPT ![c] = "sent"]
                 /\ calls' = [calls EXCEPT ![c] = calls[c] + 1]
    BY <1>0, Counter DEF Send, TypeOK
<1>5. SendQuit(c) => client' = [client EXCEPT ![c] = "gone"] /\ calls' = calls
    BY Zenon DEF SendQuit, history
<1>6. client' \in [Clients -> {"off", "ready", "sent", "gone"}] /\ calls' \in [Clients -> Nat]
    <2>1. client \in [Clients -> {"off", "ready", "sent", "gone"}] /\ calls \in [Clients -> Nat]
        BY <1>0, Zenon DEF TypeOK
    <2>2. calls[c] + 1 \in Nat
        BY <1>2
    <2>3. CASE Send(c)
        BY <1>4, <2>1, <2>2, <2>3
    <2>4. CASE SendQuit(c)
        BY <1>5, <2>1, <2>4
    <2> QED
        BY <2>3, <2>4
<1>7. \E f \in Frames :
         /\ Full(f) /\ f.left \in Nat
         /\ Send(c) => f.left = f.len /\ client'[c] = "sent"
                       /\ calls'[c] = calls[c] + 1
         /\ SendQuit(c) => f.len = MaxCmdLen /\ client'[c] = "gone" /\ calls'[c] = calls[c]
    <2>1. CASE Send(c)
        <3>1. PICK n \in Lengths : wire' = [wire EXCEPT ![c] = Append(@, Frame(n))]
            BY <2>1 DEF Send
        <3>2. Full(Frame(n))
            BY <1>0, <1>1, <3>1, OneFrame DEF TypeOK
        <3>3. client'[c] = "sent" /\ calls'[c] = calls[c] + 1 /\ client[c] = "ready"
            BY <1>0, <1>1, <1>4, <2>1 DEF TypeOK
        <3>4. ~SendQuit(c)
            BY <1>0, <1>5, <3>3 DEF TypeOK
        <3>5. Frame(n).left \in Nat
            BY LengthsAssumption, SizeAssumption DEF Frame
        <3> HIDE DEF Full
        <3> QED
            BY <3>2, <3>3, <3>4, <3>5, FrameType
    <2>2. CASE SendQuit(c)
        <3>1. PICK n \in Lengths :
                 wire' = [wire EXCEPT ![c] = Append(@, [len |-> Quit, left |-> n])]
            BY <2>2 DEF SendQuit
        <3>2. Full([len |-> Quit, left |-> n])
            BY <1>0, <1>1, <3>1, OneFrame DEF TypeOK
        <3>3. client'[c] = "gone" /\ calls'[c] = calls[c]
            BY <1>0, <1>5, <2>2 DEF TypeOK
        <3>4. ~Send(c)
            BY <1>0, <1>4, <3>3 DEF TypeOK
        <3>5. [len |-> Quit, left |-> n].left \in Nat
            BY LengthsAssumption, SizeAssumption
        <3> HIDE DEF Full
        <3> QED
            BY <3>2, <3>3, <3>4, <3>5, FrameType
    <2> QED
        BY <2>1, <2>2
<1>8. PICK f \in Frames :
         /\ Full(f) /\ f.left \in Nat
         /\ Send(c) => f.left = f.len /\ client'[c] = "sent"
                       /\ calls'[c] = calls[c] + 1
         /\ SendQuit(c) => f.len = MaxCmdLen /\ client'[c] = "gone" /\ calls'[c] = calls[c]
    BY <1>7, Zenon
<1>9. wire' \in [Clients -> Seq(Frames)] /\ wire'[c] = <<f>>
    BY <1>0, <1>8 DEF TypeOK
<1>10. TypeOK'
    BY <1>0, <1>3, <1>6, <1>9, Zenon DEF TypeOK, session
<1>11. InStep(c)' /\ ReadingInStep(c)'
    <2>1. f.len < MaxCmdLen => f.left = f.len
        BY <1>8, SizeAssumption
    <2>2. cmdLen'[c] = 0 /\ tail'[c] = 0 /\ reading' # c
        BY <1>1, <1>2, <1>3 DEF session
    <2> QED
        BY <1>9, <2>1, <2>2, Zenon DEF InStep, ReadingInStep
<1>12. CallInStep(c)'
    <2>1. Head(wire'[c]) = f /\ wire'[c] # <<>>
        BY <1>9, OneFrame
    <2>2. replies'[c] = 0 /\ runs'[c] = runs[c] /\ returns'[c] = returns[c] /\ sess'[c] = sess[c]
        BY <1>2, <1>3 DEF session
    <2>5. reading' # c
        BY <1>1, <1>3 DEF session
    <2>3. CASE Send(c)
        BY <1>2, <1>8, <2>1, <2>2, <2>3, <2>5 DEF CallInStep, Due
    <2>4. CASE SendQuit(c)
        BY <1>2, <1>8, <2>1, <2>2, <2>4, <2>5, SizeAssumption DEF CallInStep, Due
    <2> QED
        BY <2>3, <2>4
<1>13. \A d \in Clients \ {c} : Same(d)
    BY <1>0, <1>3, <1>4, <1>5, <1>8 DEF TypeOK, Same, session
<1> QED
    BY <1>10, <1>11, <1>12, <1>13, OneClient

\* The other steps of a client leave the wire and the session alone.
LEMMA ClientStep ==
    ASSUME Inv, NEW c \in Clients, Connect(c) \/ Receives(c) \/ Abandon(c)
    PROVE  Inv'
<1>0. TypeOK /\ InStep(c) /\ CallInStep(c) /\ ReadingInStep(c)
    BY DEF Inv
<1>1. UNCHANGED <<up, wire, calls, runs>> /\ UNCHANGED session
    BY Zenon DEF Connect, Receives, Receive, ReceiveEnd, Abandon, history
<1>2. \/ Receive(c)
      \/ client'[c] = "gone" /\ client[c] # "off" /\ replies' = replies /\ returns' = returns
      \/ client'[c] = "ready" /\ client[c] = "off" /\ replies' = replies /\ returns' = returns
    BY <1>0 DEF TypeOK, Connect, Receives, ReceiveEnd, Abandon, history
<1>3. Receive(c) => /\ client[c] = "sent" /\ client'[c] \in {"ready", "gone"}
                    /\ replies'[c] = 0 /\ returns'[c] = returns[c] + 1 /\ replies[c] # 0
    BY <1>0 DEF TypeOK, Receive
<1>4. /\ client' \in [Clients -> {"off", "ready", "sent", "gone"}]
      /\ \A d \in Clients : d # c => client'[d] = client[d]
    BY <1>0 DEF TypeOK, Connect, Receives, Receive, ReceiveEnd, Abandon
<1>5. /\ replies' \in [Clients -> Nat] /\ returns' \in [Clients -> Nat]
      /\ \A d \in Clients : d # c => replies'[d] = replies[d] /\ returns'[d] = returns[d]
    <2>1. CASE Receive(c)
        <3>1. replies' = [replies EXCEPT ![c] = 0] /\ returns' = [returns EXCEPT ![c] = @ + 1]
            BY <2>1, Zenon DEF Receive
        <3>2. replies \in [Clients -> Nat] /\ returns \in [Clients -> Nat]
            BY <1>0, Zenon DEF TypeOK
        <3> QED
            BY <3>1, <3>2
    <2>2. CASE replies' = replies /\ returns' = returns
        BY <1>0, <2>2, Zenon DEF TypeOK
    <2> QED
        BY <1>2, <2>1, <2>2
<1>6. TypeOK'
    BY <1>0, <1>1, <1>4, <1>5, Zenon DEF TypeOK, session
<1>7. InStep(c)' /\ ReadingInStep(c)'
    BY <1>0, <1>1, Zenon DEF InStep, ReadingInStep, Whole, session
<1>8. CallInStep(c)'
    <2>1. calls[c] \in Nat /\ returns[c] \in Nat /\ runs[c] \in Nat
        BY <1>0 DEF TypeOK
    <2>2. /\ wire'[c] = wire[c] /\ calls'[c] = calls[c] /\ runs'[c] = runs[c]
          /\ sess'[c] = sess[c] /\ reading' = reading
        BY <1>1 DEF session
    <2>3. CASE Receive(c)
        BY <1>0, <1>3, <2>1, <2>2, <2>3 DEF CallInStep, Due
    <2>4. CASE client'[c] = "gone" /\ client[c] # "off" /\ replies' = replies
               /\ returns' = returns
        BY <1>0, <2>1, <2>2, <2>4 DEF CallInStep, Due
    <2>5. CASE client'[c] = "ready" /\ client[c] = "off" /\ replies' = replies
               /\ returns' = returns
        BY <1>0, <2>1, <2>2, <2>5 DEF CallInStep, Due
    <2> QED
        BY <1>2, <2>3, <2>4, <2>5
<1>9. \A d \in Clients \ {c} : Same(d)
    BY <1>1, <1>4, <1>5, Zenon DEF Same, session
<1> QED
    BY <1>6, <1>7, <1>8, <1>9, OneClient

\* The manager takes a connection, or begins or goes on to read a command.
LEMMA OpenStep ==
    ASSUME Inv, NEW c \in Clients, Accept(c) \/ ReadHeader(c) \/ Resume(c)
    PROVE  Inv'
<1>0. TypeOK /\ InStep(c) /\ CallInStep(c) /\ ReadingInStep(c)
    BY DEF Inv
<1>1. UNCHANGED <<up, client, wire, replies, tail>> /\ UNCHANGED history
    BY Zenon DEF Accept, ReadHeader, Resume
<1>2. CASE Accept(c)
    <2>1. /\ sess[c] = "none" /\ reading' = NoClient /\ cmdLen' = cmdLen
          /\ bytesRead' = bytesRead /\ sess' = [sess EXCEPT ![c] = "open"]
        BY <1>2, Zenon DEF Accept
    <2>2. /\ sess' \in [Clients -> {"none", "open", "closed"}] /\ sess'[c] = "open"
          /\ \A d \in Clients : d # c => sess'[d] = sess[d]
        BY <1>0, <2>1 DEF TypeOK
    <2>3. client[c] # "off" /\ reading = NoClient
        BY <1>2 DEF Accept
    <2>4. TypeOK'
        BY <1>0, <1>1, <2>1, <2>2, Zenon DEF TypeOK, history
    <2>5. InStep(c)' /\ ReadingInStep(c)' /\ CallInStep(c)'
        BY <1>0, <1>1, <2>1, <2>2, <2>3, ClientAssumption
           DEF InStep, ReadingInStep, CallInStep, Due, history
    <2>6. \A d \in Clients \ {c} : Same(d)
        BY <1>1, <2>1, <2>2, <2>3, ClientAssumption DEF Same, history
    <2> QED
        BY <2>4, <2>5, <2>6, OneClient
<1>3. CASE ReadHeader(c)
    <2>1. /\ sess[c] = "open" /\ cmdLen[c] = 0 /\ wire[c] # <<>> /\ sess' = sess
          /\ Head(wire[c]).len < MaxCmdLen /\ reading' = c
          /\ cmdLen' = [cmdLen EXCEPT ![c] = Head(wire[c]).len]
          /\ bytesRead' = [bytesRead EXCEPT ![c] = 0] /\ reading = NoClient
        BY <1>3 DEF ReadHeader, Served
    <2>2. PICK f \in Frames : wire[c] = <<f>> /\ f.left = f.len /\ tail[c] = 0
        BY <1>0, <2>1, OneFrame, ClientAssumption DEF InStep
    <2>3. f.len \in 1 .. MaxCmdLen /\ f.len < MaxCmdLen /\ Head(wire[c]) = f
        BY <2>1, <2>2, OneFrame DEF Frames
    <2>4. /\ cmdLen' \in [Clients -> 0 .. MaxCmdLen] /\ cmdLen'[c] = f.len
          /\ \A d \in Clients : d # c => cmdLen'[d] = cmdLen[d]
        BY <1>0, <2>1, <2>3, SizeAssumption DEF TypeOK
    <2>5. /\ bytesRead' \in [Clients -> Nat] /\ bytesRead'[c] = 0
          /\ \A d \in Clients : d # c => bytesRead'[d] = bytesRead[d]
        BY <1>0, <2>1 DEF TypeOK
    <2>6. TypeOK'
        BY <1>0, <1>1, <2>1, <2>4, <2>5, Zenon DEF TypeOK, history
    <2>7. InStep(c)'
        BY <1>1, <2>2, <2>3, <2>4, <2>5 DEF InStep
    <2>8. ReadingInStep(c)' /\ CallInStep(c)'
        BY <1>0, <1>1, <2>1, <2>3, <2>4 DEF ReadingInStep, CallInStep, Due, history
    <2>9. \A d \in Clients \ {c} : Same(d)
        BY <1>1, <2>1, <2>4, <2>5, ClientAssumption DEF Same, history
    <2> QED
        BY <2>6, <2>7, <2>8, <2>9, OneClient
<1>4. CASE Resume(c)
    <2>1. /\ sess[c] = "open" /\ cmdLen[c] # 0 /\ wire[c] # <<>> /\ reading' = c
          /\ reading = NoClient /\ sess' = sess /\ cmdLen' = cmdLen /\ bytesRead' = bytesRead
        BY <1>4 DEF Resume, Served
    <2>2. TypeOK'
        BY <1>0, <1>1, <2>1, Zenon DEF TypeOK, history
    <2>3. InStep(c)' /\ ReadingInStep(c)'
        BY <1>0, <1>1, <2>1, ClientAssumption DEF InStep, ReadingInStep
    <2>5. CallInStep(c)'
        <3>1. PICK f \in Frames : wire[c] = <<f>> /\ f.len < MaxCmdLen
            BY <1>0, <2>1, ClientAssumption DEF InStep
        <3>2. Due(c)
            BY <2>1, <3>1, OneFrame DEF Due
        <3>3. UNCHANGED <<client, wire, replies, calls, runs, returns, sess>>
            BY <1>1, <2>1 DEF history
        <3> QED
            BY <1>0, <2>1, <3>2, <3>3 DEF CallInStep
    <2>4. \A d \in Clients \ {c} : Same(d)
        BY <1>1, <2>1, ClientAssumption DEF Same, history
    <2> QED
        BY <2>2, <2>3, <2>4, <2>5, OneClient
<1> QED
    BY <1>2, <1>3, <1>4

\* The manager closes a connection: its client has left, or waits for the
\* answer to a command that is too long.
LEMMA CloseStep ==
    ASSUME Inv, NEW c \in Clients, SessionEnd(c) \/ HeaderBad(c)
    PROVE  Inv'
<1>0. TypeOK /\ InStep(c) /\ CallInStep(c) /\ ReadingInStep(c)
    BY DEF Inv
<1>1. /\ UNCHANGED <<up, client, replies, bytesRead, tail, reading>> /\ UNCHANGED history
      /\ reading = NoClient /\ sess[c] = "open"
    BY Zenon DEF SessionEnd, HeaderBad, Served
<1>2. /\ client[c] \in {"sent", "gone"} /\ tail[c] = 0
      /\ client[c] = "sent" => /\ calls[c] = returns[c] + 1 /\ replies[c] = 0
                               /\ runs[c] = returns[c]
    <2>1. CASE SessionEnd(c)
        <3>1. wire[c] = <<>> /\ client[c] = "gone" /\ reading # c
            BY <1>1, <2>1, ClientAssumption DEF SessionEnd
        <3>2. \A f : wire[c] # <<f>>
            BY <3>1, OneFrame
        <3> QED
            BY <1>0, <3>1, <3>2, Zenon DEF InStep
    <2>2. CASE HeaderBad(c)
        <3>1. PICK f \in Frames : wire[c] = <<f>> /\ tail[c] = 0
            BY <1>0, <1>1, <2>2, ClientAssumption DEF HeaderBad, InStep
        <3>2. f.len \in Nat /\ f.len >= MaxCmdLen /\ Head(wire[c]) = f /\ wire[c] # <<>>
            BY <2>2, <3>1, OneFrame, SizeAssumption DEF HeaderBad, Frames
        <3>4. client[c] \in {"off", "ready", "sent", "gone"}
            BY <1>0 DEF TypeOK
        <3> QED
            BY <1>0, <1>1, <3>1, <3>2, <3>4, ClientAssumption DEF CallInStep
    <2> QED
        BY <2>1, <2>2
<1>3. /\ wire' \in [Clients -> Seq(Frames)] /\ wire'[c] = <<>>
      /\ \A d \in Clients : d # c => wire'[d] = wire[d]
    <2>1. wire \in [Clients -> Seq(Frames)] /\ <<>> \in Seq(Frames)
        BY <1>0 DEF TypeOK
    <2>2. wire' = [wire EXCEPT ![c] = <<>>] \/ (wire' = wire /\ wire[c] = <<>>)
        BY Zenon DEF SessionEnd, HeaderBad
    <2> QED
        BY <2>1, <2>2
<1>4. /\ cmdLen' \in [Clients -> 0 .. MaxCmdLen]
      /\ \A d \in Clients : d # c => cmdLen'[d] = cmdLen[d]
    <2>1. CASE SessionEnd(c)
        BY <1>0, <2>1 DEF TypeOK, SessionEnd
    <2>2. CASE HeaderBad(c)
        <3>1. PICK f \in Frames : wire[c] = <<f>>
            BY <1>0, <1>1, <2>2, ClientAssumption DEF HeaderBad, InStep
        <3>2. Head(wire[c]).len \in 0 .. MaxCmdLen
            BY <3>1, OneFrame, SizeAssumption DEF Frames
        <3>3. cmdLen' = [cmdLen EXCEPT ![c] = Head(wire[c]).len]
              /\ cmdLen \in [Clients -> 0 .. MaxCmdLen]
            BY <1>0, <2>2, Zenon DEF HeaderBad, TypeOK
        <3> QED
            BY <3>2, <3>3
    <2> QED
        BY <2>1, <2>2
<1>5. /\ sess' \in [Clients -> {"none", "open", "closed"}] /\ sess'[c] = "closed"
      /\ \A d \in Clients : d # c => sess'[d] = sess[d]
    BY <1>0 DEF TypeOK, SessionEnd, HeaderBad, Close
<1>6. TypeOK'
    BY <1>0, <1>1, <1>3, <1>4, <1>5, Zenon DEF TypeOK, history
<1>7. InStep(c)' /\ ReadingInStep(c)' /\ CallInStep(c)'
    BY <1>1, <1>2, <1>3, <1>5, ClientAssumption DEF InStep, ReadingInStep, CallInStep, Due, history
<1>8. \A d \in Clients \ {c} : Same(d)
    BY <1>1, <1>3, <1>4, <1>5 DEF Same, history
<1> QED
    BY <1>6, <1>7, <1>8, OneClient

\* What is known when the manager reads from the body of c's command.
LEMMA BodyState ==
    ASSUME Inv, NEW c \in Clients, reading = c, ~Whole(c)
    PROVE  \E f \in Frames :
              /\ wire[c] = <<f>> /\ Head(wire[c]) = f /\ wire[c] # <<>>
              /\ cmdLen[c] = f.len /\ f.len < MaxCmdLen /\ f.len \in Nat /\ f.left \in 1 .. f.len
              /\ bytesRead[c] \in Nat /\ bytesRead[c] + f.left = f.len /\ tail[c] = bytesRead[c]
              /\ sess[c] = "open"
<1>1. TypeOK /\ InStep(c) /\ sess[c] = "open" /\ cmdLen[c] # 0 /\ wire[c] # <<>>
    BY DEF Inv, ReadingInStep
<1>2. PICK f \in Frames :
         /\ wire[c] = <<f>> /\ cmdLen[c] = f.len /\ f.len < MaxCmdLen
         /\ bytesRead[c] + f.left = f.len /\ tail[c] = bytesRead[c]
    BY <1>1 DEF InStep
<1>3. bytesRead[c] \in Nat
    BY <1>1 DEF TypeOK
<1>4. f.len \in 1 .. MaxCmdLen /\ f.left \in 1 .. MaxCmdLen /\ MaxCmdLen \in Nat
    BY SizeAssumption DEF Frames
<1>5. f.left \in 1 .. f.len /\ f.len \in Nat
    BY <1>2, <1>3, <1>4
<1> QED
    BY <1>1, <1>2, <1>3, <1>5, OneFrame

\* One read() of a body: either more is to come, or the command is whole.
LEMMA BodyStep ==
    ASSUME Inv, NEW c \in Clients, ReadBody(c)
    PROVE  Inv'
<1>0. TypeOK /\ InStep(c) /\ CallInStep(c) /\ ReadingInStep(c)
    BY DEF Inv
<1> DEFINE n == Chunk(c)
<1>1. /\ UNCHANGED <<up, client, replies, sess, cmdLen>> /\ UNCHANGED history
      /\ reading = c /\ ~Whole(c) /\ Drain(c)
      /\ reading' = IF Whole(c)' THEN c ELSE NoClient
      /\ bytesRead' = [bytesRead EXCEPT ![c] = @ + n] /\ tail' = [tail EXCEPT ![c] = @ + n]
    BY Zenon DEF ReadBody
<1>2. PICK f \in Frames :
              /\ wire[c] = <<f>> /\ Head(wire[c]) = f /\ wire[c] # <<>>
              /\ cmdLen[c] = f.len /\ f.len < MaxCmdLen /\ f.len \in Nat /\ f.left \in 1 .. f.len
              /\ bytesRead[c] \in Nat /\ bytesRead[c] + f.left = f.len /\ tail[c] = bytesRead[c]
              /\ sess[c] = "open"
    BY <1>1, BodyState
<1> HIDE DEF n
<1>3. /\ n \in 1 .. f.left /\ (n = f.left => wire'[c] = <<>>)
      /\ n # f.left => \E g \in Frames : wire'[c] = <<g>> /\ g.len = f.len /\ g.left = f.left - n
      /\ \A d \in Clients : d # c => wire'[d] = wire[d]
      /\ wire' \in [Clients -> Seq(Frames)]
    BY <1>0, <1>1, <1>2, DrainWire DEF n
<1>4. n \in Nat
    BY <1>2, <1>3
<1>6. /\ bytesRead' \in [Clients -> Nat] /\ bytesRead'[c] = bytesRead[c] + n
      /\ \A d \in Clients : d # c => bytesRead'[d] = bytesRead[d]
    <2>1. bytesRead \in [Clients -> Nat]
        BY <1>0, Zenon DEF TypeOK
    <2> QED
        BY <1>1, <1>4, <2>1
<1>7. /\ tail' \in [Clients -> Nat] /\ tail'[c] = tail[c] + n
      /\ \A d \in Clients : d # c => tail'[d] = tail[d]
    <2>1. tail \in [Clients -> Nat]
        BY <1>0, Zenon DEF TypeOK
    <2> QED
        BY <1>1, <1>4, <2>1
<1>8. reading' \in {c, NoClient} /\ (reading' = c <=> n = f.left)
    <2>1. Whole(c)' <=> bytesRead[c] + n = f.len
        BY <1>1, <1>2, <1>6 DEF Whole
    <2>2. Whole(c)' <=> n = f.left
        BY <1>2, <1>3, <1>4, <2>1
    <2> QED
        BY <1>1, <2>2, ClientAssumption
<1>9. TypeOK'
    BY <1>0, <1>1, <1>3, <1>6, <1>7, <1>8, Zenon DEF TypeOK, history
<1>10. \A d \in Clients \ {c} : Same(d)
    BY <1>1, <1>3, <1>6, <1>7, <1>8, ClientAssumption DEF Same, history
<1>11. runs[c] < calls[c] /\ client[c] \notin {"off", "ready"}
    BY <1>0, <1>1 DEF CallInStep, Due
<1>12. CASE n = f.left
    <2>1. wire'[c] = <<>> /\ reading' = c
        BY <1>3, <1>8, <1>12
    <2>2. bytesRead'[c] = cmdLen'[c] /\ tail'[c] = cmdLen'[c] /\ cmdLen'[c] < MaxCmdLen
        BY <1>1, <1>2, <1>6, <1>7, <1>12
    <2>3. InStep(c)' /\ ReadingInStep(c)'
        BY <1>0, <1>1, <2>1, <2>2 DEF InStep, ReadingInStep, Whole
    <2>4. CallInStep(c)'
        BY <1>0, <1>1, <1>11, <2>1 DEF CallInStep, Due, history
    <2> QED
        BY <1>9, <1>10, <2>3, <2>4, OneClient
<1>13. CASE n # f.left
    <2>1. PICK g \in Frames : wire'[c] = <<g>> /\ g.len = f.len /\ g.left = f.left - n
        BY <1>3, <1>13
    <2>2. reading' # c
        BY <1>8, <1>13
    <2>3. g.len < MaxCmdLen /\ cmdLen'[c] = g.len /\ cmdLen'[c] # 0
        BY <1>0, <1>1, <1>2, <2>1 DEF ReadingInStep
    <2>4. bytesRead'[c] + g.left = g.len /\ tail'[c] = bytesRead'[c]
        BY <1>2, <1>3, <1>6, <1>7, <2>1
    <2>5. InStep(c)' /\ ReadingInStep(c)'
        BY <2>1, <2>2, <2>3, <2>4 DEF InStep, ReadingInStep
    <2>6. Head(wire'[c]) = g /\ wire'[c] # <<>>
        BY <2>1, OneFrame
    <2>7. CallInStep(c)'
        BY <1>0, <1>1, <1>11, <2>2, <2>6 DEF CallInStep, history
    <2> QED
        BY <1>9, <1>10, <2>5, <2>7, OneClient
<1> QED
    BY <1>12, <1>13

\* What is known when a command is about to be carried out.
LEMMA WholeState ==
    ASSUME Inv, NEW c \in Clients, reading = c, Whole(c)
    PROVE  /\ wire[c] = <<>> /\ bytesRead[c] = cmdLen[c] /\ tail[c] = cmdLen[c]
           /\ sess[c] = "open" /\ runs[c] < calls[c]
<1>1. /\ TypeOK /\ InStep(c) /\ sess[c] = "open" /\ cmdLen[c] # 0 /\ CallInStep(c)
      /\ bytesRead[c] = cmdLen[c]
    BY DEF Inv, ReadingInStep, Whole
<1>2. ~ \E f \in Frames : bytesRead[c] + f.left = f.len /\ cmdLen[c] = f.len
    <2> SUFFICES ASSUME NEW f \in Frames, bytesRead[c] + f.left = f.len, cmdLen[c] = f.len
                 PROVE  FALSE
        OBVIOUS
    <2>1. f.left \in 1 .. MaxCmdLen /\ bytesRead[c] \in Nat
        BY <1>1 DEF Frames, TypeOK
    <2> QED
        BY <1>1, <2>1, SizeAssumption
<1>3. wire[c] = <<>> /\ tail[c] = cmdLen[c]
    BY <1>1, <1>2 DEF InStep
<1> QED
    BY <1>1, <1>3 DEF CallInStep, Due

\* process_command.
LEMMA ProcessStep ==
    ASSUME Inv, NEW c \in Clients, Process(c)
    PROVE  Inv'
<1>0. TypeOK /\ InStep(c) /\ CallInStep(c) /\ ReadingInStep(c)
    BY DEF Inv
<1>1. /\ UNCHANGED <<up, client, wire, sess, bytesRead, calls, returns>>
      /\ reading = c /\ reading' = NoClient /\ Whole(c)
      /\ tail' = [tail EXCEPT ![c] = 0]
      /\ cmdLen' = [cmdLen EXCEPT ![c] = 0] /\ runs' = [runs EXCEPT ![c] = @ + 1]
      /\ replies' = [replies EXCEPT ![c] = IF client[c] = "gone" THEN @ ELSE @ + 1]
    BY Zenon DEF Process
<1>2. wire[c] = <<>> /\ sess[c] = "open" /\ runs[c] < calls[c]
    BY <1>1, WholeState
<1>6. /\ tail' \in [Clients -> Nat] /\ tail'[c] = 0
      /\ \A d \in Clients : d # c => tail'[d] = tail[d]
    BY <1>0, <1>1 DEF TypeOK
<1>7. /\ cmdLen' \in [Clients -> 0 .. MaxCmdLen] /\ cmdLen'[c] = 0
      /\ \A d \in Clients : d # c => cmdLen'[d] = cmdLen[d]
    BY <1>0, <1>1, SizeAssumption DEF TypeOK
<1>8. /\ runs' \in [Clients -> Nat] /\ runs'[c] = runs[c] + 1 /\ runs[c] \in Nat
      /\ \A d \in Clients : d # c => runs'[d] = runs[d]
    <2>1. runs \in [Clients -> Nat]
        BY <1>0, Zenon DEF TypeOK
    <2> QED
        BY <1>1, <2>1
<1>9. /\ replies' \in [Clients -> Nat] /\ replies[c] \in Nat
      /\ client[c] # "gone" => replies'[c] = replies[c] + 1
      /\ \A d \in Clients : d # c => replies'[d] = replies[d]
    <2>1. replies \in [Clients -> Nat]
        BY <1>0, Zenon DEF TypeOK
    <2>2. CASE client[c] = "gone"
        BY <1>1, <2>1, <2>2
    <2>3. CASE client[c] # "gone"
        BY <1>1, <2>1, <2>3
    <2> QED
        BY <2>2, <2>3
<1>11. TypeOK'
    BY <1>0, <1>1, <1>6, <1>7, <1>8, <1>9, Zenon DEF TypeOK
<1>12. InStep(c)' /\ ReadingInStep(c)'
    BY <1>1, <1>2, <1>6, <1>7, ClientAssumption DEF InStep, ReadingInStep
<1>13. CallInStep(c)'
    <2>1. calls[c] \in Nat /\ returns[c] \in Nat /\ client[c] \notin {"off", "ready"}
        BY <1>0, <1>1 DEF TypeOK, CallInStep
    <2>2. client[c] = "sent" => replies'[c] = 1 /\ runs'[c] = calls[c] /\ calls[c] = returns[c] + 1
        BY <1>0, <1>1, <1>8, <1>9, <2>1 DEF CallInStep
    <2>3. wire'[c] = <<>> /\ reading' # c /\ sess'[c] # "closed"
        BY <1>1, <1>2, ClientAssumption
    <2> QED
        BY <1>1, <2>1, <2>2, <2>3 DEF CallInStep, Due
<1>14. \A d \in Clients \ {c} : Same(d)
    BY <1>1, <1>6, <1>7, <1>8, <1>9, ClientAssumption DEF Same
<1> QED
    BY <1>11, <1>12, <1>13, <1>14, OneClient

LEMMA InvStep == Inv /\ [Next]_vars => Inv'
<1> SUFFICES ASSUME Inv, [Next]_vars
             PROVE  Inv'
    OBVIOUS
<1>1. ASSUME NEW c \in Clients, Serves(c)
      PROVE  Inv'
    BY <1>1, OpenStep, CloseStep, BodyStep, ProcessStep DEF Serves
<1>2. ASSUME NEW c \in Clients,
             Connect(c) \/ Send(c) \/ SendQuit(c) \/ Receives(c) \/ Abandon(c)
      PROVE  Inv'
    BY <1>2, ClientStep, SendStep
<1>3. CASE ManagerEnds
    <2>1. up' = FALSE /\ UNCHANGED <<client, wire, replies, session, history>>
        BY <1>3, Zenon DEF ManagerEnds
    <2>2. TypeOK'
        BY <2>1, Zenon DEF Inv, TypeOK, session, history
    <2>3. \A d \in Clients : Same(d)
        BY <2>1, Zenon DEF Same, session, history
    <2> QED
        BY <2>2, <2>3, Bystander DEF Inv
<1>4. CASE UNCHANGED vars
    <2>1. TypeOK'
        BY <1>4, Zenon DEF vars, Inv, TypeOK, session, history
    <2>2. \A d \in Clients : Same(d)
        BY <1>4, Zenon DEF vars, Same, session, history
    <2> QED
        BY <2>1, <2>2, Bystander DEF Inv
<1> QED
    BY <1>1, <1>2, <1>3, <1>4 DEF Next

LEMMA Invariance == Spec => []Inv
BY InvInit, InvStep, PTL DEF Spec

----------------------------------------------------------------------------
\* Neither the bytes of a command nor the NUL after them are ever written past
\* the end of a session's buffer, whatever its size, however many reads a command
\* takes and however long it is declared to be.
THEOREM BufferFits == Spec => []FitsBuffer
<1>1. ASSUME Inv
      PROVE  FitsBuffer
    <2> SUFFICES ASSUME NEW c \in Clients
                 PROVE  tail[c] <= MaxCmdLen - 1
        BY DEF FitsBuffer
    <2>1. InStep(c) /\ TypeOK
        BY <1>1 DEF Inv
    <2>2. CASE tail[c] = 0
        BY <2>2, SizeAssumption
    <2>3. CASE tail[c] = cmdLen[c] /\ cmdLen[c] < MaxCmdLen
        <3>1. cmdLen[c] \in 0 .. MaxCmdLen
            BY <2>1 DEF TypeOK
        <3> QED
            BY <2>3, <3>1, SizeAssumption
    <2>4. CASE \E f \in Frames : /\ f.len < MaxCmdLen /\ bytesRead[c] + f.left = f.len
                                 /\ tail[c] = bytesRead[c]
        <3>1. PICK f \in Frames : /\ f.len < MaxCmdLen /\ bytesRead[c] + f.left = f.len
                                  /\ tail[c] = bytesRead[c]
            BY <2>4
        <3>2. bytesRead[c] \in Nat /\ f.left \in 1 .. MaxCmdLen /\ f.len \in 1 .. MaxCmdLen
            BY <2>1 DEF TypeOK, Frames
        <3> QED
            BY <3>1, <3>2, SizeAssumption
    <2> QED
        BY <2>1, <2>2, <2>3, <2>4 DEF InStep
<1> QED
    BY <1>1, Invariance, PTL

\* Two commands of a client are never on the wire together.
THEOREM FramesAreAlone == Spec => []OneFrameAtATime
<1>1. ASSUME Inv
      PROVE  OneFrameAtATime
    <2> SUFFICES ASSUME NEW c \in Clients
                 PROVE  Len(wire[c]) <= 1 /\ (client[c] = "ready" => wire[c] = <<>>)
        BY DEF OneFrameAtATime
    <2>1. InStep(c) /\ CallInStep(c)
        BY <1>1 DEF Inv
    <2>2. CASE wire[c] = <<>>
        BY <2>2
    <2>3. CASE wire[c] # <<>>
        <3>1. PICK f \in Frames : wire[c] = <<f>>
            BY <2>1, <2>3 DEF InStep
        <3>2. client[c] # "ready"
            BY <2>1, <2>3 DEF CallInStep
        <3> QED
            BY <3>1, <3>2, OneFrame
    <2> QED
        BY <2>2, <2>3
<1> QED
    BY <1>1, Invariance, PTL

\* The manager's thread never waits in the read of a command's body.
THEOREM NeverBlocked == Spec => []NeverWaitsForBytes
<1>1. ASSUME Inv
      PROVE  NeverWaitsForBytes
    <2> SUFFICES ASSUME NEW c \in Clients, reading = c, ~Whole(c)
                 PROVE  wire[c] # <<>> /\ Head(wire[c]).left > 0
        BY DEF NeverWaitsForBytes, Whole
    <2> QED
        BY <1>1, BodyState
<1> QED
    BY <1>1, Invariance, PTL

\* A command is carried out only when all of it has come and nothing after it.
THEOREM CommandsAreWhole == Spec => RunsWholeCommands
<1>1. ASSUME Inv, [Next]_vars, NEW c \in Clients, runs'[c] # runs[c]
      PROVE  bytesRead[c] = cmdLen[c] /\ tail[c] = cmdLen[c] /\ wire[c] = <<>>
    <2>1. \E d \in Clients : Process(d)
        BY <1>1, Zenon DEF Next, vars, Connect, Send, SendQuit, Receives, Receive, ReceiveEnd,
           Abandon, Serves, Accept, SessionEnd, HeaderBad, ReadHeader, Resume, ReadBody,
           ManagerEnds, history
    <2>2. PICK d \in Clients : Process(d)
        BY <2>1
    <2>3. d = c
        BY <1>1, <2>2 DEF Process, Inv, TypeOK
    <2>4. reading = c /\ Whole(c)
        BY <2>2, <2>3 DEF Process
    <2> QED
        BY <1>1, <2>4, WholeState
<1>2. Inv /\ [Next]_vars =>
        [\A c \in Clients : runs'[c] # runs[c] =>
            bytesRead[c] = cmdLen[c] /\ tail[c] = cmdLen[c] /\ wire[c] = <<>>]_vars
    BY <1>1
<1> QED
    BY <1>2, Invariance, PTL DEF Spec, RunsWholeCommands

\* Session implements Rpc: commands are carried out one at a time, at most once,
\* before they return; and one that returns was carried out.
THEOREM Implements == Spec => Answers
<1>1. Init => Call!Init
    BY Zenon DEF Init, Call!Init
<1>2. Inv /\ [Next]_vars => [Call!Next]_(Call!vars)
    <2> SUFFICES ASSUME Inv, [Next]_vars
                 PROVE  Call!Next \/ UNCHANGED <<calls, runs, returns>>
        BY DEF Call!vars
    <2>1. ASSUME NEW c \in Clients, Send(c)
          PROVE  Call!Call(c)
        <3>1. client[c] = "ready" /\ CallInStep(c)
            BY <2>1 DEF Inv, Send
        <3>2. calls[c] = returns[c]
            BY <3>1 DEF CallInStep
        <3> QED
            BY <2>1, <3>2 DEF Send, Call!Call
    <2>2. ASSUME NEW c \in Clients, Process(c)
          PROVE  Call!Run(c)
        <3>1. reading = c /\ Whole(c)
            BY <2>2 DEF Process
        <3>2. runs[c] < calls[c]
            BY <3>1, WholeState
        <3> QED
            BY <2>2, <3>2 DEF Process, Call!Run
    <2>3. ASSUME NEW c \in Clients, Receive(c)
          PROVE  Call!Return(c)
        <3>1. client[c] = "sent" /\ replies[c] > 0 /\ CallInStep(c) /\ returns[c] \in Nat
            BY <2>3 DEF Inv, TypeOK, Receive
        <3>2. returns[c] < runs[c]
            BY <3>1 DEF CallInStep
        <3> QED
            BY <2>3, <3>2 DEF Receive, Call!Return
    <2>4. \/ \E c \in Clients : Send(c) \/ Process(c) \/ Receive(c)
          \/ UNCHANGED <<calls, runs, returns>>
        BY Zenon DEF Next, vars, Connect, SendQuit, Receives, ReceiveEnd, Abandon, Serves,
           Accept, SessionEnd, HeaderBad, ReadHeader, Resume, ReadBody, ManagerEnds, history
    <2> QED
        BY <2>1, <2>2, <2>3, <2>4 DEF Call!Next
<1> QED
    BY <1>1, <1>2, Invariance, PTL DEF Spec, Answers, Call!Spec
=============================================================================
