-------------------------- MODULE SimpleTcp_proofs --------------------------
(***************************************************************************)
(* For any number of clients, any size of chunks and buffers and any limit *)
(* on the clients served: no byte of a chunk is lost or left over, client  *)
(* and server never wait for each other when a chunk fits the buffers, and *)
(* the server hangs up only when its own run is over.                      *)
(***************************************************************************)
EXTENDS SimpleTcp, TLAPS

(* What the server holds belongs to the one connection it serves.          *)
ServerOK ==
    /\ cur \in Clients <=> spc \in {"recv", "send", "sleep"}
    /\ \A c \in Clients : conn[c] = "served" <=> cur = c
    /\ IF spc = "send" THEN held > 0 ELSE held = 0

(* How far the client is with its chunk.                                   *)
ChunkOK(c) ==
    /\ cpc[c] \in {"connect", "retry"} => conn[c] = "none"
    /\ conn[c] = "none" => up[c] = 0 /\ down[c] = 0
    /\ Here(c) /\ cpc[c] \notin {"connect", "retry"} => conn[c] # "none"
    /\ cpc[c] = "send" => sent[c] < want[c] /\ got[c] = 0
    /\ cpc[c] \in {"recv", "late"} => sent[c] = want[c] /\ got[c] < want[c]
    /\ cpc[c] \in {"compare", "sleep"} => sent[c] = want[c] /\ got[c] = want[c]

(* Where the bytes of the chunk are; those the server held when it hung up *)
(* are lost.                                                               *)
BytesOK(c) ==
    Here(c) =>
      /\ gone[c] = "no"
      /\ conn[c] \in {"queued", "served"} =>
           sent[c] = up[c] + HeldOf(c) + down[c] + got[c]
      /\ conn[c] = "closed" => up[c] + down[c] + got[c] <= sent[c]
      /\ cpc[c] = "sleep" => ~altered[c]

HangUpOK(c) ==
    (Here(c) /\ conn[c] = "closed") \/ cpc[c] = "hungup" =>
        sover \/ spc \in SEnded

IInv == TypeOK /\ ServerOK /\ \A c \in Clients : ChunkOK(c) /\ BytesOK(c) /\ HangUpOK(c)

-----------------------------------------------------------------------------
LEMMA InitInv == Init => IInv
<1> SUFFICES ASSUME Init PROVE IInv
  OBVIOUS
<1>1. TypeOK
  <2>1. 0 \in 0..Bufsize /\ 0 \in 0..SockBuf /\ 0 \in Nat
    BY SimpleAssumption
  <2>2. "connect" \in CRunning \cup CEnded
    BY DEF CRunning
  <2> QED
    BY <2>1, <2>2 DEF Init, TypeOK
<1>2. ServerOK
  BY SimpleAssumption DEF Init, ServerOK
<1>3. ASSUME NEW c \in Clients PROVE ChunkOK(c) /\ BytesOK(c) /\ HangUpOK(c)
  <2>1. cpc[c] = "connect" /\ conn[c] = "none" /\ up[c] = 0 /\ down[c] = 0 /\ gone[c] = "no"
    BY DEF Init
  <2> QED
    BY <2>1 DEF ChunkOK, BytesOK, HangUpOK, Here, CRunning
<1> QED
  BY <1>1, <1>2, <1>3 DEF IInv

(* What the server holds of a client's chunk is a number within the chunk. *)
LEMMA HeldNat == ASSUME IInv, NEW c \in Clients PROVE HeldOf(c) \in 0..Bufsize
  BY SimpleAssumption DEF IInv, TypeOK, HeldOf

LEMMA LeaveInv ==
  ASSUME IInv, NEW c \in Clients, NEW end \in CEnded, Leave(c, end), Here(c),
         end = "hungup" => conn[c] = "closed"
  PROVE  IInv'
<1>1. TypeOK'
  BY SimpleAssumption DEF IInv, TypeOK, Leave, serverVars
<1>2. ServerOK'
  BY DEF IInv, ServerOK, Leave, serverVars
<1>3. ASSUME NEW d \in Clients PROVE (ChunkOK(d) /\ BytesOK(d) /\ HangUpOK(d))'
  <2>1. CASE d = c
    BY <2>1 DEF IInv, TypeOK, ChunkOK, BytesOK, HangUpOK, Leave, Here, CRunning, CEnded,
       serverVars
  <2>2. CASE d # c
    BY <2>2 DEF IInv, TypeOK, ChunkOK, BytesOK, HangUpOK, Leave, Here, HeldOf, serverVars
  <2> QED
    BY <2>1, <2>2
<1> QED
  BY <1>1, <1>2, <1>3 DEF IInv

LEMMA ClientInv ==
  ASSUME IInv, NEW c \in Clients, ClientStep(c) \/ Interrupt(c)
  PROVE  IInv'
<1> USE SimpleAssumption DEF CRunning, CEnded
<1>1. CASE Connect(c) \/ Sleep(c)
  <2>1. TypeOK'
    <3>1. CASE Connect(c)
      BY <3>1 DEF IInv, TypeOK, Connect, StartChunk, NewChunk, serverVars
    <3>2. CASE Sleep(c)
      BY <3>2 DEF IInv, TypeOK, Sleep, StartChunk, NewChunk, serverVars, netVars
    <3> QED
      BY <1>1, <3>1, <3>2
  <2>2. ServerOK'
    BY <1>1 DEF IInv, TypeOK, ServerOK, ChunkOK, Connect, Sleep, serverVars, netVars,
       Listening, SRunning
  <2>3. ASSUME NEW d \in Clients PROVE (ChunkOK(d) /\ BytesOK(d) /\ HangUpOK(d))'
    <3>1. CASE d = c /\ Connect(c)
      BY <3>1 DEF IInv, TypeOK, ServerOK, ChunkOK, BytesOK, HangUpOK, Connect, StartChunk, NewChunk,
         Here, HeldOf, serverVars, netVars
    <3>2. CASE d = c /\ Sleep(c)
      <4>1. PICK n \in 1..Bufsize : NewChunk(c, n)
        BY <3>2 DEF Sleep, StartChunk
      <4>2. /\ cpc[c] = "sleep" /\ cpc'[c] = "send"
            /\ want'[c] = n /\ sent'[c] = 0 /\ got'[c] = 0
        BY <3>2, <4>1 DEF IInv, TypeOK, Sleep, NewChunk
      <4>3. UNCHANGED <<conn, gone, up, down, spc, cur, held, sover>>
        BY <3>2 DEF Sleep, serverVars, netVars
      <4>4. ChunkOK(c)'
        BY <4>2, <4>3 DEF IInv, ChunkOK, Here
      <4>5. BytesOK(c)'
        <5>1. /\ sent[c] = want[c] /\ got[c] = want[c] /\ want[c] \in Nat
              /\ up[c] \in Nat /\ down[c] \in Nat /\ HeldOf(c) \in Nat /\ HeldOf(c)' = HeldOf(c)
          BY <4>2, <4>3, HeldNat DEF IInv, TypeOK, ChunkOK, HeldOf
        <5>2. /\ gone[c] = "no"
              /\ conn[c] \in {"queued", "served"} =>
                   sent[c] = up[c] + HeldOf(c) + down[c] + got[c]
              /\ conn[c] = "closed" => up[c] + down[c] + got[c] <= sent[c]
          BY <4>2 DEF IInv, BytesOK, Here
        <5>3. conn[c] \in {"queued", "served", "closed"} => up[c] = 0 /\ down[c] = 0
          BY <5>1, <5>2
        <5>4. conn[c] \in {"queued", "served"} => HeldOf(c) = 0
          BY <5>1, <5>2
        <5> QED
          BY <4>2, <4>3, <5>1, <5>2, <5>3, <5>4 DEF BytesOK
      <4>6. HangUpOK(c)'
        BY <4>2, <4>3 DEF IInv, HangUpOK, Here
      <4> QED
        BY <3>2, <4>4, <4>5, <4>6
    <3>3. CASE d # c
      BY <1>1, <3>3 DEF IInv, TypeOK, ChunkOK, BytesOK, HangUpOK, Connect, Sleep,
         StartChunk, NewChunk, Here, HeldOf, serverVars, netVars
    <3> QED
      BY <1>1, <3>1, <3>2, <3>3
  <2> QED
    BY <2>1, <2>2, <2>3 DEF IInv
<1>2. CASE Refused(c) \/ Retry(c) \/ RecvTimeout(c) \/ Echoed(c)
  <2>1. TypeOK' /\ ServerOK'
    BY <1>2 DEF IInv, TypeOK, ServerOK, Refused, Retry, RecvTimeout, Echoed, Go,
       serverVars, netVars
  <2>2. ASSUME NEW d \in Clients PROVE (ChunkOK(d) /\ BytesOK(d) /\ HangUpOK(d))'
    BY <1>2 DEF IInv, TypeOK, ChunkOK, BytesOK, HangUpOK, Refused, Retry, RecvTimeout,
       Echoed, Go, Here, HeldOf, serverVars, netVars
  <2> QED
    BY <2>1, <2>2 DEF IInv
<1>3. CASE Send(c) \/ Recv(c)
  <2>1. TypeOK'
    <3>1. CASE Send(c)
      BY <3>1 DEF IInv, TypeOK, ChunkOK, Send, serverVars
    <3>2. CASE Recv(c)
      BY <3>2 DEF IInv, TypeOK, ChunkOK, Recv, Take, serverVars
    <3> QED
      BY <1>3, <3>1, <3>2
  <2>2. ServerOK'
    BY <1>3 DEF IInv, ServerOK, Send, Recv, Take, serverVars
  <2>3. ASSUME NEW d \in Clients PROVE (ChunkOK(d) /\ BytesOK(d) /\ HangUpOK(d))'
    <3>1. CASE d = c /\ Send(c)
      BY <3>1, HeldNat DEF IInv, TypeOK, ChunkOK, BytesOK, HangUpOK, Send, Here, HeldOf,
         serverVars
    <3>2. CASE d = c /\ Recv(c)
      <4>1. /\ cpc[c] = "recv" /\ down[c] > 0 /\ down'[c] = down[c] - 1
            /\ got'[c] = got[c] + 1
            /\ cpc'[c] = IF got[c] + 1 = want[c] THEN "compare" ELSE "recv"
            /\ want'[c] = want[c] /\ sent'[c] = sent[c]
            /\ UNCHANGED <<conn, gone, up, altered, spc, cur, held, sover>>
        BY <3>2 DEF IInv, TypeOK, Recv, Take, serverVars
      <4>2. ChunkOK(c)'
        BY <4>1 DEF IInv, TypeOK, ChunkOK, Here
      <4>3. BytesOK(c)'
        BY <4>1, HeldNat DEF IInv, TypeOK, BytesOK, Here, HeldOf
      <4>4. HangUpOK(c)'
        BY <4>1 DEF IInv, HangUpOK, Here
      <4> QED
        BY <3>2, <4>2, <4>3, <4>4
    <3>3. CASE d # c
      BY <1>3, <3>3 DEF IInv, TypeOK, ChunkOK, BytesOK, HangUpOK, Send, Recv, Take, Here, HeldOf,
         serverVars
    <3> QED
      BY <1>3, <3>1, <3>2, <3>3
  <2> QED
    BY <2>1, <2>2, <2>3 DEF IInv
<1>4. CASE HungUp(c)
  BY <1>4, LeaveInv DEF HungUp, Here
<1>5. CASE \/ ConnectFails(c) \/ GiveUp(c) \/ Expire(c) \/ Mismatch(c)
           \/ Unanswered(c) \/ Interrupt(c)
  BY <1>5, LeaveInv DEF ConnectFails, GiveUp, Expire, Mismatch, Unanswered, Interrupt, Here
<1> QED
  BY <1>1, <1>2, <1>3, <1>4, <1>5 DEF ClientStep

-----------------------------------------------------------------------------
(* The server hangs up on the clients that are there only at its end.      *)
LEMMA SLeaveInv ==
  ASSUME IInv, NEW end \in SEnded, SLeave(end)
  PROVE  IInv'
<1> USE SimpleAssumption DEF SEnded
<1>1. TypeOK'
  BY DEF IInv, TypeOK, SLeave, clientVars
<1>2. ServerOK'
  BY DEF IInv, TypeOK, ServerOK, SLeave
<1>3. ASSUME NEW d \in Clients PROVE (ChunkOK(d) /\ BytesOK(d) /\ HangUpOK(d))'
  <2>1. ChunkOK(d)' /\ HangUpOK(d)'
    BY DEF IInv, TypeOK, ChunkOK, HangUpOK, SLeave, Here, clientVars, CRunning
  <2>2. BytesOK(d)'
    BY HeldNat DEF IInv, TypeOK, BytesOK, SLeave, Here, HeldOf, clientVars
  <2> QED
    BY <2>1, <2>2
<1> QED
  BY <1>1, <1>2, <1>3 DEF IInv

LEMMA CloseInv ==
  ASSUME IInv, CloseConn, cur \in Clients, ~Here(cur) \/ sover
  PROVE  IInv'
<1> USE SimpleAssumption DEF SEnded, SRunning
<1>1. TypeOK'
  BY DEF IInv, TypeOK, CloseConn, clientVars
<1>2. ServerOK'
  BY DEF IInv, TypeOK, ServerOK, CloseConn
<1>3. ASSUME NEW d \in Clients PROVE (ChunkOK(d) /\ BytesOK(d) /\ HangUpOK(d))'
  <2>1. ChunkOK(d)' /\ HangUpOK(d)'
    BY DEF IInv, TypeOK, ServerOK, ChunkOK, HangUpOK, CloseConn, Here, clientVars, CRunning, CEnded
  <2>2. BytesOK(d)'
    BY HeldNat DEF IInv, TypeOK, ServerOK, BytesOK, CloseConn, Here, HeldOf, clientVars
  <2> QED
    BY <2>1, <2>2
<1> QED
  BY <1>1, <1>2, <1>3 DEF IInv

LEMMA ServerInv ==
  ASSUME IInv, ServerStep \/ Kill
  PROVE  IInv'
<1> USE SimpleAssumption DEF SEnded, SRunning
<1>0. spc \in {"recv", "send", "sleep"} => cur \in Clients
  BY DEF IInv, ServerOK
<1>1. CASE Reached \/ SExpire \/ SSendBroken \/ Kill
  BY <1>1, SLeaveInv DEF Reached, SExpire, SSendBroken, Kill
<1>2. CASE Listen
  <2>1. CASE SLeave("error")
    BY <2>1, SLeaveInv
  <2>2. CASE spc = "start" /\ SGo("accept")
    <3>1. TypeOK' /\ ServerOK'
      BY <2>2 DEF IInv, TypeOK, ServerOK, SGo, clientVars, netVars
    <3>2. ASSUME NEW d \in Clients PROVE (ChunkOK(d) /\ BytesOK(d) /\ HangUpOK(d))'
      BY <2>2 DEF IInv, ChunkOK, BytesOK, HangUpOK, SGo, Here, HeldOf, clientVars, netVars
    <3> QED
      BY <3>1, <3>2 DEF IInv
  <2> QED
    BY <1>2, <2>1, <2>2 DEF Listen
<1>3. CASE SRecvNothing \/ SSendReset
  <2>1. cur \in Clients /\ (gone[cur] = "no" => sover)
    BY <1>0, <1>3 DEF SRecvNothing, SSendReset
  <2>2. Here(cur) => gone[cur] = "no"
    BY <2>1 DEF IInv, BytesOK
  <2> QED
    BY <1>3, <2>1, <2>2, CloseInv DEF SRecvNothing, SSendReset
<1>4. CASE \E c \in Clients : Accept(c)
  <2> PICK c \in Clients : Accept(c)
    BY <1>4
  <2>1. TypeOK' /\ ServerOK'
    BY DEF IInv, TypeOK, ServerOK, Accept, clientVars
  <2>2. ASSUME NEW d \in Clients PROVE (ChunkOK(d) /\ BytesOK(d) /\ HangUpOK(d))'
    BY DEF IInv, TypeOK, ServerOK, ChunkOK, BytesOK, HangUpOK, Accept, Here, HeldOf, clientVars
  <2> QED
    BY <2>1, <2>2 DEF IInv
<1>5. CASE SRecv
  <2> PICK n \in 1..Bufsize : /\ n <= up[cur]
                              /\ up' = [up EXCEPT ![cur] = @ - n]
                              /\ held' = n
    BY <1>5 DEF SRecv
  <2>0. spc = "recv" /\ cur \in Clients /\ cur' = cur /\ held = 0
    BY <1>0, <1>5 DEF SRecv, IInv, ServerOK
  <2>1. TypeOK'
    BY <1>5, <2>0 DEF IInv, TypeOK, SRecv, clientVars
  <2>2. ServerOK'
    BY <1>5, <2>0 DEF IInv, ServerOK, SRecv
  <2>3. ASSUME NEW d \in Clients PROVE (ChunkOK(d) /\ BytesOK(d) /\ HangUpOK(d))'
    <3>1. ChunkOK(d)' /\ HangUpOK(d)'
      BY <1>5, <2>0 DEF IInv, TypeOK, ServerOK, ChunkOK, HangUpOK, SRecv, Here, clientVars
    <3>2. BytesOK(d)'
      BY <1>5, <2>0 DEF IInv, TypeOK, ServerOK, BytesOK, SRecv, Here, HeldOf, clientVars
    <3> QED
      BY <3>1, <3>2
  <2> QED
    BY <2>1, <2>2, <2>3 DEF IInv
<1>6. CASE SSend \/ SSendInVain
  <2>0. spc = "send" /\ cur \in Clients /\ cur' = cur /\ held > 0 /\ held' = held - 1
    BY <1>0, <1>6 DEF SSend, SSendInVain, IInv, ServerOK
  <2>1. TypeOK'
    BY <1>6, <2>0 DEF IInv, TypeOK, SSend, SSendInVain, clientVars
  <2>2. ServerOK'
    BY <1>6, <2>0 DEF IInv, TypeOK, ServerOK, SSend, SSendInVain
  <2>3. ASSUME NEW d \in Clients PROVE (ChunkOK(d) /\ BytesOK(d) /\ HangUpOK(d))'
    <3>1. ChunkOK(d)' /\ HangUpOK(d)'
      BY <1>6, <2>0 DEF IInv, TypeOK, ServerOK, ChunkOK, HangUpOK, SSend, SSendInVain, Here,
         clientVars
    <3>2. BytesOK(d)'
      BY <1>6, <2>0 DEF IInv, TypeOK, ServerOK, BytesOK, SSend, SSendInVain, Here, HeldOf,
         clientVars
    <3> QED
      BY <3>1, <3>2
  <2> QED
    BY <2>1, <2>2, <2>3 DEF IInv
<1>7. CASE SSleep
  <2>1. TypeOK' /\ ServerOK'
    BY <1>7 DEF IInv, TypeOK, ServerOK, SSleep, SGo, clientVars, netVars
  <2>2. ASSUME NEW d \in Clients PROVE (ChunkOK(d) /\ BytesOK(d) /\ HangUpOK(d))'
    BY <1>7 DEF IInv, ChunkOK, BytesOK, HangUpOK, SSleep, SGo, Here, HeldOf, clientVars, netVars
  <2> QED
    BY <2>1, <2>2 DEF IInv
<1> QED
  BY <1>1, <1>2, <1>3, <1>4, <1>5, <1>6, <1>7 DEF ServerStep

-----------------------------------------------------------------------------
LEMMA TimeInv ==
  ASSUME IInv,
         \/ \E c \in Clients : Tick(c) \/ Alter(c)
         \/ STick
         \/ UNCHANGED vars
  PROVE  IInv'
<1>1. CASE STick \/ UNCHANGED vars
  <2>1. TypeOK' /\ ServerOK'
    <3>1. CASE STick
      <4>1. TypeOK'
        BY <3>1 DEF IInv, TypeOK, STick, clientVars, serverVars, netVars
      <4>2. ServerOK'
        BY <3>1 DEF IInv, ServerOK, STick, clientVars, serverVars, netVars
      <4> QED
        BY <4>1, <4>2
    <3>2. CASE UNCHANGED vars
      BY <3>2 DEF IInv, TypeOK, ServerOK, vars, clientVars, serverVars, netVars
    <3> QED
      BY <1>1, <3>1, <3>2
  <2>2. ASSUME NEW d \in Clients PROVE (ChunkOK(d) /\ BytesOK(d) /\ HangUpOK(d))'
    BY <1>1 DEF IInv, ChunkOK, BytesOK, HangUpOK, Here, HeldOf, STick, vars, clientVars,
       serverVars, netVars
  <2> QED
    BY <2>1, <2>2 DEF IInv
<1>2. CASE \E c \in Clients : Tick(c) \/ Alter(c)
  <2> PICK c \in Clients : Tick(c) \/ Alter(c)
    BY <1>2
  <2>1. TypeOK' /\ ServerOK'
    <3>1. CASE Tick(c)
      BY <3>1 DEF IInv, TypeOK, ServerOK, Tick, clientVars, serverVars, netVars
    <3>2. CASE Alter(c)
      BY <3>2 DEF IInv, TypeOK, ServerOK, Alter, clientVars, serverVars
    <3> QED
      BY <3>1, <3>2
  <2>2. ASSUME NEW d \in Clients PROVE (ChunkOK(d) /\ HangUpOK(d))'
    BY DEF IInv, ChunkOK, HangUpOK, Here, Tick, Alter, clientVars, serverVars, netVars
  <2>3. ASSUME NEW d \in Clients PROVE BytesOK(d)'
    <3>1. CASE Tick(c)
      BY <3>1 DEF IInv, BytesOK, Here, HeldOf, Tick, clientVars, serverVars, netVars
    (* In "sleep" nothing of the chunk is on its way any more.             *)
    <3>2. CASE Alter(c)
      <4>1. cpc[c] # "sleep"
        <5> SUFFICES ASSUME cpc[c] = "sleep" PROVE FALSE
          OBVIOUS
        <5>1. /\ Here(c) /\ conn[c] \in {"queued", "served", "closed"}
              /\ sent[c] = got[c] /\ down[c] > 0
          BY <3>2 DEF IInv, TypeOK, ChunkOK, Here, CRunning, Alter
        <5> QED
          BY <5>1, HeldNat DEF IInv, TypeOK, BytesOK
      <4> QED
        BY <3>2, <4>1 DEF IInv, TypeOK, BytesOK, Here, HeldOf, Alter, clientVars, serverVars
    <3> QED
      BY <3>1, <3>2
  <2> QED
    BY <2>1, <2>2, <2>3 DEF IInv
<1> QED
  BY <1>1, <1>2

LEMMA Invariance == Spec => []IInv
<1>1. IInv /\ [Next]_vars => IInv'
  BY ClientInv, ServerInv, TimeInv DEF Next, Over
<1> QED
  BY InitInv, <1>1, PTL DEF Spec

-----------------------------------------------------------------------------
(* The variables keep their types: no counter passes the chunk's length or *)
(* the room of a direction.                                                *)
THEOREM TypeCorrect == Spec => []TypeOK
<1>1. IInv => TypeOK
  BY DEF IInv
<1> QED
  BY <1>1, Invariance, PTL

(* No byte of a chunk is lost, doubled or left over between two clients'   *)
(* and the server's loops (src/scripts/simple-tcp-server-client.py:135-172, *)
(* 214-268).                                                               *)
THEOREM BytesAccounted == Spec => []EveryByteAccounted
<1>1. IInv => EveryByteAccounted
  <2> SUFFICES ASSUME IInv, NEW c \in Clients, Here(c), conn[c] \in {"queued", "served"}
               PROVE  /\ sent[c] = up[c] + HeldOf(c) + down[c] + got[c]
                      /\ cpc[c] = "sleep" =>
                           up[c] + HeldOf(c) + down[c] = 0 /\ ~altered[c]
    BY DEF EveryByteAccounted
  <2>1. sent[c] = up[c] + HeldOf(c) + down[c] + got[c]
    BY DEF IInv, BytesOK
  <2>2. cpc[c] = "sleep" => sent[c] = got[c] /\ ~altered[c]
    BY DEF IInv, BytesOK, ChunkOK
  <2> QED
    BY <2>1, <2>2, HeldNat DEF IInv, TypeOK
<1> QED
  BY <1>1, Invariance, PTL

(* A chunk that fits the two directions and one byte in the server's hands *)
(* never has the client and the server wait for each other in sendall      *)
(* (src/scripts/simple-tcp-server-client.py:155-159, 228-229).             *)
THEOREM NoDeadlock == Spec => []NeverBothBlocked
<1>1. IInv => NeverBothBlocked
  <2> SUFFICES ASSUME IInv, Bufsize <= 2 * SockBuf + 1, NEW c \in Clients, BothBlocked(c)
               PROVE  FALSE
    BY DEF NeverBothBlocked
  <2>1. /\ Here(c) /\ conn[c] = "served" /\ HeldOf(c) > 0
        /\ sent[c] < want[c] /\ got[c] = 0
    BY DEF IInv, ServerOK, ChunkOK, BothBlocked, Here, CRunning, HeldOf
  <2>2. sent[c] = SockBuf + HeldOf(c) + SockBuf
    BY <2>1, SimpleAssumption, HeldNat DEF IInv, TypeOK, BytesOK, BothBlocked
  <2> QED
    BY <2>1, <2>2, SimpleAssumption, HeldNat DEF IInv, TypeOK
<1> QED
  BY <1>1, Invariance, PTL

(* The server hangs up on a client that is there only when its own time is *)
(* over or its run has ended                                               *)
(* (src/scripts/simple-tcp-server-client.py:135-173).                      *)
THEOREM HangsUpAtTheEnd == Spec => []HungUpOnlyAtTheEnd
<1>1. IInv => HungUpOnlyAtTheEnd
  BY DEF IInv, HangUpOK, HungUpOnlyAtTheEnd
<1> QED
  BY <1>1, Invariance, PTL
=============================================================================
