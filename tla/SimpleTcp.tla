----------------------------- MODULE SimpleTcp -----------------------------
(* scripts/simple-tcp-server-client.py: one run of the echo server and the *)
(* runs of the client that talk to it, which the test type "simple" starts *)
(* in its two pods (testTypeSimple.py:39-60).                              *)
(*                                                                         *)
(* A connection carries bytes one at a time: up[c] of them wait for the    *)
(* server and down[c] for the client, whether still on the wire or already *)
(* in a buffer, and at most SockBuf in each direction while nobody reads.  *)
(* Only the number of bytes matters: TCP keeps their order and the server  *)
(* returns what it reads, so a chunk comes back altered only when somebody *)
(* on the way altered it (Alter).  A packet that is lost is a step that is *)
(* not taken.                                                              *)
(*                                                                         *)
(* Of a clock the script only asks whether start_time + duration, or the   *)
(* shorter limit for connecting, has passed.  It asks on entering a        *)
(* blocking call and when that call has waited to the end; a call that     *)
(* succeeds is a step taken before the clock ran out.                      *)
EXTENDS Integers, FiniteSets

CONSTANTS
    Clients,       \* the runs of the client
    Server,        \* the run of the server
    Durations,     \* the sets of runs that may be those with a --duration
    NumClients,    \* --num-clients of the server, 0 for no limit
    Bufsize,       \* --bufsize: the largest chunk
    SockBuf,       \* bytes a direction holds while nobody reads
    Altering       \* somebody between the two may change a byte

ASSUME SimpleAssumption ==
    /\ Server \notin Clients
    /\ Durations \subseteq SUBSET (Clients \cup {Server})
    /\ NumClients \in Nat /\ Bufsize \in Nat \ {0} /\ SockBuf \in Nat \ {0}
    /\ Altering \in BOOLEAN

VARIABLES
    cpc,     \* what each client does, or how it ended
    want,    \* the length of the client's chunk
    sent,    \* how much of it the socket has taken
    got,     \* how much has been read back
    clock,   \* of each client: "running", past the "limit" for connecting, "over"
    conn,    \* the connection of a client, as the server's side has it
    gone,    \* what a client that has left answers to the server's bytes
    up, down,
    altered, \* a byte on its way to the client was changed
    spc,     \* what the server does, or how it ended
    cur,     \* the client the server serves
    held,    \* bytes it has read and not yet sent back
    count,   \* client_count
    sover,   \* the server's duration has passed
    timed    \* the runs that were started with --duration

clientVars == <<cpc, want, sent, got>>
serverVars == <<spc, cur, held, count>>
netVars == <<conn, gone, up, down, altered>>
vars == <<cpc, want, sent, got, clock, conn, gone, up, down, altered,
          spc, cur, held, count, sover, timed>>

CRunning == {"connect", "retry", "send", "recv", "late", "compare", "sleep"}
CEnded == {"expired", "unconnected", "unanswered", "hungup", "mismatch",
           "error", "interrupted"}
SRunning == {"accept", "recv", "send", "sleep"}
SEnded == {"reached", "expired", "broken", "killed", "error", "interrupted"}

Listening == spc \in SRunning
Here(c) == cpc[c] \in CRunning

Init ==
    /\ cpc = [c \in Clients |-> "connect"]
    /\ want = [c \in Clients |-> 0]
    /\ sent = [c \in Clients |-> 0]
    /\ got = [c \in Clients |-> 0]
    /\ clock = [c \in Clients |-> "running"]
    /\ conn = [c \in Clients |-> "none"]
    /\ gone = [c \in Clients |-> "no"]
    /\ up = [c \in Clients |-> 0]
    /\ down = [c \in Clients |-> 0]
    /\ altered = [c \in Clients |-> FALSE]
    /\ spc = "start"
    /\ cur = Server
    /\ held = 0
    /\ count = 0
    /\ sover = FALSE
    /\ timed \in Durations

-----------------------------------------------------------------------------
(* The client.                                                              *)

(* The process ends and the kernel closes its socket: the server reads the  *)
(* end of the stream, or is reset at once when bytes were left unread.      *)
Leave(c, end) ==
    /\ cpc' = [cpc EXCEPT ![c] = end]
    /\ gone' = [gone EXCEPT ![c] = IF down[c] > 0 THEN "reset" ELSE "fin"]
    /\ want' = [want EXCEPT ![c] = 0]
    /\ sent' = [sent EXCEPT ![c] = 0]
    /\ got' = [got EXCEPT ![c] = 0]
    /\ UNCHANGED <<clock, conn, up, down, altered, serverVars, sover, timed>>

(* The client comes to its next place, and nothing else changes.            *)
Go(c, place) ==
    /\ cpc' = [cpc EXCEPT ![c] = place]
    /\ UNCHANGED <<want, sent, got, clock, netVars, serverVars, sover, timed>>

NewChunk(c, n) ==
    /\ cpc' = [cpc EXCEPT ![c] = "send"]
    /\ want' = [want EXCEPT ![c] = n]
    /\ sent' = [sent EXCEPT ![c] = 0]
    /\ got' = [got EXCEPT ![c] = 0]

(* Variation: one byte more than --bufsize.                                 *)
StartChunkLarger(c) ==
    \E n \in 1..(Bufsize + 1) : NewChunk(c, n)

(* A random chunk of 1 to bufsize bytes is prepared and sendall called.     *)
StartChunk(c) ==
    \E n \in 1..Bufsize : NewChunk(c, n)

(* The listening server's kernel completes the connection by itself.        *)
Connect(c) ==
    /\ cpc[c] = "connect" /\ clock[c] # "over"
    /\ Listening
    /\ conn' = [conn EXCEPT ![c] = "queued"]
    /\ StartChunk(c)
    /\ UNCHANGED <<clock, gone, up, down, altered, serverVars, sover, timed>>

Refused(c) ==
    /\ cpc[c] = "connect" /\ clock[c] # "over"
    /\ ~Listening
    /\ Go(c, "retry")

(* No route to the address, for one: not an error the loop expects.         *)
ConnectFails(c) ==
    /\ cpc[c] = "connect" /\ clock[c] # "over"
    /\ Leave(c, "error")

(* sleep_timeout(min(duration, 60), 0.5, exit_code=1).                      *)
Retry(c) ==
    /\ cpc[c] = "retry" /\ clock[c] = "running"
    /\ Go(c, "connect")

GiveUp(c) ==
    /\ cpc[c] = "retry" /\ clock[c] # "running"
    /\ Leave(c, "unconnected")

(* Variation: sendall waits without a timeout.                              *)
ExpireElsewhere(c) ==
    /\ cpc[c] \in {"connect", "sleep"} /\ clock[c] = "over"
    /\ Leave(c, "expired")

(* The duration is over: socket_timeout on entering connect or sendall, or  *)
(* when they have waited for the rest of it, and sleep_timeout.             *)
Expire(c) ==
    /\ cpc[c] \in {"connect", "send", "sleep"} /\ clock[c] = "over"
    /\ Leave(c, "expired")

(* sendall: the socket takes a byte while the direction has room.           *)
Send(c) ==
    /\ cpc[c] = "send" /\ clock[c] # "over"
    /\ conn[c] # "closed" /\ up[c] < SockBuf
    /\ up' = [up EXCEPT ![c] = @ + 1]
    /\ sent' = [sent EXCEPT ![c] = @ + 1]
    /\ cpc' = [cpc EXCEPT ![c] = IF sent[c] + 1 = want[c] THEN "recv" ELSE "send"]
    /\ UNCHANGED <<want, got, clock, conn, gone, down, altered, serverVars, sover, timed>>

Take(c, next) ==
    /\ down[c] > 0
    /\ down' = [down EXCEPT ![c] = @ - 1]
    /\ got' = [got EXCEPT ![c] = @ + 1]
    /\ cpc' = [cpc EXCEPT ![c] = next]
    /\ UNCHANGED <<want, sent, clock, conn, gone, up, altered, serverVars, sover, timed>>

(* Variation: recv is called once, and what it returns is compared.         *)
RecvOnce(c) ==
    cpc[c] = "recv" /\ Take(c, "compare")

(* A byte comes back; with the last one of the chunk the loop ends.         *)
Recv(c) ==
    cpc[c] = "recv" /\ Take(c, IF got[c] + 1 = want[c] THEN "compare" ELSE "recv")

Echoed(c) ==
    /\ cpc[c] = "compare" /\ ~altered[c]
    /\ Go(c, "sleep")

Mismatch(c) ==
    /\ cpc[c] = "compare" /\ altered[c]
    /\ Leave(c, "mismatch")

(* Nothing for a second: the client waits 20 more, and fails whatever comes. *)
RecvTimeout(c) ==
    /\ cpc[c] = "recv" /\ down[c] = 0 /\ conn[c] # "closed"
    /\ Go(c, "late")

Unanswered(c) ==
    /\ cpc[c] = "late"
    /\ Leave(c, "unanswered")

(* The server's end is closed: sendall and recv raise, or "assert r" does   *)
(* at the end of the stream.                                                *)
HungUp(c) ==
    /\ conn[c] = "closed"
    /\ \/ cpc[c] = "send"
       \/ cpc[c] = "recv" /\ (down[c] = 0 \/ up[c] > 0)
    /\ Leave(c, "hungup")

Sleep(c) ==
    /\ cpc[c] = "sleep" /\ clock[c] # "over"
    /\ StartChunk(c)
    /\ UNCHANGED <<clock, netVars, serverVars, sover, timed>>

Interrupt(c) ==
    /\ Here(c)
    /\ Leave(c, "interrupted")

ClientStep(c) ==
    \/ Connect(c) \/ Refused(c) \/ ConnectFails(c) \/ Retry(c) \/ GiveUp(c)
    \/ Expire(c) \/ Send(c) \/ Recv(c) \/ Echoed(c) \/ Mismatch(c)
    \/ RecvTimeout(c) \/ Unanswered(c) \/ HungUp(c) \/ Sleep(c)

-----------------------------------------------------------------------------
(* The server.                                                              *)

(* It ends, whatever for: the connections it has or had queued are closed.  *)
SLeave(end) ==
    /\ spc' = end
    /\ cur' = Server /\ held' = 0
    /\ conn' = [c \in Clients |-> IF conn[c] \in {"queued", "served"}
                                  THEN "closed" ELSE conn[c]]
    /\ UNCHANGED <<clientVars, clock, gone, up, down, altered, count, sover, timed>>

SGo(place) ==
    /\ spc' = place
    /\ UNCHANGED <<clientVars, clock, netVars, cur, held, count, sover, timed>>

(* conn.close(), back to accept.                                            *)
CloseConn ==
    /\ spc' = "accept"
    /\ cur' = Server /\ held' = 0
    /\ conn' = [conn EXCEPT ![cur] = "closed"]
    /\ UNCHANGED <<clientVars, clock, gone, up, down, altered, count, sover, timed>>

Listen ==
    /\ spc = "start"
    /\ SGo("accept") \/ SLeave("error")

(* Variation: one client more than it was told.                             *)
FullLater == NumClients > 0 /\ count > NumClients

Full == NumClients > 0 /\ count >= NumClients

Reached ==
    /\ spc = "accept" /\ Full
    /\ SLeave("reached")

Accept(c) ==
    /\ spc = "accept" /\ ~Full /\ ~sover
    /\ conn[c] = "queued"
    /\ conn' = [conn EXCEPT ![c] = "served"]
    /\ spc' = "recv" /\ cur' = c /\ held' = 0 /\ count' = count + 1
    /\ UNCHANGED <<clientVars, clock, gone, up, down, altered, sover, timed>>

(* The duration is over on entering a call, or in accept or sendall.        *)
SExpire ==
    /\ spc \in SRunning /\ sover
    /\ spc = "accept" => ~Full
    /\ SLeave("expired")

SRecv ==
    /\ spc = "recv" /\ ~sover
    /\ \E n \in 1..Bufsize :
        /\ n <= up[cur]
        /\ up' = [up EXCEPT ![cur] = @ - n]
        /\ held' = n
    /\ spc' = "send"
    /\ UNCHANGED <<clientVars, clock, conn, gone, down, altered, cur, count, sover, timed>>

(* Variation: what recv finds at once is all it waits for.                  *)
SRecvNothingYet ==
    /\ spc = "recv" /\ up[cur] = 0
    /\ CloseConn

(* recv returns nothing at the end of the stream, and "except Exception"    *)
(* makes nothing of a reset (what was still on the wire is lost) and of a   *)
(* timeout.                                                                 *)
SRecvNothing ==
    /\ spc = "recv"
    /\ \/ gone[cur] \in {"reset", "broken"}
       \/ up[cur] = 0 /\ (gone[cur] = "fin" \/ sover)
    /\ CloseConn

(* sendall to a client that is there.                                       *)
SSend ==
    /\ spc = "send" /\ ~sover
    /\ gone[cur] = "no" /\ down[cur] < SockBuf
    /\ down' = [down EXCEPT ![cur] = @ + 1]
    /\ held' = held - 1
    /\ spc' = IF held = 1 THEN "sleep" ELSE "send"
    /\ UNCHANGED <<clientVars, clock, conn, gone, up, altered, cur, count, sover, timed>>

(* The first byte for a client that has left is taken by the socket, and    *)
(* its host answers with a reset: a broken pipe for who has seen the end of *)
(* the client's stream.                                                     *)
SSendInVain ==
    /\ spc = "send" /\ ~sover
    /\ gone[cur] = "fin"
    /\ \E g \in {"reset", "broken"} : gone' = [gone EXCEPT ![cur] = g]
    /\ held' = held - 1
    /\ spc' = IF held = 1 THEN "sleep" ELSE "send"
    /\ UNCHANGED <<clientVars, clock, conn, up, down, altered, cur, count, sover, timed>>

(* "except ConnectionResetError".                                           *)
SSendReset ==
    /\ spc = "send" /\ gone[cur] = "reset"
    /\ CloseConn

(* A BrokenPipeError is not one: it ends the server.                        *)
SSendBroken ==
    /\ spc = "send" /\ gone[cur] = "broken"
    /\ SLeave("broken")

SSleep ==
    /\ spc = "sleep" /\ ~sover
    /\ SGo("recv")

(* "killall python3" of the cancel action, or a KeyboardInterrupt.          *)
Kill ==
    /\ spc \in SRunning
    /\ \E end \in {"killed", "interrupted"} : SLeave(end)

ServerStep ==
    \/ Listen \/ Reached \/ SExpire \/ SRecv \/ SRecvNothing
    \/ SSend \/ SSendInVain \/ SSendReset \/ SSendBroken \/ SSleep
    \/ \E c \in Clients : Accept(c)

-----------------------------------------------------------------------------
(* Time and the network.                                                    *)

Tick(c) ==
    /\ c \in timed /\ Here(c) /\ clock[c] # "over"
    /\ \E t \in {"limit", "over"} :
        /\ t # clock[c]
        /\ clock' = [clock EXCEPT ![c] = t]
    /\ UNCHANGED <<clientVars, netVars, serverVars, sover, timed>>

STick ==
    /\ Server \in timed /\ ~sover /\ Listening
    /\ sover' = TRUE
    /\ UNCHANGED <<clientVars, clock, netVars, serverVars, timed>>

Alter(c) ==
    /\ Altering /\ down[c] > 0 /\ Here(c)
    /\ altered' = [altered EXCEPT ![c] = TRUE]
    /\ UNCHANGED <<clientVars, clock, conn, gone, up, down, serverVars, sover, timed>>

Over ==
    /\ \A c \in Clients : cpc[c] \in CEnded
    /\ UNCHANGED vars

Next ==
    \/ \E c \in Clients : ClientStep(c) \/ Interrupt(c) \/ Tick(c) \/ Alter(c)
    \/ ServerStep \/ Kill \/ STick
    \/ Over

(* Each process goes on while it can and time passes; nobody has to be      *)
(* interrupted or killed.                                                   *)
Spec ==
    /\ Init /\ [][Next]_vars
    /\ \A c \in Clients : WF_vars(ClientStep(c)) /\ WF_vars(Tick(c))
    /\ WF_vars(ServerStep) /\ WF_vars(STick)

-----------------------------------------------------------------------------
TypeOK ==
    /\ cpc \in [Clients -> CRunning \cup CEnded]
    /\ want \in [Clients -> 0..Bufsize]
    /\ sent \in [Clients -> 0..Bufsize]
    /\ got \in [Clients -> 0..Bufsize]
    /\ clock \in [Clients -> {"running", "limit", "over"}]
    /\ conn \in [Clients -> {"none", "queued", "served", "closed"}]
    /\ gone \in [Clients -> {"no", "fin", "reset", "broken"}]
    /\ up \in [Clients -> 0..SockBuf]
    /\ down \in [Clients -> 0..SockBuf]
    /\ altered \in [Clients -> BOOLEAN]
    /\ spc \in SRunning \cup SEnded \cup {"start"}
    /\ cur \in Clients \cup {Server}
    /\ held \in 0..Bufsize
    /\ count \in Nat
    /\ sover \in BOOLEAN
    /\ timed \in Durations

(* Bytes of c the server has read and not yet sent back.                    *)
HeldOf(c) == IF cur = c THEN held ELSE 0

(* No byte of a chunk is lost, doubled or left over: while the two ends of  *)
(* a connection are there, what the client has sent of its chunk is on the  *)
(* way, with the server, on the way back or read; and when the client takes *)
(* the chunk for echoed nothing is in flight and nothing was altered, so    *)
(* the next chunk cannot meet bytes of this one (:214-268, :135-172).       *)
EveryByteAccounted ==
    \A c \in Clients : Here(c) /\ conn[c] \in {"queued", "served"} =>
        /\ sent[c] = up[c] + HeldOf(c) + down[c] + got[c]
        /\ cpc[c] = "sleep" => up[c] + HeldOf(c) + down[c] = 0 /\ ~altered[c]

(* The client sends the whole chunk before it reads any of the echo, and    *)
(* the server returns all it has read before it reads on.  They never wait  *)
(* for each other when the two directions, with the byte the server holds,  *)
(* take a whole chunk (:228-229, :155-159).                                 *)
BothBlocked(c) ==
    /\ cpc[c] = "send" /\ up[c] = SockBuf
    /\ cur = c /\ spc = "send" /\ down[c] = SockBuf

NeverBothBlocked ==
    Bufsize <= 2 * SockBuf + 1 => \A c \in Clients : ~BothBlocked(c)

(* The server hangs up on a client that is still there only when its own    *)
(* run is over: nothing else makes the client's "assert r" or its sendall   *)
(* fail (:135-173, :252).                                                   *)
HungUpOnlyAtTheEnd ==
    \A c \in Clients : cpc[c] = "hungup" => sover \/ spc \in SEnded

(* Whoever has a duration ends: a client, whatever the server, the network  *)
(* and the other clients do, and the server, though its recv swallows the   *)
(* timeout (:41-97, :142-148, :234-251).                                    *)
TimedRunsEnd ==
    /\ \A c \in Clients : c \in timed => <>(cpc[c] \in CEnded)
    /\ Server \in timed => <>(spc \in SEnded)

(* A server without one ends after the last of its --num-clients clients,   *)
(* however that client left (:123-125).                                     *)
ServerEndsAfterItsClients ==
    (NumClients > 0 /\ count = NumClients /\ \A c \in Clients : cpc[c] \in CEnded)
        ~> spc \in SEnded

(* Every chunk of the client that is being served is echoed in the end, or  *)
(* the client ends: nobody waits forever for somebody who waits.            *)
ChunkAnswered ==
    \A c \in Clients :
        (cpc[c] \in {"send", "recv"} /\ cur = c) ~>
            (cpc[c] \in {"sleep"} \cup CEnded)
=============================================================================
