------------------------------- MODULE Sockets ------------------------------
(***************************************************************************)
(* The network stack axnet: TCP sockets, UDP sockets and name resolution,  *)
(* and the order in which all of them take the locks of the stack.         *)
(***************************************************************************)
EXTENDS Integers, Sequences, FiniteSets

(***************************************************************************)
(* TCP sockets of axnet (smoltcp_impl/tcp.rs), the listen table            *)
(* (listen_table.rs) and the set of smoltcp sockets behind them (mod.rs).  *)
(*                                                                         *)
(* A TcpSocket is a state word, changed by compare-and-swap to BUSY around *)
(* the operations that write the socket's fields, a handle into SOCKET_SET *)
(* and a local address, of which the model keeps the port.  Sections under *)
(* the lock of SOCKET_SET, of a port of the table or of the counter of     *)
(* ephemeral ports are steps; what is done outside of them is separate.    *)
(* smoltcp itself is external: a socket of it is its TCP state, which any  *)
(* poll of the interface may advance as the peer's packets say.            *)
(*                                                                         *)
(* WRAPPED says whether the socket is used through the file object Socket  *)
(* of the system calls, which holds a mutex during every operation, or     *)
(* shared by reference as axstd and arceos_api do.                         *)
(***************************************************************************)

CONSTANTS TcpThreads, Socks, NumPorts, FirstEphemeral, LISTEN_QUEUE_SIZE,
          MaxHandles, WRAPPED, NoThread

Ports == 1..NumPorts
Handles == 1..MaxHandles

VARIABLES
    tstate,  \* TcpSocket::state, "free" for a socket that does not exist
    handle,  \* TcpSocket::handle, 0 for None
    local,   \* the port of TcpSocket::local_addr, 0 when unspecified
    guard,   \* the thread that holds the mutex of the file object
    smol,    \* the TCP states in SOCKET_SET, "none" for a free slot
    entry,   \* LISTEN_TABLE: per port whether it is taken, and syn_queue
    curr,    \* CURR of get_ephemeral_port
    tpc, using, port, mine, \* a thread's place, its socket, port and handle
    leaked   \* history: handles added by a connect that failed

tcpVars == <<tstate, handle, local, guard, smol, entry, curr, tpc, using, port, mine, leaked>>

Unused == [on |-> FALSE, queue |-> <<>>]

TcpInit ==
    /\ tstate = [s \in Socks |-> "free"] /\ handle = [s \in Socks |-> 0]
    /\ local = [s \in Socks |-> 0] /\ guard = [s \in Socks |-> NoThread]
    /\ smol = [h \in Handles |-> "none"]
    /\ entry = [p \in 0..NumPorts |-> Unused] /\ curr = FirstEphemeral
    /\ tpc = [t \in TcpThreads |-> "idle"]
    /\ using = [t \in TcpThreads |-> NoThread]
    /\ port = [t \in TcpThreads |-> 0] /\ mine = [t \in TcpThreads |-> 0]
    /\ leaked = {}

\* SocketSet::add puts a socket in the first free slot.
FreeHandle == CHOOSE h \in Handles : smol[h] = "none" /\ \A g \in 1..h-1 : smol[g] # "none"
HandleLeft == \E h \in Handles : smol[h] = "none"

TcpGoto(t, where) == tpc' = [tpc EXCEPT ![t] = where]
Stay(t, where) == TcpGoto(t, where) /\ UNCHANGED <<guard, using, port>>
Finish(t) ==
    /\ TcpGoto(t, "idle") /\ guard' = [guard EXCEPT ![using[t]] = NoThread]
    /\ using' = [using EXCEPT ![t] = NoThread] /\ port' = [port EXCEPT ![t] = 0]
SetState(t, st) == tstate' = [tstate EXCEPT ![using[t]] = st]

\* An operation of the socket begins.
TcpCall(t, s, op) ==
    /\ tpc[t] = "idle" /\ tstate[s] # "free"
    /\ WRAPPED => guard[s] = NoThread
    /\ guard' = [guard EXCEPT ![s] = IF WRAPPED THEN t ELSE NoThread]
    /\ using' = [using EXCEPT ![t] = s] /\ TcpGoto(t, op)
    /\ UNCHANGED <<tstate, handle, local, smol, entry, curr, port, mine, leaked>>

\* TcpSocket::new.
TcpNew(s) ==
    /\ tstate[s] = "free"
    /\ tstate' = [tstate EXCEPT ![s] = "closed"]
    /\ handle' = [handle EXCEPT ![s] = 0] /\ local' = [local EXCEPT ![s] = 0]
    /\ UNCHANGED <<guard, smol, entry, curr, tpc, using, port, mine, leaked>>

\* update_state: the compare-and-swap to BUSY; on failure the operation ends or,
\* in shutdown, tries the next of its two expected states.
UpdateState(t, from, expect, body, otherwise) ==
    /\ tpc[t] = from
    /\ IF tstate[using[t]] = expect
       THEN SetState(t, "busy") /\ Stay(t, body)
       ELSE UNCHANGED tstate /\ IF otherwise = "idle" THEN Finish(t) ELSE Stay(t, otherwise)
    /\ UNCHANGED <<handle, local, smol, entry, curr, mine, leaked>>

\* The end of update_state: the new state, or the expected one after an error.
SetAfter(t, from, st, next) ==
    /\ tpc[t] = from /\ SetState(t, st)
    /\ IF next = "idle" THEN Finish(t) ELSE Stay(t, next)
    /\ UNCHANGED <<handle, local, smol, entry, curr, mine, leaked>>
-----------------------------------------------------------------------------
\* get_ephemeral_port: the next port from the counter on that nobody listens at,
\* 0 when there is none.  NextPort(n) is the counter after n tries.
NextPort(n) == FirstEphemeral + ((curr - FirstEphemeral + n) % (NumPorts - FirstEphemeral + 1))
Tries == {n \in 0..(NumPorts - FirstEphemeral) : ~entry[NextPort(n)].on}
FirstTry == CHOOSE n \in Tries : \A m \in Tries : n <= m
EphemeralPort == IF Tries = {} THEN 0 ELSE NextPort(FirstTry)
CurrAfter == IF Tries = {} THEN curr ELSE NextPort(FirstTry + 1)

\* bound_endpoint, in connect and listen: the bound port or an ephemeral one.
BoundEndpoint(t) ==
    /\ tpc[t] \in {"connectBody", "listenBody"}
    /\ LET p == IF local[using[t]] # 0 THEN local[using[t]] ELSE EphemeralPort IN
       /\ port' = [port EXCEPT ![t] = p]
       /\ curr' = IF local[using[t]] # 0 THEN curr ELSE CurrAfter
       /\ IF tpc[t] = "listenBody"
          THEN /\ TcpGoto(t, IF p = 0 THEN "listenFail" ELSE "listenTable")
               /\ UNCHANGED <<smol, mine, leaked>>
          ELSE \* connect has added a smoltcp socket before if it had none
               /\ handle[using[t]] # 0 \/ HandleLeft
               /\ LET h == IF handle[using[t]] # 0 THEN handle[using[t]] ELSE FreeHandle IN
                  /\ smol' = IF handle[using[t]] # 0 THEN smol ELSE [smol EXCEPT ![h] = "closed"]
                  /\ mine' = [mine EXCEPT ![t] = IF p = 0 THEN 0 ELSE h]
                  /\ leaked' = IF p = 0 /\ handle[using[t]] = 0 THEN leaked \cup {h} ELSE leaked
               /\ TcpGoto(t, IF p = 0 THEN "connectFail" ELSE "connectStack")
    /\ UNCHANGED <<tstate, handle, local, guard, entry, using>>

\* connect: smoltcp's connect, which refuses a socket that is open or an address
\* it cannot use; the handle of a socket that had none is lost then.
ConnectStack(t, addressable) ==
    /\ tpc[t] = "connectStack"
    /\ IF smol[mine[t]] = "closed" /\ addressable
       THEN /\ smol' = [smol EXCEPT ![mine[t]] = "synSent"]
            /\ TcpGoto(t, "connectFields") /\ UNCHANGED <<leaked, mine>>
       ELSE /\ leaked' = IF handle[using[t]] = mine[t] THEN leaked ELSE leaked \cup {mine[t]}
            /\ mine' = [mine EXCEPT ![t] = 0] /\ TcpGoto(t, "connectFail") /\ UNCHANGED smol
    /\ UNCHANGED <<tstate, handle, local, guard, entry, curr, using, port>>

\* connect: the fields, written while the state is BUSY.
ConnectFields(t) ==
    /\ tpc[t] = "connectFields"
    /\ local' = [local EXCEPT ![using[t]] = port[t]]
    /\ handle' = [handle EXCEPT ![using[t]] = mine[t]]
    /\ mine' = [mine EXCEPT ![t] = 0] /\ TcpGoto(t, "connectSet")
    /\ UNCHANGED <<tstate, guard, smol, entry, curr, using, port, leaked>>

\* bind: an unbound socket takes the port, or an ephemeral one for 0.
Bind(t, p) ==
    /\ tpc[t] = "bindBody"
    /\ LET q == IF p = 0 THEN EphemeralPort ELSE p IN
       local' = IF q = 0 \/ local[using[t]] # 0 THEN local ELSE [local EXCEPT ![using[t]] = q]
    /\ curr' = IF p = 0 THEN CurrAfter ELSE curr
    /\ TcpGoto(t, "bindSet")
    /\ UNCHANGED <<tstate, handle, guard, smol, entry, using, port, mine, leaked>>

\* listen: LISTEN_TABLE.listen.
ListenTable(t) ==
    /\ tpc[t] = "listenTable"
    /\ local' = [local EXCEPT ![using[t]] = port[t]]
    /\ entry' = [entry EXCEPT ![port[t]].on = TRUE]
    /\ TcpGoto(t, IF entry[port[t]].on THEN "listenFail" ELSE "listenSet")
    /\ UNCHANGED <<tstate, handle, guard, smol, curr, using, port, mine, leaked>>

\* shutdown of a connection: close the smoltcp socket, clear the address.
TcpClosed(st) == IF st \in {"synSent", "listen"} THEN "closed"
              ELSE IF st \in {"established", "synReceived", "closeWait"} THEN "closing" ELSE st
ShutdownStream(t) ==
    /\ tpc[t] = "streamBody"
    /\ smol' = [smol EXCEPT ![handle[using[t]]] = TcpClosed(@)]
    /\ local' = [local EXCEPT ![using[t]] = 0] /\ TcpGoto(t, "streamSet")
    /\ UNCHANGED <<tstate, handle, guard, entry, curr, using, port, mine, leaked>>

\* shutdown of a listener: read and clear the port, then unlisten, which drops
\* the entry and with it the sockets that wait in its queue.
ShutdownListener(t) ==
    /\ tpc[t] = "listenerBody"
    /\ port' = [port EXCEPT ![t] = local[using[t]]]
    /\ local' = [local EXCEPT ![using[t]] = 0] /\ TcpGoto(t, "unlisten")
    /\ UNCHANGED <<tstate, handle, guard, smol, entry, curr, using, mine, leaked>>

Queued(p) == {entry[p].queue[i] : i \in DOMAIN entry[p].queue}

Unlisten(t) ==
    /\ tpc[t] = "unlisten"
    /\ smol' = [h \in Handles |-> IF h \in Queued(port[t]) THEN "none" ELSE smol[h]]
    /\ entry' = [entry EXCEPT ![port[t]] = Unused]
    /\ TcpGoto(t, "listenerSet")
    /\ UNCHANGED <<tstate, handle, local, guard, curr, using, port, mine, leaked>>
-----------------------------------------------------------------------------
\* accept: the check of the state, and the port read after it.
AcceptStart(t) ==
    /\ tpc[t] = "accept"
    /\ IF tstate[using[t]] = "listening" THEN Stay(t, "acceptPort") ELSE Finish(t)
    /\ UNCHANGED <<tstate, handle, local, smol, entry, curr, mine, leaked>>
AcceptPort(t) ==
    /\ tpc[t] = "acceptPort"
    /\ port' = [port EXCEPT ![t] = local[using[t]]] /\ TcpGoto(t, "acceptTry")
    /\ UNCHANGED <<tstate, handle, local, guard, smol, entry, curr, using, mine, leaked>>

\* LISTEN_TABLE.accept: the first connected socket of the queue, taken out by
\* swap_remove_front, becomes a new TcpSocket.
IsConnected(h) == smol[h] \notin {"listen", "synReceived"}
ConnectedAt(p) == {i \in DOMAIN entry[p].queue : IsConnected(entry[p].queue[i])}
SwapRemoveFront(q, i) == Tail([q EXCEPT ![i] = q[1]])

AcceptTry(t, s) ==
    /\ tpc[t] = "acceptTry" /\ tstate[s] = "free"
    /\ ConnectedAt(port[t]) # {}
    /\ LET q == entry[port[t]].queue
           i == CHOOSE i \in ConnectedAt(port[t]) : \A j \in ConnectedAt(port[t]) : i <= j
       IN /\ entry' = [entry EXCEPT ![port[t]].queue = SwapRemoveFront(q, i)]
          /\ tstate' = [tstate EXCEPT ![s] = "connected"]
          /\ handle' = [handle EXCEPT ![s] = q[i]]
          /\ local' = [local EXCEPT ![s] = port[t]]
    /\ Finish(t)
    /\ UNCHANGED <<smol, curr, mine, leaked>>

\* block_on gives up: the socket is nonblocking, or what it waits for is an error
\* (a closed connection, a port nobody listens at).  A blocking socket stays.
GiveUp(t) ==
    /\ tpc[t] \in {"acceptTry", "pollConnect", "transfer"}
    /\ tpc[t] = "acceptTry" => ConnectedAt(port[t]) = {}
    /\ Finish(t)
    /\ UNCHANGED <<tstate, handle, local, smol, entry, curr, mine, leaked>>

\* poll_connect, from connect's loop or from poll(): what smoltcp says of the
\* connection decides the state, which the caller has read before.
PollConnect(t) ==
    /\ tpc[t] = "pollConnect" /\ smol[handle[using[t]]] # "synSent"
    /\ IF smol[handle[using[t]]] = "established"
       THEN SetState(t, "connected") /\ UNCHANGED local
       ELSE SetState(t, "closed") /\ local' = [local EXCEPT ![using[t]] = 0]
    /\ Finish(t)
    /\ UNCHANGED <<handle, smol, entry, curr, mine, leaked>>

\* poll() dispatches on the state; recv and send need a connected socket.
PollStart(t) ==
    /\ tpc[t] = "poll"
    /\ IF tstate[using[t]] = "connecting" THEN Stay(t, "pollConnect") ELSE Finish(t)
    /\ UNCHANGED <<tstate, handle, local, smol, entry, curr, mine, leaked>>
TransferStart(t) ==
    /\ tpc[t] = "recvSend"
    /\ IF tstate[using[t]] = "connected" THEN Stay(t, "transfer") ELSE Finish(t)
    /\ UNCHANGED <<tstate, handle, local, smol, entry, curr, mine, leaked>>

\* Drop: nobody else has a reference; shutdown, then the handle is removed.
TcpDrop(s) ==
    /\ tstate[s] # "free" /\ \A t \in TcpThreads : tpc[t] # "idle" => using[t] # s
    /\ LET p == IF tstate[s] = "listening" THEN local[s] ELSE 0 IN
       /\ entry' = [entry EXCEPT ![p] = Unused]
       /\ smol' = [h \in Handles |-> IF h = handle[s] \/ h \in Queued(p) THEN "none" ELSE smol[h]]
    /\ tstate' = [tstate EXCEPT ![s] = "free"]
    /\ handle' = [handle EXCEPT ![s] = 0] /\ local' = [local EXCEPT ![s] = 0]
    /\ UNCHANGED <<guard, curr, tpc, using, port, mine, leaked>>
-----------------------------------------------------------------------------
\* A SYN in InterfaceWrapper::poll: incoming_tcp_packet prepares a socket for it
\* while the queue of the port has room, and smoltcp answers.
IncomingTcpPacket(p) ==
    /\ entry[p].on /\ Len(entry[p].queue) < LISTEN_QUEUE_SIZE /\ HandleLeft
    /\ smol' = [smol EXCEPT ![FreeHandle] = "synReceived"]
    /\ entry' = [entry EXCEPT ![p].queue = Append(@, FreeHandle)]
    /\ UNCHANGED <<tstate, handle, local, guard, curr, tpc, using, port, mine, leaked>>

\* Other packets and timeouts: what smoltcp may make of a socket's state.
StackMoves(st) ==
    CASE st = "synSent"     -> {"established", "closed"}
      [] st = "synReceived" -> {"established", "listen"}
      [] st = "listen"      -> {"synReceived"}
      [] st = "established" -> {"closeWait", "closed"}
      [] st \in {"closeWait", "closing"} -> {"closed"}
      [] OTHER              -> {}
Stack(h) ==
    /\ \E st \in StackMoves(smol[h]) : smol' = [smol EXCEPT ![h] = st]
    /\ UNCHANGED <<tstate, handle, local, guard, entry, curr, tpc, using, port, mine, leaked>>

Operations == {"connect", "bind", "listen", "accept", "shutdown", "poll", "recvSend"}

TcpStep(t) ==
    \/ \E s \in Socks, op \in Operations : TcpCall(t, s, op)
    \/ UpdateState(t, "connect", "closed", "connectBody", "idle")
    \/ UpdateState(t, "bind", "closed", "bindBody", "idle")
    \/ UpdateState(t, "listen", "closed", "listenBody", "idle")
    \/ UpdateState(t, "shutdown", "connected", "streamBody", "shutdown2")
    \/ UpdateState(t, "shutdown2", "listening", "listenerBody", "idle")
    \/ SetAfter(t, "connectSet", "connecting", "pollConnect")
    \/ SetAfter(t, "connectFail", "closed", "idle")
    \/ SetAfter(t, "bindSet", "closed", "idle")
    \/ SetAfter(t, "listenSet", "listening", "idle")
    \/ SetAfter(t, "listenFail", "closed", "idle")
    \/ SetAfter(t, "streamSet", "closed", "shutdown2")
    \/ SetAfter(t, "listenerSet", "closed", "idle")
    \/ BoundEndpoint(t) \/ ConnectFields(t) \/ ListenTable(t)
    \/ \E addressable \in BOOLEAN : ConnectStack(t, addressable)
    \/ \E p \in Ports \cup {0} : Bind(t, p)
    \/ ShutdownStream(t) \/ ShutdownListener(t) \/ Unlisten(t)
    \/ AcceptStart(t) \/ AcceptPort(t) \/ \E s \in Socks : AcceptTry(t, s)
    \/ GiveUp(t) \/ PollConnect(t) \/ PollStart(t) \/ TransferStart(t)

TcpNext ==
    \/ \E t \in TcpThreads : TcpStep(t)
    \/ \E s \in Socks : TcpNew(s) \/ TcpDrop(s)
    \/ \E p \in Ports : IncomingTcpPacket(p)
    \/ \E h \in Handles : Stack(h)

TcpSpec == TcpInit /\ [][TcpNext]_tcpVars
-----------------------------------------------------------------------------
\* Every smoltcp socket of SOCKET_SET is owned once: by a TcpSocket, by the queue
\* of one port, by the connect that has just added it; or it was lost by a connect
\* that failed.  So no operation uses a handle that was removed and given to
\* another connection, and nothing else stays in the set for ever.
HandlesOwned ==
    LET InQueues == {<<p, i>> : p \in Ports, i \in 1..LISTEN_QUEUE_SIZE}
        Owners(h) == {s \in Socks : handle[s] = h}
                     \cup {x \in InQueues : x[2] \in DOMAIN entry[x[1]].queue /\ entry[x[1]].queue[x[2]] = h}
                     \cup {t \in TcpThreads : mine[t] = h /\ handle[using[t]] # h}
    IN \A h \in Handles :
         Cardinality(Owners(h)) = (IF smol[h] # "none" /\ h \notin leaked THEN 1 ELSE 0)

\* Between the operations of a socket used through its file object: a listening
\* socket has the entry of its port, every entry has its socket, and a closed one
\* leaves behind it no connection, unless the peer had already ended it when
\* poll_connect first looked (it takes that for a failed connect).
StateFollowsStack ==
    WRAPPED /\ (\A t \in TcpThreads : tpc[t] = "idle") =>
        /\ \A s \in Socks : tstate[s] = "listening" => local[s] # 0 /\ entry[local[s]].on
        /\ \A p \in Ports : entry[p].on => \E s \in Socks : tstate[s] = "listening" /\ local[s] = p
        /\ \A s \in Socks : tstate[s] = "closed" /\ handle[s] # 0 =>
               smol[handle[s]] \in {"closed", "closeWait", "closing"}

\* The SAFETY comments of tcp.rs: while a thread has the state BUSY, no other
\* thread writes the address of the socket.
BusyBodies == {"connectBody", "connectStack", "connectFields", "bindBody", "listenBody",
               "listenTable", "streamBody", "listenerBody"}
BusyExclusive ==
    [][\A t \in TcpThreads :
          tpc[t] \in BusyBodies /\ tpc'[t] = tpc[t] => local'[using[t]] = local[using[t]]]_tcpVars

-----------------------------------------------------------------------------

(***************************************************************************)
(* UDP sockets (axnet smoltcp_impl/udp.rs) and name resolution (dns.rs),   *)
(* shared by threads.  A socket has a local and a peer address under       *)
(* reader-writer spin locks and, in SOCKET_SET, a smoltcp socket with a    *)
(* queue of received datagrams.  A datagram is a number, in the order of   *)
(* arrival, and the address it comes from; smoltcp is external.            *)
(***************************************************************************)

CONSTANTS UdpThreads, Peers, NoPeer, UdpPorts, MaxDatagrams, RxSlots

VARIABLES
    ulocal,   \* local_addr, 0 for None
    upeer,    \* peer_addr
    writing,  \* the thread that holds the write lock of peer_addr
    bound,    \* the port the smoltcp socket is bound to, 0 when closed
    rx,       \* its received datagrams
    arrived,  \* how many datagrams have come
    upc, wants, \* a thread's place; the peer recv has read
    seen,     \* history: the peers the socket has had since the call began
    udpGot,      \* history: the numbers returned by recv and recv_from
    wrong,    \* history: recv has returned a datagram of none of those peers
    queries   \* the DNS sockets in SOCKET_SET, by the thread that resolves

udpVars == <<ulocal, upeer, writing, bound, rx, arrived, upc, wants, seen, udpGot, wrong, queries>>
udpCall == <<upc, wants, seen>>

UdpInit ==
    /\ ulocal = 0 /\ upeer = NoPeer /\ writing = NoPeer /\ bound = 0
    /\ rx = <<>> /\ arrived = 0 /\ udpGot = <<>> /\ wrong = FALSE /\ queries = {}
    /\ upc = [t \in UdpThreads |-> "idle"]
    /\ wants = [t \in UdpThreads |-> NoPeer] /\ seen = [t \in UdpThreads |-> {}]

UdpAt(t, where) == upc' = [upc EXCEPT ![t] = where]
UdpDone(t) == /\ UdpAt(t, "idle") /\ wants' = [wants EXCEPT ![t] = NoPeer]
              /\ seen' = [seen EXCEPT ![t] = {}]

\* bind: refused for a bound socket.
UdpBind(t, p) ==
    /\ upc[t] = "idle"
    /\ IF ulocal # 0 \/ bound # 0 THEN UNCHANGED <<ulocal, bound>> ELSE ulocal' = p /\ bound' = p
    /\ UNCHANGED <<upeer, writing, rx, arrived, udpCall, udpGot, wrong, queries>>

\* connect: the write lock of peer_addr, a local port when there is none, the peer.
UdpConnect(t) ==
    /\ upc[t] = "idle" /\ writing = NoPeer
    /\ writing' = t /\ UdpAt(t, "connectBind")
    /\ UNCHANGED <<ulocal, upeer, bound, rx, arrived, wants, seen, udpGot, wrong, queries>>
UdpConnectBind(t, p) ==
    /\ upc[t] = "connectBind"
    /\ IF ulocal = 0 THEN ulocal' = p /\ bound' = p ELSE UNCHANGED <<ulocal, bound>>
    /\ UdpAt(t, "connectSet")
    /\ UNCHANGED <<upeer, writing, rx, arrived, wants, seen, udpGot, wrong, queries>>
UdpConnectSet(t, a) ==
    /\ upc[t] = "connectSet"
    /\ upeer' = a /\ writing' = NoPeer /\ UdpAt(t, "idle")
    /\ seen' = [u \in UdpThreads |-> IF upc[u] = "recv" THEN seen[u] \cup {a} ELSE seen[u]]
    /\ UNCHANGED <<ulocal, bound, rx, arrived, wants, udpGot, wrong, queries>>

\* recv, or recv_from (filtered = FALSE): remote_endpoint fails while a connect
\* holds the lock, or without a peer; both fail on an unbound socket.
UdpRecv(t, filtered) ==
    /\ upc[t] = "idle" /\ ulocal # 0
    /\ filtered => writing = NoPeer /\ upeer # NoPeer
    /\ wants' = [wants EXCEPT ![t] = IF filtered THEN upeer ELSE NoPeer]
    /\ seen' = [seen EXCEPT ![t] = {upeer}]
    /\ UdpAt(t, "recv")
    /\ UNCHANGED <<ulocal, upeer, writing, bound, rx, arrived, udpGot, wrong, queries>>

\* The closure of recv_impl: the first datagram is taken off the queue; recv drops
\* it when it is not from the peer, and waits on.
UdpRecvTake(t) ==
    /\ upc[t] = "recv" /\ rx # <<>>
    /\ rx' = Tail(rx)
    /\ IF wants[t] \in {NoPeer, Head(rx).src}
       THEN /\ udpGot' = Append(udpGot, Head(rx).id) /\ UdpDone(t)
            /\ wrong' = (wrong \/ (wants[t] # NoPeer /\ Head(rx).src \notin seen[t]))
       ELSE UNCHANGED <<udpCall, udpGot, wrong>>
    /\ UNCHANGED <<ulocal, upeer, writing, bound, arrived, queries>>

\* peek_from takes nothing; a nonblocking call gives up; both return.
UdpReturn(t) ==
    /\ upc[t] = "recv" /\ UdpDone(t)
    /\ UNCHANGED <<ulocal, upeer, writing, bound, rx, arrived, udpGot, wrong, queries>>

\* shutdown closes the smoltcp socket, which empties its queue; the local address
\* stays, so the socket cannot be bound again.
UdpShutdown(t) ==
    /\ upc[t] = "idle"
    /\ bound' = 0 /\ rx' = <<>>
    /\ UNCHANGED <<ulocal, upeer, writing, arrived, udpCall, udpGot, wrong, queries>>

\* A datagram for the port comes in with a poll, kept while there is room.
Datagram(a) ==
    /\ bound # 0 /\ arrived < MaxDatagrams
    /\ arrived' = arrived + 1
    /\ rx' = IF Len(rx) < RxSlots THEN Append(rx, [id |-> arrived + 1, src |-> a]) ELSE rx
    /\ UNCHANGED <<ulocal, upeer, writing, bound, udpCall, udpGot, wrong, queries>>

\* dns_query: a DNS socket is added, polled until the answer or the failure, and
\* removed by its Drop on every way out.
DnsQuery(t) ==
    /\ upc[t] = "idle" /\ UdpAt(t, "query") /\ queries' = queries \cup {t}
    /\ UNCHANGED <<ulocal, upeer, writing, bound, rx, arrived, wants, seen, udpGot, wrong>>
DnsReturn(t) ==
    /\ upc[t] = "query" /\ UdpDone(t) /\ queries' = queries \ {t}
    /\ UNCHANGED <<ulocal, upeer, writing, bound, rx, arrived, udpGot, wrong>>

UdpNext ==
    \/ \E t \in UdpThreads :
          \/ \E p \in UdpPorts : UdpBind(t, p) \/ UdpConnectBind(t, p)
          \/ UdpConnect(t) \/ \E a \in Peers : UdpConnectSet(t, a)
          \/ \E filtered \in BOOLEAN : UdpRecv(t, filtered)
          \/ UdpRecvTake(t) \/ UdpReturn(t) \/ UdpShutdown(t) \/ DnsQuery(t) \/ DnsReturn(t)
    \/ \E a \in Peers : Datagram(a)

UdpSpec == UdpInit /\ [][UdpNext]_udpVars
-----------------------------------------------------------------------------
\* Datagrams are returned in the order they came in, each to one caller, whoever
\* of the threads takes them; and recv returns none that comes from elsewhere than
\* a peer the socket was connected to while recv was running.
DatagramsDelivered ==
    /\ \A i, j \in DOMAIN udpGot : i < j => udpGot[i] < udpGot[j]
    /\ ~wrong

-----------------------------------------------------------------------------

(***************************************************************************)
(* The locks of axnet and the order in which its routines take them: the   *)
(* device and the interface of InterfaceWrapper, the set of sockets of     *)
(* SocketSetWrapper and the entry of a port of ListenTable, all of them    *)
(* sleeping mutexes held from their acquisition to the end of the routine. *)
(* One thread accepts connections at the port, the others connect to other *)
(* hosts or resolve names; they run on processors of their own.            *)
(***************************************************************************)

CONSTANTS Acceptor, Connectors, NoOwner

NetThreads == {Acceptor} \cup Connectors
NetLockNames == {"dev", "iface", "sockets", "port"}

VARIABLES heldBy,  \* the holder of each lock
          toTake, \* the locks the thread's routine has yet to take
          routine,
          conn    \* the connection at the port: none, syn, established, accepted

lockVars == <<heldBy, toTake, routine, conn>>

MutPollLocks(syn) == IF syn THEN <<"dev", "iface", "port", "sockets">> ELSE <<"sockets", "iface", "dev">>

\* The locks of a routine in order: InterfaceWrapper::poll, which takes the port
\* only for a packet that opens a connection; TcpSocket::connect and DnsSocket::query,
\* which lock the interface within with_socket_mut; ListenTable::accept, which looks
\* at the sockets of its queue.
PollLocks(syn) == IF syn THEN <<"dev", "iface", "sockets", "port">> ELSE <<"dev", "iface", "sockets">>
ConnectLocks == <<"sockets", "iface">>
AcceptLocks == <<"port", "sockets">>

LocksInit ==
    /\ heldBy = [l \in NetLockNames |-> NoOwner]
    /\ toTake = [t \in NetThreads |-> <<>>]
    /\ routine = [t \in NetThreads |-> "start"]
    /\ conn = "none"

Held(t) == {l \in NetLockNames : heldBy[l] = t}

\* The next lock of the routine.
Acquire(t) ==
    /\ toTake[t] # <<>> /\ heldBy[Head(toTake[t])] = NoOwner
    /\ heldBy' = [heldBy EXCEPT ![Head(toTake[t])] = t]
    /\ toTake' = [toTake EXCEPT ![t] = Tail(@)]
    /\ UNCHANGED <<routine, conn>>

\* The thread enters a routine: accept and connect alternate with polls in block_on.
EnterPoll(t) ==
    /\ Held(t) = {} /\ toTake[t] = <<>> /\ routine[t] \in {"start", "accept", "connect"}
    /\ t = Acceptor => conn # "accepted"
    /\ toTake' = [toTake EXCEPT ![t] = PollLocks(conn = "none")]
    /\ routine' = [routine EXCEPT ![t] = "poll"]
    /\ UNCHANGED <<heldBy, conn>>
EnterCall(t) ==
    /\ Held(t) = {} /\ toTake[t] = <<>> /\ routine[t] = "poll"
    /\ IF t = Acceptor THEN /\ toTake' = [toTake EXCEPT ![t] = AcceptLocks]
                            /\ routine' = [routine EXCEPT ![t] = "accept"]
                       ELSE /\ toTake' = [toTake EXCEPT ![t] = ConnectLocks]
                            /\ routine' = [routine EXCEPT ![t] = "connect"]
    /\ UNCHANGED <<heldBy, conn>>

\* The routine does its work and releases its locks.
LeaveRoutine(t) ==
    /\ Held(t) # {} /\ toTake[t] = <<>>
    /\ heldBy' = [l \in NetLockNames |-> IF heldBy[l] = t THEN NoOwner ELSE heldBy[l]]
    /\ conn' = IF routine[t] = "poll"
               THEN IF conn = "none" THEN "syn" ELSE IF conn = "syn" THEN "established" ELSE conn
               ELSE IF routine[t] = "accept" /\ conn = "established" THEN "accepted" ELSE conn
    /\ UNCHANGED <<toTake, routine>>

LockStep(t) == Acquire(t) \/ EnterPoll(t) \/ EnterCall(t) \/ LeaveRoutine(t)

LocksNext == \E t \in NetThreads : LockStep(t)

LocksSpec == LocksInit /\ [][LocksNext]_lockVars
-----------------------------------------------------------------------------
WaitsFor(t, u) == toTake[t] # <<>> /\ heldBy[Head(toTake[t])] = u

\* Threads that wait for each other's locks in a circle are never all in poll, which
\* takes the locks in one order whoever calls it: the circle goes through connect,
\* query or accept, which take the sockets before the interface or after the port.
CirclesLeavePoll ==
    \A circle \in SUBSET NetThreads \ {{}} :
       (\A t \in circle : \E u \in circle : WaitsFor(t, u)) => \E t \in circle : routine[t] # "poll"

=============================================================================
