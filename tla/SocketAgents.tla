---------------------------- MODULE SocketAgents ----------------------------
(***************************************************************************)
(* How the parties' agents find each other over sockets: every party       *)
(* constructs a SocketPartyCommunicationAgentFactory, then has             *)
(* SecretShareEngineFactory::create build its engine, whose parts ask the  *)
(* factory for agents.  The server of a connection listens on the agreed   *)
(* port, or on any free one when that is taken, and tells the client over  *)
(* the initial connection; only the initial connection itself cannot be    *)
(* told.  Parties connect, wait, time out, fail, and leave on their own.   *)
(***************************************************************************)
EXTENDS Integers, SequencesExt, FiniteSetsExt

CONSTANT Setups   \* numberOfParty, generators, rightToLeft, ports, taken, oneHost, useTls,
                  \* patient (nothing fails or times out)

(* The ports agreed for connections that are served on one host differ.    *)
ASSUME SocketsAssumption ==
  \A s \in Setups :
    /\ s.numberOfParty \in Nat \ {0, 1} /\ s.generators \subseteq {"boolean", "integer"}
    /\ {s.rightToLeft, s.oneHost, s.useTls, s.patient} \subseteq BOOLEAN /\ s.allPorts \subseteq Nat
    /\ \A p, q \in 0 .. s.numberOfParty - 1 : p < q =>
         /\ s.ports[{p, q}] \in Nat
         /\ \A r, t \in 0 .. s.numberOfParty - 1 :
              r < t /\ (s.oneHost \/ r = p) /\ s.ports[{r, t}] = s.ports[{p, q}] =>
                r = p /\ t = q

VARIABLES
  setup,
  todo,        \* by party: the steps it has still to do, of its Program
  at,          \* by party: where it is in the step: stage, port, connection
  sockets,     \* the sockets that listen: host, port, owner, whom for, who has connected
  portNo,      \* by party and peer: initialConnections_[peer].first.portNo
  connections, \* the connections: server, client, the port numbers sent and not received
  initial,     \* by party and peer: the connection of initialConnections_[peer].second
  agents,      \* by party: the agents create() has returned: peer, purpose, connection
  status       \* by party: running, done, thrown, aborted, spinning

vars == <<setup, todo, at, sockets, portNo, connections, initial, agents, status>>

NoConnection == 0
Start == [stage |-> "start", port |-> 0, connection |-> NoConnection]

Parties == 0 .. setup.numberOfParty - 1
Peers(p) == Parties \ {p}

(* The loops over the parties, in the order of their ids: over the others, *)
(* and over those that are clients of p.                                   *)
Others(p) == [i \in 1 .. setup.numberOfParty - 1 |-> IF i <= p THEN i - 1 ELSE i]
Clients(p) == [i \in 1 .. setup.numberOfParty - 1 - p |-> p + i]

-----------------------------------------------------------------------------
(* What a party does, in order.  A step is a call, a peer and a purpose.   *)

Each(seq, step(_)) == [i \in DOMAIN seq |-> step(seq[i])]
create(q, purpose) == [call |-> "create", peer |-> q, purpose |-> purpose]

setupInitialSockets(p) ==
  Each(Clients(p),
       LAMBDA q : [call |-> "bind", peer |-> q, purpose |-> <<"initial">>])

setupInitialConnection(p) ==
  Each(Others(p),
       LAMBDA q : [call |-> "connect", peer |-> q, purpose |-> <<"initial">>])

getAgentMap(p) == Each(Others(p), LAMBDA q : create(q, <<"engine">>))

\* Every party begins as the sender.
bidirectionSenderFirst(p, q, generator) ==
  <<create(q, <<generator, "sender">>), create(q, <<generator, "receiver">>),
    create(q, <<generator, "bidirection">>)>>

(* RcotBasedBidirectionObliviousTransferFactory::create *)
bidirection(p, q, generator) ==
  LET sender   == create(q, <<generator, "sender">>)
      receiver == create(q, <<generator, "receiver">>)
  IN  (IF q < p THEN <<sender, receiver>> ELSE <<receiver, sender>>)
        \o <<create(q, <<generator, "bidirection">>)>>

(* TupleGeneratorFactory and ArithmeticTupleGeneratorFactory: a product    *)
(* share generator for each peer.                                          *)
productShares(p, generator) ==
  [i \in 1 .. 3 * (setup.numberOfParty - 1) |->
     bidirection(p, Others(p)[((i - 1) \div 3) + 1], generator)[((i - 1) % 3) + 1]]

(* TwoPartyTupleGeneratorFactory::create *)
twoPartyTuples(p) ==
  LET sender   == create(1 - p, <<"boolean", "sender">>)
      receiver == create(1 - p, <<"boolean", "receiver">>)
  IN  IF p = 0 THEN <<sender, receiver>> ELSE <<receiver, sender>>

(* The factories getSecureEngineFactoryWith... chooses; the generator that *)
(* is not wanted is a Null one, which asks for no agent.                   *)
tupleGenerators(p) ==
  IF "boolean" \notin setup.generators THEN <<>>
  ELSE IF setup.numberOfParty = 2 THEN twoPartyTuples(p) ELSE productShares(p, "boolean")

arithmeticTupleGenerators(p) ==
  IF "integer" \in setup.generators THEN productShares(p, "integer") ELSE <<>>

(* SecretShareEngineFactory::create calls both as arguments of one call:   *)
(* the compiler chooses the order, for all parties that run the same       *)
(* build.                                                                  *)
createEngine(p) ==
  getAgentMap(p) \o
  (IF setup.rightToLeft THEN arithmeticTupleGenerators(p) \o tupleGenerators(p)
                        ELSE tupleGenerators(p) \o arithmeticTupleGenerators(p))

Program(p) == setupInitialSockets(p) \o setupInitialConnection(p) \o createEngine(p)

Init ==
  /\ setup \in Setups
  /\ todo = [p \in Parties |-> Program(p)]
  /\ at = [p \in Parties |-> Start]
  /\ sockets = {}
  /\ portNo = [p \in Parties |-> [q \in Peers(p) |-> setup.ports[{p, q}]]]
  /\ connections = <<>>
  /\ initial = [p \in Parties |-> [q \in Peers(p) |-> NoConnection]]
  /\ agents = [p \in Parties |-> {}]
  /\ status = [p \in Parties |-> "running"]

-----------------------------------------------------------------------------
(* Sockets and connections.                                                *)

Host(p) == IF setup.oneHost THEN 0 ELSE p
PortsInUse(host) == setup.taken[host] \cup {s.port : s \in {x \in sockets : x.host = host}}

(* The ports createSocketFromMaybeFreePort may bind when asked for one. *)
createSocketFromMaybeFreePort(p, port) ==
  IF port \notin PortsInUse(Host(p)) THEN {port}
  ELSE setup.allPorts \ PortsInUse(Host(p))

Listening(p, q, port) ==
  [host |-> Host(p), port |-> port, owner |-> p, for |-> q, connected |-> <<>>]

Left(p) == status[p] \in {"thrown", "aborted"}
End(p, how) ==
  /\ status' = [status EXCEPT ![p] = how]
  /\ sockets' = {s \in sockets : s.owner # p}
  /\ UNCHANGED <<setup, todo, at, portNo, connections, initial, agents>>

(* Server first, in the connection's number. *)
Other(p, c) == IF connections[c].server = p THEN connections[c].client ELSE connections[c].server

Now(p) == Head(todo[p])
Serves(p) == p < Now(p).peer
In(p, stage) == status[p] = "running" /\ at[p].stage = stage

(* The step is over: what it created is kept. *)
Finish(p, c) ==
  /\ todo' = [todo EXCEPT ![p] = Tail(@)]
  /\ at' = [at EXCEPT ![p] = Start]
  /\ status' = [status EXCEPT ![p] = IF Len(todo[p]) = 1 THEN "done" ELSE @]
  /\ initial' = IF Now(p).call = "connect" THEN [initial EXCEPT ![p][Now(p).peer] = c]
                                           ELSE initial
  /\ agents' = IF Now(p).call = "create"
               THEN [agents EXCEPT ![p] = @ \cup {[peer |-> Now(p).peer, connection |-> c,
                                                   purpose |-> Now(p).purpose]}]
               ELSE agents

Bind(p) ==
  /\ In(p, "start") /\ Now(p).call = "bind"
  /\ \E port \in createSocketFromMaybeFreePort(p, portNo[p][Now(p).peer]) :
       sockets' = sockets \cup {Listening(p, Now(p).peer, port)}
  /\ Finish(p, NoConnection)
  /\ UNCHANGED <<setup, portNo, connections>>

-----------------------------------------------------------------------------
(* create: the server's half and the client's half before the agents open. *)

createAsServer(p) ==
  LET q        == Now(p).peer
      assigned == portNo[p][q] + 1
  IN  /\ In(p, "start") /\ Now(p).call = "create" /\ Serves(p)
      /\ portNo' = [portNo EXCEPT ![p][q] = assigned]
      /\ \E port \in createSocketFromMaybeFreePort(p, assigned) :
           /\ sockets' = sockets \cup {Listening(p, q, port)}
           /\ connections' = [connections EXCEPT ![initial[p][q]].mail = Append(@, port)]
           /\ at' = [at EXCEPT ![p] = [Start EXCEPT !.stage = "open"]]
      /\ UNCHANGED <<setup, todo, initial, agents, status>>

(* receiveSingleT: the read of recvImpl. *)
createAsClient(p) ==
  LET c == initial[p][Now(p).peer]
  IN  /\ In(p, "start") /\ Now(p).call = "create" /\ ~Serves(p)
      /\ connections[c].mail # <<>>
      /\ connections' = [connections EXCEPT ![c].mail = Tail(@)]
      /\ at' = [at EXCEPT ![p] =
                  [Start EXCEPT !.stage = "open", !.port = Head(connections[c].mail)]]
      /\ UNCHANGED <<setup, todo, sockets, portNo, initial, agents, status>>

\* The bytes are read until all have come, without TLS too.
recvFromNobodyUntilAll(p) ==
  LET c == initial[p][Now(p).peer]
  IN  /\ In(p, "start") /\ Now(p).call = "create" /\ ~Serves(p)
      /\ connections[c].mail = <<>> /\ Left(Other(p, c))
      /\ End(p, "spinning")

(* The peer has left and closed the connection: fread returns nothing and  *)
(* the assertion fails.  SSL_read returns 0 after a close_notify, which is *)
(* added for ever; or an error, which wraps and fails the assertion.       *)
recvFromNobody(p) ==
  LET c == initial[p][Now(p).peer]
  IN  /\ In(p, "start") /\ Now(p).call = "create" /\ ~Serves(p)
      /\ connections[c].mail = <<>> /\ Left(Other(p, c))
      /\ \E how \in {"aborted"} \cup (IF setup.useTls THEN {"spinning"} ELSE {}) : End(p, how)

(* The initial connection opens at once, on the socket bound for the peer  *)
(* or at the port that was agreed.                                         *)
openInitial(p) ==
  /\ In(p, "start") /\ Now(p).call = "connect"
  /\ at' = [at EXCEPT ![p] = [Start EXCEPT !.stage = "open", !.port = portNo[p][Now(p).peer]]]
  /\ UNCHANGED <<setup, todo, sockets, portNo, connections, initial, agents, status>>

-----------------------------------------------------------------------------
(* The constructors of SocketPartyCommunicationAgent.                      *)

(* select, accept, and the listening socket closed. *)
receiveFromClient(p, s) ==
  /\ In(p, "open") /\ Serves(p)
  /\ s.owner = p /\ s.for = Now(p).peer /\ s.connected # <<>>

openServerPort(p) ==
  /\ ~setup.useTls
  /\ \E s \in sockets :
       /\ receiveFromClient(p, s)
       /\ sockets' = sockets \ {s}
       /\ connections' = [connections EXCEPT ![Head(s.connected)].accepted = TRUE]
       /\ Finish(p, Head(s.connected))
  /\ UNCHANGED <<setup, portNo>>

(* The handshake follows; the client waits in it, or has left: SSL_accept  *)
(* throws.                                                                 *)
openServerPortWithTls(p) ==
  /\ setup.useTls
  /\ \E s \in sockets :
       /\ receiveFromClient(p, s)
       /\ IF Left(connections[Head(s.connected)].client) THEN End(p, "thrown")
          ELSE /\ sockets' = sockets \ {s}
               /\ connections' = [connections EXCEPT ![Head(s.connected)].accepted = TRUE]
               /\ Finish(p, Head(s.connected))
               /\ UNCHANGED <<setup, portNo>>

(* Once a socket listens there the connection exists, though the server    *)
(* has not accepted it.  listen(sockfd, 1) lets two wait.                  *)
connectToHost(p, s) ==
  /\ In(p, "open") /\ ~Serves(p)
  /\ s.host = Host(Now(p).peer) /\ s.port = at[p].port /\ Len(s.connected) < 2
  /\ connections' = Append(connections, [server |-> s.owner, client |-> p,
                                         mail |-> <<>>, accepted |-> FALSE])
  /\ sockets' = (sockets \ {s})
                  \cup {[s EXCEPT !.connected = Append(@, Len(connections) + 1)]}

openClientPort(p) ==
  /\ ~setup.useTls
  /\ \E s \in sockets : connectToHost(p, s)
  /\ Finish(p, Len(connections) + 1)
  /\ UNCHANGED <<setup, portNo>>

(* SSL_connect follows. *)
openClientPortWithTls(p) ==
  /\ setup.useTls
  /\ \E s \in sockets : connectToHost(p, s)
  /\ at' = [at EXCEPT ![p].stage = "handshake", ![p].connection = Len(connections) + 1]
  /\ UNCHANGED <<setup, todo, portNo, initial, agents, status>>

(* It returns when the server has accepted, or throws when nobody will. *)
handshake(p) ==
  LET c == at[p].connection
  IN  /\ In(p, "handshake")
      /\ \/ /\ connections[c].accepted
            /\ Finish(p, c)
            /\ UNCHANGED <<setup, sockets, portNo, connections>>
         \/ /\ ~connections[c].accepted
            /\ \A s \in sockets : c \notin Range(s.connected)
            /\ End(p, "thrown")

(* A time-out, of select or of the retries of connect; or the certificate  *)
(* or the key cannot be read, or the address found.                        *)
openFails(p) ==
  /\ ~setup.patient /\ In(p, "open")
  /\ End(p, "thrown")

Act(p) ==
  /\ status[p] = "running"
  /\ \/ Bind(p) \/ openInitial(p)
     \/ createAsServer(p) \/ createAsClient(p) \/ recvFromNobody(p)
     \/ openServerPort(p) \/ openServerPortWithTls(p)
     \/ openClientPort(p) \/ openClientPortWithTls(p) \/ handshake(p)
     \/ openFails(p)

Ended == \A p \in Parties : status[p] # "running"

Next == (\E p \in Parties : Act(p)) \/ (Ended /\ UNCHANGED vars)

(* Every party is a process of its own, and its calls return or time out.  *)
Fairness == \A p \in 0 .. 2 : WF_vars(p \in Parties /\ Act(p))

Spec == Init /\ [][Next]_vars /\ Fairness

-----------------------------------------------------------------------------
(* What the code promises.                                                 *)

Corresponding(purpose) ==
  CASE Last(purpose) = "sender"   -> <<Head(purpose), "receiver">>
    [] Last(purpose) = "receiver" -> <<Head(purpose), "sender">>
    [] OTHER                      -> purpose

(* No other process holds a port that was agreed for an initial            *)
(* connection; otherwise the socket for one peer may be bound to the port  *)
(* another peer connects to, and nobody is told.                           *)
InitialPortsFree ==
  \A p, q \in Parties : p < q => setup.ports[{p, q}] \notin setup.taken[Host(p)]

(* A party that has left gives its ports back, and on the same host another *)
(* party's server may be given one of them: a client that was told the port *)
(* before reaches that server, and neither of them notices.                 *)
PortsKept == setup.oneHost => \A p \in Parties : ~Left(p)

(* The two ends of a connection are the agents of two parties for each     *)
(* other and for matching purposes, whatever the order in which the        *)
(* parties arrive, the ports that are taken and the parties that fail on   *)
(* hosts of their own: the sender of an oblivious transfer never talks to  *)
(* another sender or to the engine.                                        *)
AgentsPaired ==
  InitialPortsFree /\ PortsKept =>
  \A p, q \in Parties : \A a \in agents[p], b \in agents[q] :
    p # q /\ a.connection = b.connection =>
      a.peer = q /\ b.peer = p /\ b.purpose = Corresponding(a.purpose)

(* No party waits for ever: it gets its engine, or throws, or fails an     *)
(* assertion, or (only under TLS, reading from a party that has left)      *)
(* reads nothing for ever; and when nothing fails every party has its      *)
(* engine.                                                                 *)
SetupEnds ==
  /\ <>Ended
  /\ ~setup.useTls => <>(\A p \in Parties : status[p] \in {"done", "thrown", "aborted"})
  /\ setup.patient => <>(\A p \in Parties : status[p] = "done")
=============================================================================
