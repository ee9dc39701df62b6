-------------------------------- MODULE Overlay -------------------------------
(***************************************************************************)
(* How nodes find and keep their connections (peer.go, handin.go,          *)
(* bootstrap_manifest.go): the goroutine that joins at start-up and        *)
(* reconnects on a timer, the handshake with its two independent ends, the *)
(* map p.conns with one entry per peer though several connections to it    *)
(* may be open, the address book, and the flooding of join messages.       *)
(*                                                                         *)
(* Every node advertises its host, which the configuration requires, so    *)
(* its identifier names its address.  Other messages are left out.         *)
(***************************************************************************)
EXTENDS Integers, SequencesExt

CONSTANTS
  Node,        \* the nodes
  Conn,        \* identifiers of TCP connections, used again once both ends are closed
  Bootstrap,   \* POKOINPOS_BOOTSTRAP_PEERS of each node
  Seed,        \* the join peer of each node: a set of at most one
  Manifest,    \* the peers of the published bootstrap manifest
  Subscribed,  \* the nodes that are configured with the manifest's URL
  None,
  Connector,   \* the goroutine that joins and reconnects
  MaxFaults    \* bound on lost connections and crashes

ASSUME OverlayAssumption ==
  /\ Conn \subseteq Nat /\ IsFiniteSet(Conn) /\ IsFiniteSet(Node)
  /\ Bootstrap \in [Node -> SUBSET Node] /\ Manifest \subseteq Node /\ Subscribed \subseteq Node
  /\ Seed \in [Node -> SUBSET Node] /\ \A n \in Node : n \notin Seed[n] /\ Cardinality(Seed[n]) <= 1
  /\ None \notin Conn /\ Connector \notin Conn
  /\ MaxFaults \in Nat

VARIABLES
  up,       \* the process runs
  timer,    \* the reconnect goroutine runs
  cached,   \* the peers of the manifest as last fetched
  known,    \* p.peerAddresses, without the node itself
  entry,    \* p.conns: entry[n][m] is a connection or None
  sock,     \* the connections: both ends, and what each end has still to read
  stored,   \* the join messages that msgHistory keeps the content of
  sent,     \* the nodes whose join message was flooded: isSent in msgHistory
  phase,    \* what the connector is doing
  left,     \* the addresses it has still to try
  faults    \* lost connections and crashes so far

vars == <<up, timer, cached, known, entry, sock, stored, sent, phase, left, faults>>

(***************************************************************************)
(* A connection joins two nodes.  by is the goroutine that dialled: the    *)
(* connector, or the reader of another connection of the dialler.          *)
(***************************************************************************)
JoinMessage == [about: Node, from: Node, addresses: SUBSET Node]

Pair == {e \in SUBSET Node : \E n, m \in Node : n # m /\ e = {n, m}}

ConnectionOf(e) ==
  [dialer: e, by: Conn \cup {Connector}, reply: (SUBSET Node) \cup {None}, broken: BOOLEAN,
   end: [e -> {"wait", "open", "closed"}], pipe: [e -> Seq(JoinMessage)]]

Connection == UNION {ConnectionOf(e) : e \in Pair}

ASSUME NoConnectionAssumption == None \notin Connection

-----------------------------------------------------------------------------
(* Connections. *)

Ends(c) == DOMAIN sock[c].end

Other(c, n) == CHOOSE m \in Ends(c) : m # n

At(n, c, state) == sock[c] # None /\ n \in Ends(c) /\ sock[c].end[n] = state

Lost(n, c) == sock[c].broken \/ sock[c].end[Other(c, n)] = "closed"

(***************************************************************************)
(* The handshake that a goroutine of n (a reader, or the connector) waits  *)
(* for in ConnectAddress.                                                  *)
(***************************************************************************)
Waiting(n, by) == {c \in Conn : At(n, c, "wait") /\ sock[c].dialer = n /\ sock[c].by = by}

Closed(s, n, c) ==
  LET end == [s[c].end EXCEPT ![n] = "closed"]
  IN  [s EXCEPT ![c] = IF Range(end) = {"closed"} THEN None
                       ELSE [@ EXCEPT !.end = end, !.pipe[n] = << >>]]

Free == {c \in Conn : sock[c] = None}

(***************************************************************************)
(* net.Dial: the connection is in the listener's queue, and both sides     *)
(* write their part of the handshake before they read the other's.  m is   *)
(* dialled by the connector, or by the reader of a connection.             *)
(***************************************************************************)
Dialled(n, m, by) ==
  [sock EXCEPT ![Min(Free)] =
     [dialer |-> n, by |-> by, reply |-> None, broken |-> FALSE,
      end |-> [x \in {n, m} |-> "wait"], pipe |-> [x \in {n, m} |-> << >>]]]

PeerCount(n) == Cardinality({m \in Node : entry[n][m] # None})

HasConnection(n, m) == m = n \/ entry[n][m] # None

(***************************************************************************)
(* The addresses of connectPayload.                                        *)
(***************************************************************************)
ConnectPayload(n) == known[n] \cup {n}

JoinMsg(about, from, addresses) == [about |-> about, from |-> from, addresses |-> addresses]

(***************************************************************************)
(* FloodNetwork: every entry but those the message came from is written; a *)
(* write to a connection that is gone is lost.                             *)
(***************************************************************************)
Flooded(n, s, msg, except) ==
  [c \in Conn |->
     IF s[c] # None /\ \E m \in Node \ except : entry[n][m] = c /\ s[c].end[m] # "closed" /\ ~s[c].broken
     THEN [s[c] EXCEPT !.pipe[Other(c, n)] = Append(@, msg)]
     ELSE s[c]]

(***************************************************************************)
(* addReceivedFloodMessage, then FloodNetwork under the node's own name,   *)
(* once per message identifier.                                            *)
(***************************************************************************)
Remember(n, s, msg) ==
  /\ sock' = IF msg.about \in sent[n] THEN s
             ELSE Flooded(n, s, JoinMsg(msg.about, n, msg.addresses), {msg.from})
  /\ sent' = [sent EXCEPT ![n] = @ \cup {msg.about}]
  /\ stored' = [stored EXCEPT ![n] =
                  IF \E j \in @ : j.about = msg.about THEN @ ELSE @ \cup {msg}]

-----------------------------------------------------------------------------
(* Start-up and the connector. *)

\* Mutant: the node's own address is not filtered.
BootstrapPeersAndSelf(n, manifest) == manifest \cup Bootstrap[n]

(***************************************************************************)
(* filterSelfBootstrapPeers(mergeBootstrapPeers(manifest, configured)).    *)
(***************************************************************************)
BootstrapPeers(n, manifest) == (manifest \cup Bootstrap[n]) \ {n}

(***************************************************************************)
(* A manifest that cannot be fetched counts as an empty one.               *)
(***************************************************************************)
Fetched(n) == IF n \in Subscribed THEN {{}, Manifest} ELSE {{}}

(***************************************************************************)
(* The reconnect goroutine returns at once when there is nobody to connect *)
(* to.                                                                     *)
(***************************************************************************)
Start(n) ==
  /\ ~up[n]
  /\ up' = [up EXCEPT ![n] = TRUE]
  /\ \E manifest \in Fetched(n) :
       /\ cached' = [cached EXCEPT ![n] = manifest]
       /\ timer' = [timer EXCEPT ![n] = Bootstrap[n] \cup BootstrapPeers(n, manifest) \cup Seed[n] # {}]
       /\ left' = [left EXCEPT ![n] = BootstrapPeers(n, manifest)]
  /\ phase' = [phase EXCEPT ![n] = "bootstrap"]
  /\ UNCHANGED <<known, entry, sock, stored, sent, faults>>

(***************************************************************************)
(* The ticker of the registry; a failed fetch keeps what is cached.        *)
(***************************************************************************)
RefreshManifest(n) ==
  /\ up[n] /\ n \in Subscribed
  /\ cached' = [cached EXCEPT ![n] = Manifest]
  /\ UNCHANGED <<up, timer, known, entry, sock, stored, sent, phase, left, faults>>

ReconnectTick(n) ==
  /\ up[n] /\ timer[n] /\ phase[n] = "idle"
  /\ PeerCount(n) = 0
  /\ phase' = [phase EXCEPT ![n] = "known"]
  /\ left' = [left EXCEPT ![n] = known[n]]
  /\ UNCHANGED <<up, timer, cached, known, entry, sock, stored, sent, faults>>

(***************************************************************************)
(* ConnectAddress for one of the addresses left; joinKnownPeers skips the  *)
(* connected ones and writes the others into the address book.             *)
(***************************************************************************)
TryNext(n) ==
  /\ up[n] /\ Waiting(n, Connector) = {} /\ Free # {}
  /\ \E m \in left[n] :
       /\ left' = [left EXCEPT ![n] = @ \ {m}]
       /\ \/ /\ phase[n] = "join" /\ HasConnection(n, m)
             /\ UNCHANGED <<known, sock>>
          \/ /\ ~(phase[n] = "join" /\ HasConnection(n, m))
             /\ known' = [known EXCEPT ![n] = IF phase[n] = "join" THEN @ \cup {m} ELSE @]
             /\ sock' = IF up[m] THEN Dialled(n, m, Connector) ELSE sock
  /\ UNCHANGED <<up, timer, cached, entry, stored, sent, phase, faults>>

\* Mutant: a node that knows no address gives up before the bootstrap peers.
KnownOnly(n) ==
  /\ up[n] /\ left[n] = {} /\ Waiting(n, Connector) = {}
  /\ phase[n] \in {"known", "bootstrap", "seed"}
  /\ phase' = [phase EXCEPT ![n] = IF @ = "bootstrap" THEN "seed" ELSE "idle"]
  /\ left' = [left EXCEPT ![n] = IF phase[n] = "bootstrap" THEN Seed[n] ELSE {}]
  /\ UNCHANGED <<up, timer, cached, known, entry, sock, stored, sent, faults>>

(***************************************************************************)
(* Known addresses first, then the bootstrap peers, then the seed.         *)
(***************************************************************************)
Exhausted(n) ==
  /\ up[n] /\ left[n] = {} /\ Waiting(n, Connector) = {}
  /\ \/ /\ phase[n] = "known"
        /\ phase' = [phase EXCEPT ![n] = "bootstrap"]
        /\ left' = [left EXCEPT ![n] = BootstrapPeers(n, cached[n])]
     \/ /\ phase[n] = "bootstrap"
        /\ phase' = [phase EXCEPT ![n] = "seed"]
        /\ left' = [left EXCEPT ![n] = Seed[n]]
     \/ /\ phase[n] = "seed"
        /\ phase' = [phase EXCEPT ![n] = "idle"]
        /\ UNCHANGED left
  /\ UNCHANGED <<up, timer, cached, known, entry, sock, stored, sent, faults>>

FloodJoin(n) ==
  /\ up[n] /\ phase[n] = "join" /\ left[n] = {} /\ Waiting(n, Connector) = {}
  /\ Remember(n, sock, JoinMsg(n, n, ConnectPayload(n)))
  /\ phase' = [phase EXCEPT ![n] = "idle"]
  /\ UNCHANGED <<up, timer, cached, known, entry, left, faults>>

-----------------------------------------------------------------------------
(* The handshake, prepareConnection. *)

(***************************************************************************)
(* The acceptor answers, writes the dialler into its map and its book,     *)
(* ignores the addresses it sent, and sends what its history keeps, in map *)
(* order. Its answer and the entry in its map are one step here, so the    *)
(* dialler never finishes before the acceptor has it in its map; in the    *)
(* code it may, by a moment.                                               *)
(***************************************************************************)
Accept(m, c) ==
  /\ up[m] /\ At(m, c, "wait") /\ sock[c].dialer # m
  /\ LET n == Other(c, m)
     IN  /\ entry' = [entry EXCEPT ![m][n] = c]
         /\ known' = [known EXCEPT ![m] = @ \cup {n}]
         /\ \E joins \in SetToSeqs(stored[m]) :
              sock' = [sock EXCEPT ![c].end[m] = "open",
                                   ![c].reply = ConnectPayload(m),
                                   ![c].pipe[n] = @ \o joins]
  /\ UNCHANGED <<up, timer, cached, stored, sent, phase, left, faults>>

(***************************************************************************)
(* A reader that dialled for a join message goes on with that message.     *)
(***************************************************************************)
Handled(n, s, c) == Remember(n, [s EXCEPT ![c].pipe[n] = Tail(@)], Head(s[c].pipe[n]))

Resumed(n, s, by) ==
  \/ by = Connector /\ sock' = s /\ UNCHANGED <<stored, sent>>
  \/ by # Connector /\ Handled(n, s, by)

(***************************************************************************)
(* The dialler.  After the first connection the connector joins the peers  *)
(* of the acceptor's reply, or every known peer if it dialled the seed.    *)
(***************************************************************************)
Connected(n, c) ==
  LET m     == Other(c, n)
      reply == sock[c].reply
      first == sock[c].by = Connector /\ phase[n] # "join"
      seed  == first /\ phase[n] = "seed"
      book  == (known[n] \cup {m} \cup IF seed THEN reply ELSE {}) \ {n}
  IN  /\ up[n] /\ At(n, c, "wait") /\ sock[c].dialer = n /\ reply # None
      /\ entry' = [entry EXCEPT ![n][m] = c]
      /\ known' = [known EXCEPT ![n] = book]
      /\ phase' = [phase EXCEPT ![n] = IF first THEN "join" ELSE @]
      /\ left' = [left EXCEPT ![n] = IF seed THEN book ELSE IF first THEN reply ELSE @]
      /\ Resumed(n, [sock EXCEPT ![c].end[n] = "open"], sock[c].by)
      /\ UNCHANGED <<up, timer, cached, faults>>

(***************************************************************************)
(* prepareConnection gives up, on either side.                             *)
(***************************************************************************)
HandshakeFails(n, c) ==
  /\ up[n] /\ At(n, c, "wait") /\ Lost(n, c)
  /\ Resumed(n, Closed(sock, n, c), IF sock[c].dialer = n THEN sock[c].by ELSE Connector)
  /\ UNCHANGED <<up, timer, cached, known, entry, phase, left, faults>>

-----------------------------------------------------------------------------
(* The reader of a connection, handleDecode. *)

Reads(n, c) == up[n] /\ At(n, c, "open") /\ Waiting(n, c) = {}

(***************************************************************************)
(* handleJoin takes the sender of the message for the node that joined,    *)
(* and a forwarded message names the node that forwarded it.               *)
(***************************************************************************)
ReadJoin(n, c) ==
  /\ Reads(n, c) /\ sock[c].pipe[n] # << >>
  /\ LET msg  == Head(sock[c].pipe[n])
         dial == ~HasConnection(n, msg.from) /\ msg.from \in msg.addresses /\ up[msg.from]
     IN  /\ known' = [known EXCEPT ![n] = (@ \cup msg.addresses) \ {n}]
         /\ \/ /\ dial /\ Free # {}
               /\ sock' = Dialled(n, msg.from, c)
               /\ UNCHANGED <<stored, sent>>
            \/ /\ ~dial
               /\ Handled(n, sock, c)
  /\ UNCHANGED <<up, timer, cached, entry, phase, left, faults>>

\* Mutant: the entry of the peer is deleted whatever connection it points to.
EndReaderAlways(n, c) ==
  /\ Reads(n, c) /\ Lost(n, c)
  /\ entry' = [entry EXCEPT ![n][Other(c, n)] = None]
  /\ sock' = Closed(sock, n, c)
  /\ UNCHANGED <<up, timer, cached, known, stored, sent, phase, left, faults>>

\* Mutant: the entry stays behind.
EndReaderNever(n, c) ==
  /\ Reads(n, c) /\ Lost(n, c)
  /\ sock' = Closed(sock, n, c)
  /\ UNCHANGED <<up, timer, cached, known, entry, stored, sent, phase, left, faults>>

EndReader(n, c) ==
  /\ Reads(n, c) /\ Lost(n, c)
  /\ entry' = [entry EXCEPT ![n][Other(c, n)] = IF @ = c THEN None ELSE @]
  /\ sock' = Closed(sock, n, c)
  /\ UNCHANGED <<up, timer, cached, known, stored, sent, phase, left, faults>>

-----------------------------------------------------------------------------
(* Faults. *)

(***************************************************************************)
(* The network drops a connection, or a deadline of the handshake passes.  *)
(***************************************************************************)
Cut(c) ==
  /\ faults < MaxFaults /\ faults' = faults + 1
  /\ sock[c] # None /\ ~sock[c].broken
  /\ sock' = [sock EXCEPT ![c].broken = TRUE]
  /\ UNCHANGED <<up, timer, cached, known, entry, stored, sent, phase, left>>

Crash(n) ==
  /\ faults < MaxFaults /\ faults' = faults + 1
  /\ up[n] /\ up' = [up EXCEPT ![n] = FALSE]
  /\ timer' = [timer EXCEPT ![n] = FALSE]
  /\ sock' = [c \in Conn |->
       IF sock[c] = None \/ n \notin Ends(c) THEN sock[c]
       ELSE IF sock[c].end[Other(c, n)] = "closed" THEN None
       ELSE [sock[c] EXCEPT !.end[n] = "closed", !.pipe[n] = << >>, !.broken = TRUE]]
  /\ entry' = [entry EXCEPT ![n] = [m \in Node |-> None]]
  /\ known' = [known EXCEPT ![n] = {}] /\ cached' = [cached EXCEPT ![n] = {}]
  /\ stored' = [stored EXCEPT ![n] = {}] /\ sent' = [sent EXCEPT ![n] = {}]
  /\ phase' = [phase EXCEPT ![n] = "idle"] /\ left' = [left EXCEPT ![n] = {}]

-----------------------------------------------------------------------------
Init ==
  /\ up = [n \in Node |-> FALSE] /\ timer = [n \in Node |-> FALSE]
  /\ cached = [n \in Node |-> {}] /\ known = [n \in Node |-> {}]
  /\ entry = [n \in Node |-> [m \in Node |-> None]]
  /\ sock = [c \in Conn |-> None]
  /\ stored = [n \in Node |-> {}] /\ sent = [n \in Node |-> {}]
  /\ phase = [n \in Node |-> "idle"] /\ left = [n \in Node |-> {}]
  /\ faults = 0

Connect(n) == ReconnectTick(n) \/ TryNext(n) \/ Exhausted(n) \/ FloodJoin(n)

Serve(n, c) ==
  Accept(n, c) \/ Connected(n, c) \/ HandshakeFails(n, c) \/ ReadJoin(n, c) \/ EndReader(n, c)

Next ==
  \/ \E n \in Node : Start(n) \/ RefreshManifest(n) \/ Crash(n) \/ Connect(n)
  \/ \E n \in Node, c \in Conn : Serve(n, c)
  \/ \E c \in Conn : Cut(c)

(***************************************************************************)
(* The goroutines of a running node make progress: the connector and its   *)
(* ticker, the accept loop, the dials and the readers.  Nothing is asked   *)
(* of operators, of the registry or of faults.                             *)
(***************************************************************************)
Fairness ==
  /\ \A n \in Node : WF_vars(Connect(n))
  /\ \A n \in Node : WF_vars(\E c \in Conn : Serve(n, c))

Spec == Init /\ [][Next]_vars

FairSpec == Spec /\ Fairness

-----------------------------------------------------------------------------
(***************************************************************************)
(* Types.  A connection joins two nodes: a node that is in the manifest or *)
(* in its own list never dials itself.  A goroutine that waits for a       *)
(* handshake is alive: a reader stays while the connection it dials is     *)
(* pending, although its own may be gone.                                  *)
(***************************************************************************)
TypeOK ==
  /\ up \in [Node -> BOOLEAN] /\ timer \in [Node -> BOOLEAN]
  /\ cached \in [Node -> SUBSET Node] /\ known \in [Node -> SUBSET Node]
  /\ entry \in [Node -> [Node -> Conn \cup {None}]]
  /\ sent \in [Node -> SUBSET Node] /\ left \in [Node -> SUBSET Node]
  /\ phase \in [Node -> {"idle", "known", "bootstrap", "seed", "join"}]
  /\ faults \in 0 .. MaxFaults
  /\ \A c \in Conn : sock[c] # None =>
       /\ Cardinality(Ends(c)) = 2 /\ sock[c].dialer \in Ends(c)
       /\ sock[c].by # Connector /\ sock[c].end[sock[c].dialer] = "wait" =>
            At(sock[c].dialer, sock[c].by, "open")

(***************************************************************************)
(* The map never points to a connection whose reader has ended, so that    *)
(* PeerCount, which the reconnect timer waits to be 0, counts no dead one. *)
(***************************************************************************)
EntriesAreRead ==
  \A n, m \in Node : entry[n][m] # None => At(n, entry[n][m], "open")

(***************************************************************************)
(* "Multiple reconnects can coexist; deleting unconditionally may drop a   *)
(* newer connection" (peer.go:290): while the reader of the connection in  *)
(* the map runs, the peer keeps an entry, whichever older connections to   *)
(* it end meanwhile.                                                       *)
(***************************************************************************)
EntryStep ==
  \A n, m \in Node, c \in Conn :
    entry[n][m] = c /\ entry'[n][m] = None => ~At(n, c, "open")'

NewestKept == [][EntryStep]_vars

(***************************************************************************)
(* "automatic reconnect attempts to known peers, dynamic manifest peers,   *)
(* and static seed peers" (docs/docker-hub-overview.md:43): a node without *)
(* a live connection whose reconnect goroutine runs is connected again as  *)
(* long as one node that it knows or is configured with stays up.          *)
(***************************************************************************)
Online(n) == \E m \in Node : entry[n][m] # None /\ ~Lost(n, entry[n][m])

Reachable(n) ==
  /\ up[n] /\ timer[n]
  /\ \E m \in (known[n] \cup BootstrapPeers(n, cached[n]) \cup Seed[n]) : up[m]

Reconnects == \A n \in Node : Reachable(n) /\ ~Online(n) ~> ~Reachable(n) \/ Online(n)
=============================================================================
