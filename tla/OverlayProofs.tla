----------------------------- MODULE OverlayProofs ----------------------------
(***************************************************************************)
(* Proofs about the connections of the overlay, for every number of nodes, *)
(* connections and faults: the map of connections never points to a dead   *)
(* one, and a newer connection is never dropped for an older one.          *)
(***************************************************************************)
EXTENDS Overlay, FiniteSetTheorems, SequenceTheorems, TLAPS

EndState == {"wait", "open", "closed"}

Sockets == [Conn -> Connection \cup {None}]

Entries == [Node -> [Node -> Conn \cup {None}]]

(***************************************************************************)
(* The end of n at connection c is open; the reader of a connection waits  *)
(* for the handshake of connection c, which it dialled.                    *)
(***************************************************************************)
Open(s, n, c) == s[c] # None /\ n \in DOMAIN s[c].end /\ s[c].end[n] = "open"

Waits(s, c) == s[c] # None /\ s[c].by # Connector /\ s[c].end[s[c].dialer] = "wait"

WaitsFor(s, d, n, c) == Waits(s, d) /\ s[d].dialer = n /\ s[d].by = c

(***************************************************************************)
(* A reader that waits is alive and still holds the message it handles,    *)
(* and it waits for one connection at a time.                              *)
(***************************************************************************)
Pending(s) ==
  /\ \A d \in Conn : Waits(s, d) =>
       Open(s, s[d].dialer, s[d].by) /\ s[s[d].by].pipe[s[d].dialer] # << >>
  /\ \A c, d \in Conn :
       Waits(s, c) /\ Waits(s, d) /\ s[c].dialer = s[d].dialer /\ s[c].by = s[d].by => c = d

(***************************************************************************)
(* An entry of the map points to an open end of a connection to that peer. *)
(***************************************************************************)
Wired(s, e) ==
  \A n, m \in Node : e[n][m] # None =>
    Open(s, n, e[n][m]) /\ DOMAIN s[e[n][m]].end = {n, m}

Fit(s, e) == s \in Sockets /\ e \in Entries /\ Pending(s) /\ Wired(s, e)

-----------------------------------------------------------------------------
(* Connections as records. *)

(***************************************************************************)
(* The fields of a connection have their types.                            *)
(***************************************************************************)
LEMMA ConnectionFields ==
  ASSUME NEW r \in Connection
  PROVE  /\ r # None /\ DOMAIN r.end \in Pair /\ r.dialer \in DOMAIN r.end
         /\ r.end \in [DOMAIN r.end -> EndState]
         /\ r.pipe \in [DOMAIN r.end -> Seq(JoinMessage)]
         /\ r.by \in Conn \cup {Connector} /\ r.broken \in BOOLEAN
         /\ r.reply \in (SUBSET Node) \cup {None}
<1>1. r # None BY NoConnectionAssumption
<1>2. PICK e \in Pair : r \in ConnectionOf(e) BY DEF Connection
<1>3. r.end \in [e -> EndState] BY <1>2 DEF ConnectionOf, EndState
<1>4. DOMAIN r.end = e BY <1>3
<1> QED BY <1>1, <1>2, <1>3, <1>4 DEF ConnectionOf

(***************************************************************************)
(* A connection rewritten in its ends, its queues, its reply and its flag. *)
(***************************************************************************)
With(r, end, pipe, reply, broken) ==
  [r EXCEPT !.end = end, !.pipe = pipe, !.reply = reply, !.broken = broken]

Fields(r, E, P, y, b) ==
  /\ E \in [DOMAIN r.end -> EndState] /\ P \in [DOMAIN r.end -> Seq(JoinMessage)]
  /\ y \in (SUBSET Node) \cup {None} /\ b \in BOOLEAN

(***************************************************************************)
(* Rewriting a connection with typed values gives a connection between the *)
(* same two nodes, dialled by the same goroutine.                          *)
(***************************************************************************)
LEMMA ConnectionWith ==
  ASSUME NEW r \in Connection, NEW E, NEW P, NEW y, NEW b, Fields(r, E, P, y, b)
  PROVE  /\ With(r, E, P, y, b) \in Connection /\ With(r, E, P, y, b) # None
         /\ With(r, E, P, y, b).end = E /\ With(r, E, P, y, b).pipe = P
         /\ With(r, E, P, y, b).dialer = r.dialer /\ With(r, E, P, y, b).by = r.by
<1> DEFINE z == With(r, E, P, y, b)
<1>1. PICK e \in Pair : r \in ConnectionOf(e) BY DEF Connection
<1>2. DOMAIN r.end = e BY <1>1 DEF ConnectionOf
<1>3. /\ z.end = E /\ z.pipe = P /\ z.dialer = r.dialer /\ z.by = r.by
      /\ z \in ConnectionOf(e)
  BY <1>1, <1>2 DEF With, ConnectionOf, EndState, Fields
<1>4. z \in Connection BY <1>3 DEF Connection
<1> HIDE DEF z
<1>5. z # None BY <1>4, NoConnectionAssumption
<1> QED BY <1>3, <1>4, <1>5 DEF z

(***************************************************************************)
(* The partial updates that the actions make, in that form.                *)
(***************************************************************************)
LEMMA PartialUpdates ==
  ASSUME NEW r \in Connection, NEW E, NEW P, NEW y, NEW b
  PROVE  /\ [r EXCEPT !.pipe = P] = With(r, r.end, P, r.reply, r.broken)
         /\ [r EXCEPT !.end = E] = With(r, E, r.pipe, r.reply, r.broken)
         /\ [r EXCEPT !.end = E, !.pipe = P] = With(r, E, P, r.reply, r.broken)
         /\ [r EXCEPT !.broken = b] = With(r, r.end, r.pipe, r.reply, b)
         /\ [r EXCEPT !.end = E, !.pipe = P, !.broken = b] = With(r, E, P, r.reply, b)
         /\ [r EXCEPT !.end = E, !.reply = y, !.pipe = P] = With(r, E, P, y, r.broken)
<1>1. PICK e \in Pair : r \in ConnectionOf(e) BY DEF Connection
<1> QED BY <1>1 DEF With, ConnectionOf

(***************************************************************************)
(* The two ends of a connection.                                           *)
(***************************************************************************)
LEMMA OtherEnd ==
  ASSUME NEW c \in Conn, sock[c] \in Connection, NEW n \in DOMAIN sock[c].end
  PROVE  /\ Other(c, n) \in Node /\ n \in Node /\ Other(c, n) # n
         /\ DOMAIN sock[c].end = {n, Other(c, n)}
<1>1. DOMAIN sock[c].end \in Pair BY ConnectionFields
<1>2. PICK x, y \in Node : x # y /\ DOMAIN sock[c].end = {x, y} BY <1>1 DEF Pair
<1>3. \E m \in Ends(c) : m # n BY <1>2 DEF Ends
<1>4. Other(c, n) \in Ends(c) /\ Other(c, n) # n BY <1>3 DEF Other
<1> QED BY <1>2, <1>4 DEF Ends

(***************************************************************************)
(* A set of natural numbers that is not empty has a least element.         *)
(***************************************************************************)
LEMMA LeastNatural ==
  ASSUME NEW S \in SUBSET Nat, S # {}
  PROVE  \E x \in S : \A y \in S : x <= y
<1> DEFINE R == {p \in Nat \X Nat : p[1] < p[2]}
<1>1. OpToRel(<, Nat) = R BY Zenon DEF OpToRel
<1>2. IsWellFoundedOn(R, Nat) BY <1>1, NatLessThanWellFounded, Zenon
<1>3. \A a, b \in Nat : a < b => <<a, b>> \in R OBVIOUS
<1> HIDE DEF R
<1>4. PICK x \in S : \A y \in S : ~(<<y, x>> \in R) BY <1>2, WFMin
<1>5. ASSUME NEW y \in S PROVE x <= y
  <2>1. x \in Nat /\ y \in Nat OBVIOUS
  <2>2. ~(y < x) BY <1>3, <1>4, <2>1, Zenon
  <2> QED BY <2>1, <2>2
<1> QED BY <1>5

(***************************************************************************)
(* The connection identifier that a dial takes is a free one.              *)
(***************************************************************************)
LEMMA MinFree ==
  ASSUME Free # {}
  PROVE  Min(Free) \in Conn /\ sock[Min(Free)] = None
<1>1. Free \in SUBSET Nat BY OverlayAssumption DEF Free
<1>2. PICK x \in Free : \A y \in Free : x <= y BY <1>1, LeastNatural
<1>3. Min(Free) \in Free BY <1>2 DEF Min
<1> QED BY <1>3 DEF Free

-----------------------------------------------------------------------------
(* What the parts of the actions do to the connections. *)

(***************************************************************************)
(* A socket is absent or a connection.                                     *)
(***************************************************************************)
LEMMA SocketCases ==
  ASSUME NEW s \in Sockets, NEW c \in Conn, s[c] # None
  PROVE  s[c] \in Connection
BY DEF Sockets

(***************************************************************************)
(* Both ends of every connection, and who dialled it, are the same in z.   *)
(***************************************************************************)
SameEnds(s, z) ==
  \A c \in Conn :
    /\ z[c] = None <=> s[c] = None
    /\ s[c] # None =>
         z[c].end = s[c].end /\ z[c].dialer = s[c].dialer /\ z[c].by = s[c].by

(***************************************************************************)
(* A step that leaves the ends alone and drains no queue that a waiting    *)
(* reader has still to handle keeps the map and the readers as they were.  *)
(***************************************************************************)
LEMMA SameEndsFit ==
  ASSUME NEW s, NEW e, Fit(s, e), NEW z \in Sockets, SameEnds(s, z),
         \A c, d \in Conn : Waits(s, d) /\ s[d].by = c /\ s[c].pipe[s[d].dialer] # << >> =>
           z[c].pipe[s[d].dialer] # << >>
  PROVE  Fit(z, e)
<1>1. s \in Sockets /\ e \in Entries /\ Pending(s) /\ Wired(s, e) BY DEF Fit
<1>2. \A c \in Conn : Waits(z, c) <=> Waits(s, c) BY DEF Waits, SameEnds
<1>3. \A c \in Conn, n \in Node : Open(z, n, c) <=> Open(s, n, c) BY DEF Open, SameEnds
<1>4. \A d \in Conn : Waits(s, d) => s[d].by \in Conn /\ s[d].dialer \in Node
  <2> SUFFICES ASSUME NEW d \in Conn, Waits(s, d) PROVE s[d].by \in Conn /\ s[d].dialer \in Node
    OBVIOUS
  <2>1. s[d] \in Connection /\ s[d].by # Connector BY <1>1, SocketCases DEF Waits
  <2> QED BY <2>1, ConnectionFields DEF Pair
<1>5. Pending(z)
  <2>1. ASSUME NEW d \in Conn, Waits(z, d)
        PROVE  Open(z, z[d].dialer, z[d].by) /\ z[z[d].by].pipe[z[d].dialer] # << >>
    <3>1. Waits(s, d) /\ z[d].dialer = s[d].dialer /\ z[d].by = s[d].by
      BY <1>2, <2>1 DEF Waits, SameEnds
    <3>2. Open(s, s[d].dialer, s[d].by) /\ s[s[d].by].pipe[s[d].dialer] # << >>
      BY <1>1, <3>1 DEF Pending
    <3>3. s[d].by \in Conn /\ s[d].dialer \in Node BY <1>4, <3>1
    <3> QED BY <1>3, <3>1, <3>2, <3>3
  <2>2. ASSUME NEW c \in Conn, NEW d \in Conn, Waits(z, c), Waits(z, d),
               z[c].dialer = z[d].dialer, z[c].by = z[d].by
        PROVE  c = d
    <3>1. Waits(s, c) /\ Waits(s, d) BY <1>2, <2>2
    <3>2. s[c].dialer = s[d].dialer /\ s[c].by = s[d].by BY <2>2, <3>1 DEF Waits, SameEnds
    <3> QED BY <1>1, <3>1, <3>2 DEF Pending
  <2> QED BY <2>1, <2>2 DEF Pending
<1>6. Wired(z, e)
  <2> SUFFICES ASSUME NEW n \in Node, NEW m \in Node, e[n][m] # None
               PROVE  Open(z, n, e[n][m]) /\ DOMAIN z[e[n][m]].end = {n, m}
    BY DEF Wired
  <2>1. e[n][m] \in Conn BY <1>1 DEF Entries
  <2>2. Open(s, n, e[n][m]) /\ DOMAIN s[e[n][m]].end = {n, m} BY <1>1 DEF Wired
  <2> QED BY <1>3, <2>1, <2>2 DEF SameEnds, Open
<1> QED BY <1>1, <1>5, <1>6 DEF Fit

(***************************************************************************)
(* Rewriting one connection.                                               *)
(***************************************************************************)
Rewritten(s, c, E, P, y, b) == [s EXCEPT ![c] = With(s[c], E, P, y, b)]

(***************************************************************************)
(* The rewritten connection has the new ends and queues, and the others    *)
(* are untouched.                                                          *)
(***************************************************************************)
LEMMA RewrittenSockets ==
  ASSUME NEW s \in Sockets, NEW c \in Conn, s[c] # None,
         NEW E, NEW P, NEW y, NEW b, Fields(s[c], E, P, y, b)
  PROVE  /\ Rewritten(s, c, E, P, y, b) \in Sockets
         /\ Rewritten(s, c, E, P, y, b)[c] # None
         /\ Rewritten(s, c, E, P, y, b)[c].end = E
         /\ Rewritten(s, c, E, P, y, b)[c].pipe = P
         /\ Rewritten(s, c, E, P, y, b)[c].dialer = s[c].dialer
         /\ Rewritten(s, c, E, P, y, b)[c].by = s[c].by
         /\ \A d \in Conn : d # c => Rewritten(s, c, E, P, y, b)[d] = s[d]
<1> DEFINE r == s[c]
           w == With(r, E, P, y, b)
<1>1. r \in Connection BY SocketCases
<1>2. Fields(r, E, P, y, b) OBVIOUS
<1> HIDE DEF r
<1>3. /\ w \in Connection /\ w # None
      /\ w.end = E /\ w.pipe = P /\ w.dialer = r.dialer /\ w.by = r.by
  BY <1>1, <1>2, ConnectionWith
<1>4. Rewritten(s, c, E, P, y, b) = [s EXCEPT ![c] = w] BY DEF Rewritten, r
<1> HIDE DEF w
<1> QED BY <1>3, <1>4 DEF Sockets, r

(***************************************************************************)
(* The reader of n at c takes the first message off its queue, when it is  *)
(* not waiting for a connection it dialled for that message.               *)
(***************************************************************************)
LEMMA ConsumeFit ==
  ASSUME NEW s, NEW e, Fit(s, e), NEW c \in Conn, NEW n \in Node, s[c] # None,
         n \in DOMAIN s[c].end, s[c].pipe[n] # << >>,
         \A d \in Conn : ~WaitsFor(s, d, n, c)
  PROVE  /\ Head(s[c].pipe[n]) \in JoinMessage
         /\ SameEnds(s, [s EXCEPT ![c].pipe[n] = Tail(@)])
         /\ Fit([s EXCEPT ![c].pipe[n] = Tail(@)], e)
<1> DEFINE r == s[c]
           P == [r.pipe EXCEPT ![n] = Tail(@)]
           z == Rewritten(s, c, r.end, P, r.reply, r.broken)
<1>1. s \in Sockets /\ r \in Connection BY SocketCases DEF Fit
<1>2. r.pipe[n] \in Seq(JoinMessage) BY <1>1, ConnectionFields
<1>3. Head(r.pipe[n]) \in JoinMessage /\ Tail(r.pipe[n]) \in Seq(JoinMessage)
  BY <1>2, HeadTailProperties
<1>4. r.pipe \in [DOMAIN r.end -> Seq(JoinMessage)] BY <1>1, ConnectionFields
<1>5. Fields(r, r.end, P, r.reply, r.broken) BY <1>1, <1>3, <1>4, ConnectionFields DEF Fields
<1>6. [r EXCEPT !.pipe = P] = With(r, r.end, P, r.reply, r.broken) BY <1>1, PartialUpdates
<1>7. [s EXCEPT ![c].pipe[n] = Tail(@)] = z BY <1>6 DEF Rewritten
<1>8. \A x \in DOMAIN r.end : x # n => P[x] = r.pipe[x] BY <1>4
<1> HIDE DEF P, z
<1>9. /\ z \in Sockets /\ z[c] # None
      /\ z[c].end = r.end /\ z[c].pipe = P /\ z[c].dialer = r.dialer /\ z[c].by = r.by
      /\ \A d \in Conn : d # c => z[d] = s[d]
  BY <1>1, <1>5, RewrittenSockets DEF z
<1>10. SameEnds(s, z) BY <1>9 DEF SameEnds
<1>11. ASSUME NEW a \in Conn, NEW d \in Conn, Waits(s, d), s[d].by = a,
              s[a].pipe[s[d].dialer] # << >>
       PROVE  z[a].pipe[s[d].dialer] # << >>
  <2>1. CASE a # c BY <1>9, <1>11, <2>1
  <2>2. CASE a = c
    <3>1. s[d].dialer # n BY <1>11, <2>2 DEF WaitsFor
    <3>2. s[d].dialer \in DOMAIN r.end BY <1>11, <2>2 DEF Fit, Pending, Open
    <3> QED BY <1>8, <1>9, <1>11, <2>2, <3>1, <3>2
  <2> QED BY <2>1, <2>2
<1>12. Fit(z, e) BY <1>9, <1>10, <1>11, SameEndsFit
<1> QED BY <1>3, <1>7, <1>10, <1>12

(***************************************************************************)
(* From s to z, the reader of connection a stays alive and keeps the       *)
(* message it handles; no reader starts to wait.                           *)
(***************************************************************************)
Lasts(s, z, x, a) == Open(z, x, a) /\ (s[a].pipe[x] # << >> => z[a].pipe[x] # << >>)

NoNewWait(s, z) ==
  \A d \in Conn : Waits(z, d) =>
    Waits(s, d) /\ z[d].dialer = s[d].dialer /\ z[d].by = s[d].by

(***************************************************************************)
(* When no reader starts to wait, it is enough that every reader that goes *)
(* on waiting stays alive with its message, and that the new map points to *)
(* open ends.                                                              *)
(***************************************************************************)
LEMMA EvolveFit ==
  ASSUME NEW s, NEW e, Fit(s, e), NEW z \in Sockets, NEW f \in Entries,
         NoNewWait(s, z),
         \A d, a \in Conn, x \in Node : Open(s, x, a) /\ WaitsFor(z, d, x, a) => Lasts(s, z, x, a),
         Wired(z, f)
  PROVE  Fit(z, f)
<1>1. s \in Sockets /\ Pending(s) BY DEF Fit
<1>2. ASSUME NEW d \in Conn, Waits(z, d)
      PROVE  Open(z, z[d].dialer, z[d].by) /\ z[z[d].by].pipe[z[d].dialer] # << >>
  <2>1. Waits(s, d) /\ z[d].dialer = s[d].dialer /\ z[d].by = s[d].by BY <1>2 DEF NoNewWait
  <2>2. Open(s, s[d].dialer, s[d].by) /\ s[s[d].by].pipe[s[d].dialer] # << >>
    BY <1>1, <2>1 DEF Pending
  <2>3. z[d] \in Connection /\ z[d].by # Connector BY <1>2, SocketCases DEF Waits
  <2>4. z[d].by \in Conn /\ z[d].dialer \in Node BY <2>3, ConnectionFields DEF Pair
  <2>5. WaitsFor(z, d, z[d].dialer, z[d].by) BY <1>2 DEF WaitsFor
  <2> QED BY <2>1, <2>2, <2>4, <2>5 DEF Lasts
<1>3. ASSUME NEW c \in Conn, NEW d \in Conn, Waits(z, c), Waits(z, d),
             z[c].dialer = z[d].dialer, z[c].by = z[d].by
      PROVE  c = d
  <2>1. /\ Waits(s, c) /\ z[c].dialer = s[c].dialer /\ z[c].by = s[c].by
        /\ Waits(s, d) /\ z[d].dialer = s[d].dialer /\ z[d].by = s[d].by
    BY <1>3 DEF NoNewWait
  <2> QED BY <1>1, <1>3, <2>1 DEF Pending
<1> QED BY <1>2, <1>3 DEF Fit, Pending

WithQueue(r, x, q) == [r EXCEPT !.pipe[x] = q]

(***************************************************************************)
(* A queue of a connection is replaced.                                    *)
(***************************************************************************)
LEMMA QueueUpdate ==
  ASSUME NEW r \in Connection, NEW x \in DOMAIN r.end, NEW q \in Seq(JoinMessage)
  PROVE  /\ WithQueue(r, x, q) \in Connection /\ WithQueue(r, x, q) # None
         /\ WithQueue(r, x, q).end = r.end
         /\ WithQueue(r, x, q).dialer = r.dialer
         /\ WithQueue(r, x, q).by = r.by
         /\ WithQueue(r, x, q).pipe[x] = q
         /\ \A m \in DOMAIN r.end : m # x => WithQueue(r, x, q).pipe[m] = r.pipe[m]
<1> DEFINE P == [r.pipe EXCEPT ![x] = q]
           w == With(r, r.end, P, r.reply, r.broken)
<1>1. r.pipe \in [DOMAIN r.end -> Seq(JoinMessage)] BY ConnectionFields
<1>2. /\ P \in [DOMAIN r.end -> Seq(JoinMessage)] /\ P[x] = q
      /\ \A m \in DOMAIN r.end : m # x => P[m] = r.pipe[m] BY <1>1
<1>3. Fields(r, r.end, P, r.reply, r.broken) BY <1>2, ConnectionFields DEF Fields
<1>4. WithQueue(r, x, q) = w BY PartialUpdates DEF WithQueue
<1> HIDE DEF P
<1>5. /\ w \in Connection /\ w # None
      /\ w.end = r.end /\ w.pipe = P /\ w.dialer = r.dialer /\ w.by = r.by
  BY <1>3, ConnectionWith
<1> HIDE DEF w
<1> QED BY <1>2, <1>4, <1>5

(***************************************************************************)
(* s is a state of the connections in the middle of a step: the ones that  *)
(* are open in it join the same nodes as before the step.                  *)
(***************************************************************************)
SameNodes(s) ==
  \A c \in Conn : s[c] # None => sock[c] \in Connection /\ DOMAIN sock[c].end = DOMAIN s[c].end

(***************************************************************************)
(* Flooding appends to queues and does nothing else.  s is the state of    *)
(* the connections when the message is written, in the middle of a step.   *)
(***************************************************************************)
LEMMA FloodedFit ==
  ASSUME NEW s, NEW e, Fit(s, e), Wired(s, entry), entry \in Entries, SameNodes(s),
         NEW n \in Node, NEW msg \in JoinMessage, NEW except
  PROVE  SameEnds(s, Flooded(n, s, msg, except)) /\ Fit(Flooded(n, s, msg, except), e)
<1> DEFINE z == Flooded(n, s, msg, except)
           Hit(c) == s[c] # None /\ \E m \in Node \ except :
                       entry[n][m] = c /\ s[c].end[m] # "closed" /\ ~s[c].broken
           w(c) == [s[c] EXCEPT !.pipe[Other(c, n)] = Append(s[c].pipe[Other(c, n)], msg)]
<1>1. s \in Sockets BY DEF Fit
<1>2. z = [c \in Conn |-> IF Hit(c) THEN w(c) ELSE s[c]] BY DEF Flooded
<1>3. ASSUME NEW c \in Conn, Hit(c)
      PROVE  /\ w(c) \in Connection /\ w(c) # None /\ s[c] # None
             /\ w(c).end = s[c].end /\ w(c).dialer = s[c].dialer /\ w(c).by = s[c].by
             /\ \A x \in DOMAIN s[c].end : s[c].pipe[x] # << >> => w(c).pipe[x] # << >>
  <2>1. PICK m \in Node : entry[n][m] = c BY <1>3
  <2>2. s[c] \in Connection BY <1>1, <1>3, SocketCases
  <2>3. c # None BY OverlayAssumption
  <2>4. n \in DOMAIN s[c].end BY <2>1, <2>3 DEF Wired, Open
  <2>5. Other(c, n) \in DOMAIN s[c].end BY <1>3, <2>4, OtherEnd DEF SameNodes
  <2> DEFINE o == Other(c, n)
             q == Append(s[c].pipe[o], msg)
  <2>6. s[c].pipe[o] \in Seq(JoinMessage) BY <2>2, <2>5, ConnectionFields
  <2>7. q \in Seq(JoinMessage) /\ q # << >> BY <2>6, AppendProperties
  <2> HIDE DEF o, q
  <2>8. w(c) = WithQueue(s[c], o, q) BY DEF o, q, WithQueue
  <2> HIDE DEF w
  <2>9. /\ w(c) \in Connection /\ w(c) # None
        /\ w(c).end = s[c].end /\ w(c).dialer = s[c].dialer /\ w(c).by = s[c].by
        /\ w(c).pipe[o] = q
        /\ \A x \in DOMAIN s[c].end : x # o => w(c).pipe[x] = s[c].pipe[x]
    BY <2>2, <2>5, <2>7, <2>8, QueueUpdate DEF o
  <2> QED BY <1>3, <2>7, <2>9
<1> HIDE DEF w, Hit
<1>4. z \in Sockets BY <1>1, <1>2, <1>3 DEF Sockets
<1>5. SameEnds(s, z) BY <1>2, <1>3 DEF SameEnds
<1>6. \A c \in Conn : z[c] = s[c] \/ (Hit(c) /\ z[c] = w(c)) BY <1>2
<1> HIDE DEF z
<1>7. ASSUME NEW c \in Conn, NEW d \in Conn, Waits(s, d), s[d].by = c,
             s[c].pipe[s[d].dialer] # << >>
      PROVE  z[c].pipe[s[d].dialer] # << >>
  <2>1. s[d].dialer \in DOMAIN s[c].end BY <1>7 DEF Fit, Pending, Open
  <2>2. CASE z[c] = s[c] BY <1>7, <2>2
  <2>3. CASE Hit(c) /\ z[c] = w(c) BY <1>3, <1>7, <2>1, <2>3
  <2> QED BY <1>6, <2>2, <2>3
<1>8. Fit(z, e) BY <1>4, <1>5, <1>7, SameEndsFit
<1> QED BY <1>5, <1>8 DEF z

(***************************************************************************)
(* n closes its end of c, when no reader waits on behalf of that end and   *)
(* no entry of n points to it.                                             *)
(***************************************************************************)
LEMMA ClosedFit ==
  ASSUME NEW s, NEW e, Fit(s, e), NEW n \in Node, NEW c \in Conn, s[c] # None,
         n \in DOMAIN s[c].end,
         \A d \in Conn : ~WaitsFor(s, d, n, c),
         \A m \in Node : e[n][m] # c
  PROVE  /\ Fit(Closed(s, n, c), e)
         /\ ~Open(Closed(s, n, c), n, c)
         /\ NoNewWait(s, Closed(s, n, c))
         /\ ~WaitsFor(Closed(s, n, c), c, n, s[c].by)
         /\ \A d \in Conn : Closed(s, n, c)[d] # None =>
              s[d] # None /\ DOMAIN Closed(s, n, c)[d].end = DOMAIN s[d].end
         /\ \A a \in Conn, x \in Node : Open(s, x, a) /\ ~(x = n /\ a = c) =>
              Lasts(s, Closed(s, n, c), x, a)
<1> DEFINE z == Closed(s, n, c)
           r == s[c]
           E == [r.end EXCEPT ![n] = "closed"]
           P == [r.pipe EXCEPT ![n] = << >>]
           w == Rewritten(s, c, E, P, r.reply, r.broken)
           gone == Range(E) = {"closed"}
<1>1. s \in Sockets /\ r \in Connection /\ e \in Entries BY SocketCases DEF Fit
<1>2. r.end \in [DOMAIN r.end -> EndState] /\ r.pipe \in [DOMAIN r.end -> Seq(JoinMessage)]
  BY <1>1, ConnectionFields
<1>3. /\ E \in [DOMAIN r.end -> EndState] /\ E[n] = "closed"
      /\ \A x \in DOMAIN r.end : x # n => E[x] = r.end[x]
  BY <1>2 DEF EndState
<1>4. /\ P \in [DOMAIN r.end -> Seq(JoinMessage)]
      /\ \A x \in DOMAIN r.end : x # n => P[x] = r.pipe[x]
  BY <1>2, EmptySeq
<1>5. Fields(r, E, P, r.reply, r.broken) BY <1>1, <1>3, <1>4, ConnectionFields DEF Fields
<1>6. PICK j \in Pair : r \in ConnectionOf(j) BY <1>1 DEF Connection
<1>7. ASSUME NEW F
      PROVE  [r EXCEPT !.end = F, !.pipe[n] = << >>] = With(r, F, P, r.reply, r.broken)
  BY <1>6 DEF With, ConnectionOf
<1>8. z = IF gone THEN [s EXCEPT ![c] = None] ELSE w
  BY <1>7 DEF Closed, Rewritten
<1>9. ~gone => \E x \in DOMAIN r.end : E[x] # "closed"
  BY <1>3 DEF Range
<1>10. gone => \A x \in DOMAIN r.end : E[x] = "closed" BY <1>3 DEF Range
<1> HIDE DEF E, P, gone, z
<1>11. /\ w \in Sockets /\ w[c] # None
       /\ w[c].end = E /\ w[c].pipe = P /\ w[c].dialer = r.dialer /\ w[c].by = r.by
       /\ \A d \in Conn : d # c => w[d] = s[d]
  <2> HIDE DEF w
  <2> QED BY <1>1, <1>5, RewrittenSockets DEF w
<1> HIDE DEF w
<1>12. z \in Sockets /\ \A d \in Conn : d # c => z[d] = s[d]
  BY <1>1, <1>8, <1>11 DEF Sockets
<1>13. z[c] = IF gone THEN None ELSE w[c] BY <1>1, <1>8 DEF Sockets
<1>14. NoNewWait(s, z)
  <2> SUFFICES ASSUME NEW d \in Conn, Waits(z, d)
               PROVE  Waits(s, d) /\ z[d].dialer = s[d].dialer /\ z[d].by = s[d].by
    BY DEF NoNewWait
  <2>1. CASE d # c BY <1>12, <2>1 DEF Waits
  <2>2. CASE d = c
    <3>1. z[c] = w[c] /\ E[r.dialer] = "wait" /\ r.by # Connector
      BY <1>11, <1>13, <2>2 DEF Waits
    <3>2. r.dialer \in DOMAIN r.end BY <1>1, ConnectionFields
    <3>3. r.end[r.dialer] = "wait" BY <1>3, <3>1, <3>2
    <3> QED BY <1>11, <2>2, <3>1, <3>3 DEF Waits
  <2> QED BY <2>1, <2>2
<1>15. ASSUME NEW a \in Conn, NEW x \in Node, Open(s, x, a), ~(x = n /\ a = c)
       PROVE  Lasts(s, z, x, a) /\ DOMAIN z[a].end = DOMAIN s[a].end
  <2>1. CASE a # c BY <1>12, <1>15, <2>1 DEF Open, Lasts
  <2>2. CASE a = c /\ x # n
    <3>1. E[x] = "open" /\ P[x] = r.pipe[x] /\ x \in DOMAIN r.end
      BY <1>3, <1>4, <1>15, <2>2 DEF Open
    <3>2. ~gone BY <1>10, <3>1
    <3> QED BY <1>3, <1>11, <1>13, <2>2, <3>1, <3>2 DEF Open, Lasts
  <2> QED BY <1>15, <2>1, <2>2
<1>16. Wired(z, e)
  <2> SUFFICES ASSUME NEW x \in Node, NEW m \in Node, e[x][m] # None
               PROVE  Open(z, x, e[x][m]) /\ DOMAIN z[e[x][m]].end = {x, m}
    BY DEF Wired
  <2>1. e[x][m] \in Conn /\ Open(s, x, e[x][m]) /\ DOMAIN s[e[x][m]].end = {x, m}
    BY <1>1 DEF Fit, Wired, Entries
  <2> QED BY <1>15, <2>1 DEF Lasts
<1>17. ASSUME NEW d \in Conn, NEW a \in Conn, NEW x \in Node, Open(s, x, a), WaitsFor(z, d, x, a)
       PROVE  Lasts(s, z, x, a)
  <2>1. WaitsFor(s, d, x, a) BY <1>14, <1>17 DEF WaitsFor, NoNewWait
  <2> QED BY <1>15, <1>17, <2>1
<1>18. Fit(z, e) BY <1>1, <1>12, <1>14, <1>16, <1>17, EvolveFit
<1>19. ~Open(z, n, c) BY <1>3, <1>11, <1>13 DEF Open
<1>20. ~WaitsFor(z, c, n, s[c].by) BY <1>3, <1>11, <1>13 DEF WaitsFor, Waits
<1>21. \A d \in Conn : z[d] # None => s[d] # None /\ DOMAIN z[d].end = DOMAIN s[d].end
  BY <1>3, <1>11, <1>12, <1>13
<1> QED BY <1>14, <1>15, <1>18, <1>19, <1>20, <1>21 DEF z

Opened(s, n, c, P, y) == Rewritten(s, c, [s[c].end EXCEPT ![n] = "open"], P, y, s[c].broken)

PointTo(e, n, m, c) == [e EXCEPT ![n][m] = c]

(***************************************************************************)
(* What opening an end asks for: it is pending, and the queues only grow.  *)
(***************************************************************************)
CanOpen(s, e, n, m, c, P, y) ==
  /\ Fit(s, e) /\ n \in Node /\ m \in Node /\ c \in Conn /\ s[c] # None
  /\ DOMAIN s[c].end = {n, m} /\ s[c].end[n] = "wait"
  /\ Fields(s[c], s[c].end, P, y, s[c].broken)
  /\ \A x \in DOMAIN s[c].end : s[c].pipe[x] # << >> => P[x] # << >>

(***************************************************************************)
(* n opens its end of c, and the map may point to it from then on.  Queues *)
(* may grow meanwhile.                                                     *)
(***************************************************************************)
LEMMA OpenedFit ==
  ASSUME NEW s, NEW e, NEW n, NEW m, NEW c, NEW P, NEW y, CanOpen(s, e, n, m, c, P, y)
  PROVE  /\ Fit(Opened(s, n, c, P, y), e) /\ Fit(Opened(s, n, c, P, y), PointTo(e, n, m, c))
         /\ NoNewWait(s, Opened(s, n, c, P, y))
         /\ s[c].dialer = n => ~Waits(Opened(s, n, c, P, y), c)
         /\ \A a \in Conn, x \in Node : Open(s, x, a) => Lasts(s, Opened(s, n, c, P, y), x, a)
         /\ \A d \in Conn : Opened(s, n, c, P, y)[d] # None =>
              s[d] # None /\ DOMAIN Opened(s, n, c, P, y)[d].end = DOMAIN s[d].end
<1> DEFINE z == Opened(s, n, c, P, y)
<1> HIDE DEF z
<1> USE DEF CanOpen
<1> DEFINE r == s[c]
           E == [r.end EXCEPT ![n] = "open"]
           f == PointTo(e, n, m, c)
<1>1. s \in Sockets /\ r \in Connection /\ e \in Entries BY SocketCases DEF Fit
<1>2. r.end \in [DOMAIN r.end -> EndState] BY <1>1, ConnectionFields
<1>3. /\ E \in [DOMAIN r.end -> EndState] /\ E[n] = "open"
      /\ \A x \in DOMAIN r.end : x # n => E[x] = r.end[x]
  BY <1>2 DEF EndState
<1>4. Fields(r, E, P, y, r.broken) BY <1>3 DEF Fields
<1> HIDE DEF E
<1>5. /\ z \in Sockets /\ z[c] # None
      /\ z[c].end = E /\ z[c].pipe = P /\ z[c].dialer = r.dialer /\ z[c].by = r.by
      /\ \A d \in Conn : d # c => z[d] = s[d]
  <2>1. z = Rewritten(s, c, E, P, y, r.broken) BY DEF Opened, E, z
  <2> QED BY <1>1, <1>4, <2>1, RewrittenSockets
<1>6. NoNewWait(s, z)
  <2> SUFFICES ASSUME NEW d \in Conn, Waits(z, d)
               PROVE  Waits(s, d) /\ z[d].dialer = s[d].dialer /\ z[d].by = s[d].by
    BY DEF NoNewWait
  <2>1. CASE d # c BY <1>5, <2>1 DEF Waits
  <2>2. CASE d = c
    <3>1. E[r.dialer] = "wait" /\ r.by # Connector BY <1>5, <2>2 DEF Waits
    <3>2. r.dialer \in DOMAIN r.end BY <1>1, ConnectionFields
    <3>3. r.end[r.dialer] = "wait" BY <1>3, <3>1, <3>2
    <3> QED BY <1>5, <2>2, <3>1, <3>3 DEF Waits
  <2> QED BY <2>1, <2>2
<1>7. ASSUME NEW a \in Conn, NEW x \in Node, Open(s, x, a)
      PROVE  Lasts(s, z, x, a) /\ DOMAIN z[a].end = DOMAIN s[a].end
  <2>1. CASE a # c BY <1>5, <1>7, <2>1 DEF Open, Lasts
  <2>2. CASE a = c
    <3>1. x \in DOMAIN r.end /\ E[x] = "open" BY <1>3, <1>7, <2>2 DEF Open
    <3> QED BY <1>3, <1>5, <2>2, <3>1 DEF Open, Lasts
  <2> QED BY <2>1, <2>2
<1>8. Wired(z, e)
  <2> SUFFICES ASSUME NEW x \in Node, NEW u \in Node, e[x][u] # None
               PROVE  Open(z, x, e[x][u]) /\ DOMAIN z[e[x][u]].end = {x, u}
    BY DEF Wired
  <2>1. e[x][u] \in Conn /\ Open(s, x, e[x][u]) /\ DOMAIN s[e[x][u]].end = {x, u}
    BY <1>1 DEF Fit, Wired, Entries
  <2> QED BY <1>7, <2>1 DEF Lasts
<1>9. f \in Entries /\ \A x, u \in Node : f[x][u] = IF x = n /\ u = m THEN c ELSE e[x][u]
  BY <1>1 DEF Entries, PointTo
<1> HIDE DEF f
<1>10. Open(z, n, c) /\ DOMAIN z[c].end = {n, m} BY <1>3, <1>5 DEF Open
<1>11. Wired(z, f)
  <2> SUFFICES ASSUME NEW x \in Node, NEW u \in Node, f[x][u] # None
               PROVE  Open(z, x, f[x][u]) /\ DOMAIN z[f[x][u]].end = {x, u}
    BY DEF Wired
  <2>1. CASE x = n /\ u = m
    <3>1. f[x][u] = c BY <1>9, <2>1
    <3> QED BY <1>10, <2>1, <3>1
  <2>2. CASE ~(x = n /\ u = m)
    <3>1. f[x][u] = e[x][u] BY <1>9, <2>2
    <3> QED BY <1>8, <3>1 DEF Wired
  <2> QED BY <2>1, <2>2
<1>12. Fit(z, e) /\ Fit(z, f) BY <1>1, <1>5, <1>6, <1>7, <1>8, <1>9, <1>11, EvolveFit
<1>13. r.dialer = n => ~Waits(z, c) BY <1>3, <1>5 DEF Waits
<1>14. \A d \in Conn : z[d] # None => s[d] # None /\ DOMAIN z[d].end = DOMAIN s[d].end
  BY <1>3, <1>5
<1> QED BY <1>6, <1>7, <1>12, <1>13, <1>14 DEF f, z

(***************************************************************************)
(* A dial takes a free identifier.  The reader that dials is alive, holds  *)
(* a message and waits for nothing else.                                   *)
(***************************************************************************)
LEMMA DialledFit ==
  ASSUME Fit(sock, entry), Free # {}, NEW n \in Node, NEW m \in Node, n # m,
         NEW by \in Conn \cup {Connector},
         by # Connector => /\ Open(sock, n, by) /\ sock[by].pipe[n] # << >>
                           /\ \A d \in Conn : ~WaitsFor(sock, d, n, by)
  PROVE  Fit(Dialled(n, m, by), entry)
<1> DEFINE k == Min(Free)
           j == {n, m}
           w == [dialer |-> n, by |-> by, reply |-> None, broken |-> FALSE,
                 end |-> [x \in j |-> "wait"], pipe |-> [x \in j |-> << >>]]
           z == Dialled(n, m, by)
<1>1. k \in Conn /\ sock[k] = None BY MinFree
<1>2. sock \in Sockets /\ entry \in Entries /\ Pending(sock) /\ Wired(sock, entry) BY DEF Fit
<1>3. j \in Pair /\ n \in j BY DEF Pair
<1>4. [x \in j |-> << >>] \in [j -> Seq(JoinMessage)] BY EmptySeq
<1>5. w \in ConnectionOf(j) BY <1>3, <1>4 DEF ConnectionOf
<1>6. w \in Connection BY <1>3, <1>5 DEF Connection
<1>7. /\ w.dialer = n /\ w.by = by /\ DOMAIN w.end = j /\ \A x \in j : w.end[x] = "wait"
  OBVIOUS
<1>8. z = [sock EXCEPT ![k] = w] BY DEF Dialled
<1> HIDE DEF w, k, z
<1>9. w # None BY <1>6, NoConnectionAssumption
<1>10. z \in Sockets /\ z[k] = w /\ \A d \in Conn : d # k => z[d] = sock[d]
  BY <1>1, <1>2, <1>6, <1>8 DEF Sockets
<1>11. ASSUME NEW a \in Conn, NEW x, Open(sock, x, a) PROVE a # k /\ z[a] = sock[a]
  BY <1>1, <1>10, <1>11 DEF Open
<1>12. Waits(z, k) => by # Connector BY <1>7, <1>10 DEF Waits
<1>13. Pending(z)
  <2>1. ASSUME NEW d \in Conn, Waits(z, d)
        PROVE  Open(z, z[d].dialer, z[d].by) /\ z[z[d].by].pipe[z[d].dialer] # << >>
    <3>1. CASE d = k
      <4>1. by # Connector /\ by \in Conn /\ z[d].dialer = n /\ z[d].by = by
        BY <1>7, <1>10, <1>12, <2>1, <3>1
      <4> QED BY <1>11, <4>1 DEF Open
    <3>2. CASE d # k
      <4>1. z[d] = sock[d] /\ Waits(sock, d) BY <1>10, <2>1, <3>2 DEF Waits
      <4>2. Open(sock, z[d].dialer, z[d].by) /\ sock[z[d].by].pipe[z[d].dialer] # << >>
        BY <1>2, <4>1 DEF Pending
      <4>3. z[d] \in Connection /\ z[d].by # Connector BY <1>10, <2>1, SocketCases DEF Waits
      <4>4. z[d].by \in Conn BY <4>3, ConnectionFields
      <4> QED BY <1>11, <4>2, <4>4 DEF Open
    <3> QED BY <3>1, <3>2
  <2>2. ASSUME NEW c \in Conn, NEW d \in Conn, Waits(z, c), Waits(z, d),
               z[c].dialer = z[d].dialer, z[c].by = z[d].by
        PROVE  c = d
    <3>1. CASE c # k /\ d # k
      <4>1. z[c] = sock[c] /\ z[d] = sock[d] BY <1>10, <3>1
      <4> QED BY <1>2, <2>2, <4>1 DEF Pending, Waits
    <3>2. ASSUME NEW a \in Conn, a # k, Waits(z, a), z[a].dialer = n, z[a].by = by, Waits(z, k)
          PROVE  FALSE
      <4>1. WaitsFor(sock, a, n, by) /\ by # Connector
        BY <1>10, <1>12, <3>2 DEF Waits, WaitsFor
      <4> QED BY <4>1
    <3> QED BY <1>7, <1>10, <2>2, <3>1, <3>2
  <2> QED BY <2>1, <2>2 DEF Pending
<1>14. Wired(z, entry)
  <2> SUFFICES ASSUME NEW x \in Node, NEW u \in Node, entry[x][u] # None
               PROVE  Open(z, x, entry[x][u]) /\ DOMAIN z[entry[x][u]].end = {x, u}
    BY DEF Wired
  <2>1. /\ entry[x][u] \in Conn /\ Open(sock, x, entry[x][u])
        /\ DOMAIN sock[entry[x][u]].end = {x, u}
    BY <1>2 DEF Wired, Entries
  <2> QED BY <1>11, <2>1 DEF Open
<1> QED BY <1>2, <1>10, <1>13, <1>14 DEF Fit, z

-----------------------------------------------------------------------------
(* The inductive invariant. *)

(***************************************************************************)
(* The fields that are sets, flags and counters.                           *)
(***************************************************************************)
Books ==
  /\ up \in [Node -> BOOLEAN] /\ timer \in [Node -> BOOLEAN]
  /\ cached \in [Node -> SUBSET Node] /\ known \in [Node -> SUBSET Node]
  /\ left \in [Node -> SUBSET Node]
  /\ phase \in [Node -> {"idle", "known", "bootstrap", "seed", "join"}]
  /\ faults \in 0 .. MaxFaults

(***************************************************************************)
(* What a node remembers of join messages, in finite memory.               *)
(***************************************************************************)
History ==
  /\ sent \in [Node -> SUBSET Node]
  /\ stored \in [Node -> SUBSET JoinMessage]
  /\ \A n \in Node : IsFiniteSet(stored[n])

(***************************************************************************)
(* A node has no address of its own to dial: only the join phase, which    *)
(* skips it, may be left with one.                                         *)
(***************************************************************************)
NoSelf == \A n \in Node : n \notin known[n] /\ (phase[n] # "join" => n \notin left[n])

OverlayInv == Books /\ History /\ NoSelf /\ Fit(sock, entry)

(***************************************************************************)
(* A join message names nodes.                                             *)
(***************************************************************************)
LEMMA JoinMsgType ==
  ASSUME NEW about \in Node, NEW from \in Node, NEW addresses \in SUBSET Node
  PROVE  JoinMsg(about, from, addresses) \in JoinMessage
BY DEF JoinMsg, JoinMessage

(***************************************************************************)
(* The fields of a join message that is read from a connection.            *)
(***************************************************************************)
LEMMA JoinMsgFields ==
  ASSUME NEW msg \in JoinMessage
  PROVE  msg.about \in Node /\ msg.from \in Node /\ msg.addresses \in SUBSET Node
BY DEF JoinMessage

(***************************************************************************)
(* Remembering and forwarding a message only appends to queues.            *)
(***************************************************************************)
LEMMA RememberFit ==
  ASSUME NEW s, NEW e, Fit(s, e), Fit(s, entry), SameNodes(s), History,
         NEW n \in Node, NEW msg \in JoinMessage, Remember(n, s, msg)
  PROVE  SameEnds(s, sock') /\ Fit(sock', e) /\ History'
<1> DEFINE fwd == JoinMsg(msg.about, n, msg.addresses)
<1>1. msg.about \in Node /\ msg.addresses \in SUBSET Node BY JoinMsgFields
<1>2. fwd \in JoinMessage BY <1>1, JoinMsgType
<1> HIDE DEF fwd
<1>3. sock' = s \/ sock' = Flooded(n, s, fwd, {msg.from}) BY DEF Remember, fwd
<1>4. entry \in Entries /\ Wired(s, entry) BY DEF Fit
<1>5. SameEnds(s, sock') /\ Fit(sock', e)
  <2>1. CASE sock' = s BY <2>1 DEF SameEnds
  <2>2. CASE sock' = Flooded(n, s, fwd, {msg.from}) BY <1>2, <1>4, <2>2, FloodedFit
  <2> QED BY <1>3, <2>1, <2>2
<1>6. sent' \in [Node -> SUBSET Node] BY <1>1 DEF Remember, History
<1>7. PICK kept \in {stored[n], stored[n] \cup {msg}} : stored' = [stored EXCEPT ![n] = kept]
  BY DEF Remember
<1>8. IsFiniteSet(stored[n]) /\ stored[n] \in SUBSET JoinMessage BY DEF History
<1>9. IsFiniteSet(kept) /\ kept \in SUBSET JoinMessage BY <1>7, <1>8, FS_AddElement
<1>10. stored' \in [Node -> SUBSET JoinMessage] /\ \A x \in Node : IsFiniteSet(stored'[x])
  BY <1>7, <1>9 DEF History
<1> QED BY <1>5, <1>6, <1>10 DEF History

(***************************************************************************)
(* The reader of n at c handles its first message and goes on.             *)
(***************************************************************************)
LEMMA HandledFit ==
  ASSUME NEW s, NEW e, Fit(s, e), Fit(s, entry), SameNodes(s), History,
         NEW n \in Node, NEW c \in Conn, s[c] # None, n \in DOMAIN s[c].end,
         s[c].pipe[n] # << >>, \A d \in Conn : ~WaitsFor(s, d, n, c), Handled(n, s, c)
  PROVE  SameEnds(s, sock') /\ Fit(sock', e) /\ History'
<1> DEFINE z == [s EXCEPT ![c].pipe[n] = Tail(@)]
           msg == Head(s[c].pipe[n])
<1>1. msg \in JoinMessage /\ SameEnds(s, z) /\ Fit(z, e) /\ Fit(z, entry) BY ConsumeFit
<1>2. Remember(n, z, msg) BY DEF Handled
<1> HIDE DEF z, msg
<1>3. SameNodes(z) BY <1>1 DEF SameNodes, SameEnds
<1>4. SameEnds(z, sock') /\ Fit(sock', e) /\ History' BY <1>1, <1>2, <1>3, RememberFit
<1>5. SameEnds(s, sock') BY <1>1, <1>4 DEF SameEnds
<1> QED BY <1>4, <1>5

(***************************************************************************)
(* The goroutine that dialled goes on: the connector, or a reader with the *)
(* message it dialled for.                                                 *)
(***************************************************************************)
LEMMA ResumedFit ==
  ASSUME NEW s, NEW e, Fit(s, e), Fit(s, entry), SameNodes(s), History,
         NEW n \in Node, NEW by \in Conn \cup {Connector}, Resumed(n, s, by),
         by # Connector => /\ Open(s, n, by) /\ s[by].pipe[n] # << >>
                           /\ \A d \in Conn : ~WaitsFor(s, d, n, by)
  PROVE  SameEnds(s, sock') /\ Fit(sock', e) /\ History'
<1>1. CASE by = Connector BY <1>1 DEF Resumed, SameEnds, History
<1>2. CASE by # Connector
  <2>1. by \in Conn /\ Handled(n, s, by) BY <1>2 DEF Resumed
  <2> QED BY <1>2, <2>1, HandledFit DEF Open
<1> QED BY <1>1, <1>2

-----------------------------------------------------------------------------
(* The actions. *)

(***************************************************************************)
(* At is Open for the current connections; a step that leaves the map      *)
(* alone satisfies EntryStep.                                              *)
(***************************************************************************)
LEMMA EntryStepSame ==
  ASSUME entry' = entry PROVE EntryStep
BY OverlayAssumption DEF EntryStep

(***************************************************************************)
(* Start-up, the manifest and the timer touch no connection.               *)
(***************************************************************************)
LEMMA StartStep ==
  ASSUME OverlayInv, NEW n \in Node, Start(n) \/ RefreshManifest(n) \/ ReconnectTick(n)
  PROVE  OverlayInv' /\ EntryStep
<1>1. History' /\ Fit(sock, entry)' BY DEF OverlayInv, History, Start, RefreshManifest, ReconnectTick
<1>2. entry' = entry BY DEF Start, RefreshManifest, ReconnectTick
<1>3. /\ Bootstrap[n] \in SUBSET Node /\ Seed[n] \in SUBSET Node /\ Manifest \in SUBSET Node
  BY OverlayAssumption
<1>4. CASE Start(n)
  <2>1. PICK manifest \in Fetched(n) :
          /\ cached' = [cached EXCEPT ![n] = manifest]
          /\ timer' = [timer EXCEPT ![n] = Bootstrap[n] \cup BootstrapPeers(n, manifest) \cup Seed[n] # {}]
          /\ left' = [left EXCEPT ![n] = BootstrapPeers(n, manifest)]
    BY <1>4 DEF Start
  <2>2. manifest \in SUBSET Node BY <1>3, <2>1 DEF Fetched
  <2>3. BootstrapPeers(n, manifest) \in SUBSET Node /\ n \notin BootstrapPeers(n, manifest)
    BY <1>3, <2>2 DEF BootstrapPeers
  <2> DEFINE t == (Bootstrap[n] \cup BootstrapPeers(n, manifest) \cup Seed[n] # {})
  <2>4. t \in BOOLEAN /\ timer' = [timer EXCEPT ![n] = t] BY <2>1
  <2> HIDE DEF t
  <2>5. timer' \in [Node -> BOOLEAN] BY <2>4 DEF OverlayInv, Books
  <2>6. Books' BY <1>4, <2>1, <2>2, <2>3, <2>5 DEF OverlayInv, Books, Start
  <2>7. NoSelf' BY <1>4, <2>1, <2>3 DEF OverlayInv, NoSelf, Books, Start
  <2> QED BY <1>1, <1>2, <2>6, <2>7, EntryStepSame DEF OverlayInv
<1>5. CASE RefreshManifest(n)
  BY <1>1, <1>2, <1>3, <1>5, EntryStepSame DEF OverlayInv, Books, NoSelf, RefreshManifest
<1>6. CASE ReconnectTick(n)
  BY <1>1, <1>2, <1>6, EntryStepSame DEF OverlayInv, Books, NoSelf, ReconnectTick
<1> QED BY <1>4, <1>5, <1>6

(***************************************************************************)
(* The connector tries an address, which is never its own.                 *)
(***************************************************************************)
LEMMA TryNextStep ==
  ASSUME OverlayInv, NEW n \in Node, TryNext(n)
  PROVE  OverlayInv' /\ EntryStep
<1>1. PICK m \in left[n] :
        /\ left' = [left EXCEPT ![n] = @ \ {m}]
        /\ \/ /\ phase[n] = "join" /\ HasConnection(n, m)
              /\ UNCHANGED <<known, sock>>
           \/ /\ ~(phase[n] = "join" /\ HasConnection(n, m))
              /\ known' = [known EXCEPT ![n] = IF phase[n] = "join" THEN @ \cup {m} ELSE @]
              /\ sock' = IF up[m] THEN Dialled(n, m, Connector) ELSE sock
  BY DEF TryNext
<1>2. /\ Free # {}
      /\ UNCHANGED <<up, timer, cached, entry, stored, sent, phase, faults>>
  BY DEF TryNext
<1>3. m \in Node BY DEF OverlayInv, Books
<1>4. History' BY <1>2 DEF OverlayInv, History
<1>5. CASE phase[n] = "join" /\ HasConnection(n, m) /\ UNCHANGED <<known, sock>>
  <2>1. Fit(sock, entry)' BY <1>2, <1>5 DEF OverlayInv
  <2>2. Books' /\ NoSelf' BY <1>1, <1>2, <1>5 DEF OverlayInv, Books, NoSelf
  <2> QED BY <1>2, <1>4, <2>1, <2>2, EntryStepSame DEF OverlayInv
<1>6. CASE /\ ~(phase[n] = "join" /\ HasConnection(n, m))
           /\ known' = [known EXCEPT ![n] = IF phase[n] = "join" THEN @ \cup {m} ELSE @]
           /\ sock' = IF up[m] THEN Dialled(n, m, Connector) ELSE sock
  <2>1. m # n BY <1>1, <1>6 DEF OverlayInv, NoSelf, HasConnection
  <2>2. Fit(Dialled(n, m, Connector), entry) BY <1>2, <1>3, <2>1, DialledFit DEF OverlayInv
  <2>3. Fit(sock, entry)' BY <1>2, <1>6, <2>2 DEF OverlayInv
  <2>4. Books' BY <1>1, <1>2, <1>3, <1>6 DEF OverlayInv, Books
  <2>5. NoSelf' BY <1>1, <1>2, <1>6, <2>1 DEF OverlayInv, Books, NoSelf
  <2> QED BY <1>2, <1>4, <2>3, <2>4, <2>5, EntryStepSame DEF OverlayInv
<1> QED BY <1>1, <1>5, <1>6

(***************************************************************************)
(* The connector moves on to the next group of addresses.                  *)
(***************************************************************************)
LEMMA ExhaustedStep ==
  ASSUME OverlayInv, NEW n \in Node, Exhausted(n)
  PROVE  OverlayInv' /\ EntryStep
<1>1. History' /\ Fit(sock, entry)' /\ entry' = entry BY DEF OverlayInv, History, Exhausted
<1>2. Bootstrap[n] \in SUBSET Node /\ Seed[n] \in SUBSET Node /\ n \notin Seed[n]
  BY OverlayAssumption
<1>3. BootstrapPeers(n, cached[n]) \in SUBSET Node /\ n \notin BootstrapPeers(n, cached[n])
  BY <1>2 DEF BootstrapPeers, OverlayInv, Books
<1>4. Books' BY <1>2, <1>3 DEF OverlayInv, Books, Exhausted
<1>5. NoSelf' BY <1>2, <1>3 DEF OverlayInv, Books, NoSelf, Exhausted
<1> QED BY <1>1, <1>4, <1>5, EntryStepSame DEF OverlayInv

(***************************************************************************)
(* The connector floods its join message once its addresses are tried.     *)
(***************************************************************************)
LEMMA FloodJoinStep ==
  ASSUME OverlayInv, NEW n \in Node, FloodJoin(n)
  PROVE  OverlayInv' /\ EntryStep
<1> DEFINE msg == JoinMsg(n, n, ConnectPayload(n))
<1>1. ConnectPayload(n) \in SUBSET Node BY DEF ConnectPayload, OverlayInv, Books
<1>2. msg \in JoinMessage BY <1>1, JoinMsgType
<1>3. Remember(n, sock, msg) BY DEF FloodJoin
<1> HIDE DEF msg
<1>4. SameNodes(sock) BY SocketCases DEF SameNodes, OverlayInv, Fit
<1>5. Fit(sock', entry) /\ History' BY <1>2, <1>3, <1>4, RememberFit DEF OverlayInv
<1>6. entry' = entry BY DEF FloodJoin
<1>7. Books' /\ NoSelf' BY DEF OverlayInv, Books, NoSelf, FloodJoin
<1> QED BY <1>5, <1>6, <1>7, EntryStepSame DEF OverlayInv

(***************************************************************************)
(* The sequences of join messages that an acceptor may send.               *)
(***************************************************************************)
LEMMA JoinSequences ==
  ASSUME History, NEW m \in Node, NEW joins \in SetToSeqs(stored[m])
  PROVE  joins \in Seq(JoinMessage)
<1>1. IsFiniteSet(stored[m]) /\ stored[m] \subseteq JoinMessage BY DEF History
<1>2. Cardinality(stored[m]) \in Nat BY <1>1, FS_CardinalityType
<1>3. joins \in [1 .. Cardinality(stored[m]) -> stored[m]] BY DEF SetToSeqs
<1>4. joins \in Seq(stored[m]) BY <1>2, <1>3
<1> QED BY <1>1, <1>4, SeqMonotonic

(***************************************************************************)
(* A node that accepts writes the dialler into its map.                    *)
(***************************************************************************)
LEMMA AcceptStep ==
  ASSUME OverlayInv, NEW m \in Node, NEW c \in Conn, Accept(m, c)
  PROVE  OverlayInv' /\ EntryStep
<1> DEFINE n == Other(c, m)
           r == sock[c]
           y == ConnectPayload(m)
           f == PointTo(entry, m, n, c)
<1>1. /\ r # None /\ m \in DOMAIN r.end /\ r.end[m] = "wait"
      /\ entry' = f
      /\ known' = [known EXCEPT ![m] = @ \cup {n}]
      /\ UNCHANGED <<up, timer, cached, stored, sent, phase, left, faults>>
  BY DEF Accept, At, Ends, PointTo
<1>2. PICK joins \in SetToSeqs(stored[m]) :
        sock' = [sock EXCEPT ![c].end[m] = "open", ![c].reply = y, ![c].pipe[n] = @ \o joins]
  BY DEF Accept
<1>3. r \in Connection /\ sock \in Sockets /\ entry \in Entries BY <1>1, SocketCases DEF OverlayInv, Fit
<1>4. n \in Node /\ n # m /\ DOMAIN r.end = {m, n} BY <1>1, <1>3, OtherEnd
<1>5. joins \in Seq(JoinMessage) BY JoinSequences DEF OverlayInv
<1>6. y \in SUBSET Node BY DEF ConnectPayload, OverlayInv, Books
<1> HIDE DEF n, y
<1> DEFINE P == [r.pipe EXCEPT ![n] = @ \o joins]
<1>7. r.pipe \in [DOMAIN r.end -> Seq(JoinMessage)] BY <1>3, ConnectionFields
<1>8. r.pipe[n] \in Seq(JoinMessage) BY <1>4, <1>7
<1>9. /\ r.pipe[n] \o joins \in Seq(JoinMessage)
      /\ r.pipe[n] # << >> => r.pipe[n] \o joins # << >>
  BY <1>5, <1>8, ConcatProperties, ConcatEqualIffEmpty
<1>10. /\ P \in [DOMAIN r.end -> Seq(JoinMessage)]
       /\ \A x \in DOMAIN r.end : r.pipe[x] # << >> => P[x] # << >>
  BY <1>7, <1>9
<1>11. Fields(r, r.end, P, y, r.broken) BY <1>3, <1>6, <1>10, ConnectionFields DEF Fields
<1>12. sock' = Opened(sock, m, c, P, y)
  <2> DEFINE E == [r.end EXCEPT ![m] = "open"]
  <2>1. PICK j \in Pair : r \in ConnectionOf(j) BY <1>3 DEF Connection
  <2>2. [r EXCEPT !.end[m] = "open", !.reply = y, !.pipe[n] = @ \o joins] = With(r, E, P, y, r.broken)
    BY <2>1 DEF With, ConnectionOf
  <2> QED BY <1>2, <1>3, <2>2 DEF Opened, Rewritten, Sockets
<1> HIDE DEF P
<1>13. CanOpen(sock, entry, m, n, c, P, y)
  BY <1>1, <1>4, <1>10, <1>11 DEF OverlayInv, CanOpen
<1>14. Fit(sock', f) BY <1>12, <1>13, OpenedFit
<1>15. Books' BY <1>1, <1>4 DEF OverlayInv, Books
<1>16. NoSelf' BY <1>1, <1>4 DEF OverlayInv, Books, NoSelf
<1>17. History' BY <1>1 DEF OverlayInv, History
<1>18. EntryStep
  <2>1. c # None BY OverlayAssumption
  <2> QED BY <1>1, <1>3, <1>4, <2>1, OverlayAssumption DEF EntryStep, Entries, PointTo
<1> QED BY <1>1, <1>14, <1>15, <1>16, <1>17, <1>18 DEF OverlayInv

(***************************************************************************)
(* The reader that dialled c waits for nothing but c.                      *)
(***************************************************************************)
LEMMA WaitingReader ==
  ASSUME Fit(sock, entry), NEW n \in Node, NEW c \in Conn, At(n, c, "wait"),
         sock[c].dialer = n, sock[c].by # Connector
  PROVE  /\ sock[c].by \in Conn /\ sock[c].by # c
         /\ Open(sock, n, sock[c].by) /\ sock[sock[c].by].pipe[n] # << >>
         /\ \A d \in Conn : WaitsFor(sock, d, n, sock[c].by) => d = c
<1>1. Waits(sock, c) BY DEF At, Waits
<1>2. sock[c] \in Connection BY SocketCases DEF At, Fit
<1>3. sock[c].by \in Conn BY <1>2, ConnectionFields
<1>4. Open(sock, n, sock[c].by) /\ sock[sock[c].by].pipe[n] # << >> BY <1>1 DEF Fit, Pending
<1>5. sock[c].by # c BY <1>4 DEF Open, At
<1>6. \A d \in Conn : WaitsFor(sock, d, n, sock[c].by) => d = c BY <1>1 DEF Fit, Pending, WaitsFor
<1> QED BY <1>3, <1>4, <1>5, <1>6

(***************************************************************************)
(* A node that has connected writes the acceptor into its map, and what    *)
(* it dialled for goes on.                                                 *)
(***************************************************************************)
LEMMA ConnectedStep ==
  ASSUME OverlayInv, NEW n \in Node, NEW c \in Conn, Connected(n, c)
  PROVE  OverlayInv' /\ EntryStep
<1> DEFINE m == Other(c, n)
           r == sock[c]
           reply == r.reply
           by == r.by
           first == by = Connector /\ phase[n] # "join"
           seed == first /\ phase[n] = "seed"
           book == (known[n] \cup {m} \cup IF seed THEN reply ELSE {}) \ {n}
           s == [sock EXCEPT ![c].end[n] = "open"]
           f == PointTo(entry, n, m, c)
           E == [r.end EXCEPT ![n] = "open"]
<1>1. /\ At(n, c, "wait") /\ r # None /\ n \in DOMAIN r.end /\ r.end[n] = "wait" /\ r.dialer = n
      /\ reply # None /\ entry' = f
      /\ known' = [known EXCEPT ![n] = book]
      /\ phase' = [phase EXCEPT ![n] = IF first THEN "join" ELSE @]
      /\ left' = [left EXCEPT ![n] = IF seed THEN book ELSE IF first THEN reply ELSE @]
      /\ Resumed(n, s, by)
      /\ UNCHANGED <<up, timer, cached, faults>>
  BY DEF Connected, At, Ends, PointTo
<1>2. r \in Connection /\ sock \in Sockets /\ entry \in Entries /\ Fit(sock, entry) /\ History
  BY <1>1, SocketCases DEF OverlayInv, Fit
<1>3. m \in Node /\ n # m /\ DOMAIN r.end = {n, m} BY <1>1, <1>2, OtherEnd
<1>4. reply \in SUBSET Node /\ by \in Conn \cup {Connector} BY <1>1, <1>2, ConnectionFields
<1>5. Fields(r, r.end, r.pipe, r.reply, r.broken) BY <1>2, ConnectionFields DEF Fields
<1>6. s = Opened(sock, n, c, r.pipe, r.reply)
  <2>1. PICK j \in Pair : r \in ConnectionOf(j) BY <1>2 DEF Connection
  <2>2. [r EXCEPT !.end[n] = "open"] = With(r, E, r.pipe, r.reply, r.broken)
    BY <2>1 DEF With, ConnectionOf
  <2> QED BY <1>2, <2>2 DEF Opened, Rewritten, Sockets
<1> HIDE DEF m, s
<1>7. /\ Fit(s, entry) /\ Fit(s, f) /\ NoNewWait(sock, s) /\ ~Waits(s, c)
      /\ \A d \in Conn : s[d] # None => sock[d] # None /\ DOMAIN s[d].end = DOMAIN sock[d].end
      /\ \A a \in Conn, x \in Node : Open(sock, x, a) => Lasts(sock, s, x, a)
  <2>1. CanOpen(sock, entry, n, m, c, r.pipe, r.reply) BY <1>1, <1>2, <1>3, <1>5 DEF CanOpen
  <2> QED BY <1>1, <1>6, <2>1, OpenedFit
<1>8. SameNodes(s) BY <1>2, <1>7, SocketCases DEF SameNodes
<1>9. ASSUME by # Connector
      PROVE  /\ Open(s, n, by) /\ s[by].pipe[n] # << >>
             /\ \A d \in Conn : ~WaitsFor(s, d, n, by)
  <2>1. /\ by \in Conn /\ Open(sock, n, by) /\ sock[by].pipe[n] # << >>
        /\ \A d \in Conn : WaitsFor(sock, d, n, by) => d = c
    BY <1>1, <1>2, <1>9, WaitingReader
  <2>2. Open(s, n, by) /\ s[by].pipe[n] # << >> BY <1>7, <2>1 DEF Lasts
  <2>3. \A d \in Conn : ~WaitsFor(s, d, n, by) BY <1>7, <2>1 DEF WaitsFor, NoNewWait
  <2> QED BY <2>2, <2>3
<1>10. Fit(sock', f) /\ History'
  BY <1>1, <1>2, <1>4, <1>7, <1>8, <1>9, ResumedFit
<1>11. book \in SUBSET Node /\ n \notin book BY <1>3, <1>4 DEF OverlayInv, Books
<1> HIDE DEF book
<1>12. Books' BY <1>1, <1>4, <1>11 DEF OverlayInv, Books
<1>13. NoSelf' BY <1>1, <1>11 DEF OverlayInv, Books, NoSelf
<1>14. EntryStep
  <2>1. c # None BY OverlayAssumption
  <2> QED BY <1>1, <1>2, <1>3, <2>1, OverlayAssumption DEF EntryStep, Entries, PointTo
<1> QED BY <1>1, <1>10, <1>12, <1>13, <1>14 DEF OverlayInv

(***************************************************************************)
(* A handshake that fails closes an end the map does not point to.         *)
(***************************************************************************)
LEMMA HandshakeFailsStep ==
  ASSUME OverlayInv, NEW n \in Node, NEW c \in Conn, HandshakeFails(n, c)
  PROVE  OverlayInv' /\ EntryStep
<1> DEFINE r == sock[c]
           s == Closed(sock, n, c)
           by == IF r.dialer = n THEN r.by ELSE Connector
<1>1. /\ At(n, c, "wait") /\ r # None /\ n \in DOMAIN r.end /\ r.end[n] = "wait"
      /\ Resumed(n, s, by)
      /\ UNCHANGED <<up, timer, cached, known, entry, phase, left, faults>>
  BY DEF HandshakeFails, At, Ends
<1>2. r \in Connection /\ sock \in Sockets /\ Fit(sock, entry) /\ History
  BY <1>1, SocketCases DEF OverlayInv, Fit
<1>3. by \in Conn \cup {Connector} BY <1>2, ConnectionFields
<1>4. ~Open(sock, n, c) BY <1>1 DEF Open
<1>5. \A d \in Conn : ~WaitsFor(sock, d, n, c) BY <1>2, <1>4 DEF Fit, Pending, WaitsFor
<1>6. \A x \in Node : entry[n][x] # c BY <1>2, <1>4, OverlayAssumption DEF Fit, Wired
<1> HIDE DEF s
<1>7. /\ Fit(s, entry) /\ NoNewWait(sock, s) /\ ~WaitsFor(s, c, n, r.by)
      /\ \A d \in Conn : s[d] # None => sock[d] # None /\ DOMAIN s[d].end = DOMAIN sock[d].end
      /\ \A a \in Conn, x \in Node : Open(sock, x, a) /\ ~(x = n /\ a = c) => Lasts(sock, s, x, a)
  BY <1>1, <1>2, <1>5, <1>6, ClosedFit DEF s
<1>8. SameNodes(s) BY <1>2, <1>7, SocketCases DEF SameNodes
<1>9. ASSUME by # Connector
      PROVE  /\ Open(s, n, by) /\ s[by].pipe[n] # << >>
             /\ \A d \in Conn : ~WaitsFor(s, d, n, by)
  <2>1. r.dialer = n /\ by = r.by BY <1>9
  <2>2. /\ by \in Conn /\ by # c /\ Open(sock, n, by) /\ sock[by].pipe[n] # << >>
        /\ \A d \in Conn : WaitsFor(sock, d, n, by) => d = c
    BY <1>1, <1>2, <1>9, <2>1, WaitingReader
  <2>3. Open(s, n, by) /\ s[by].pipe[n] # << >> BY <1>7, <2>2 DEF Lasts
  <2>4. \A d \in Conn : ~WaitsFor(s, d, n, by) BY <1>7, <2>1, <2>2 DEF WaitsFor, NoNewWait
  <2> QED BY <2>3, <2>4
<1> HIDE DEF by
<1>10. Fit(sock', entry) /\ History' BY <1>1, <1>2, <1>3, <1>7, <1>8, <1>9, ResumedFit
<1>11. Books' /\ NoSelf' BY <1>1 DEF OverlayInv, Books, NoSelf
<1> QED BY <1>1, <1>10, <1>11, EntryStepSame DEF OverlayInv

(***************************************************************************)
(* A reader that is free to read waits for no connection.                  *)
(***************************************************************************)
LEMMA FreeReader ==
  ASSUME Fit(sock, entry), NEW n \in Node, NEW c \in Conn, Reads(n, c)
  PROVE  /\ Open(sock, n, c) /\ sock[c] \in Connection
         /\ \A d \in Conn : ~WaitsFor(sock, d, n, c)
<1>1. Open(sock, n, c) /\ sock[c] # None BY DEF Reads, At, Ends, Open
<1>2. ASSUME NEW d \in Conn, WaitsFor(sock, d, n, c) PROVE FALSE
  <2>1. sock[d] # None BY <1>2 DEF WaitsFor, Waits
  <2>2. sock[d] \in Connection BY <2>1, SocketCases DEF Fit
  <2>3. n \in DOMAIN sock[d].end BY <1>2, <2>2, ConnectionFields DEF WaitsFor
  <2>4. At(n, d, "wait") BY <1>2, <2>1, <2>3 DEF WaitsFor, Waits, At, Ends
  <2>5. d \in Waiting(n, c) BY <1>2, <2>4 DEF Waiting, WaitsFor
  <2> QED BY <2>5 DEF Reads
<1> QED BY <1>1, <1>2, SocketCases DEF Fit

(***************************************************************************)
(* A join message is read: its sender is dialled, or it is handled.        *)
(***************************************************************************)
LEMMA ReadJoinStep ==
  ASSUME OverlayInv, NEW n \in Node, NEW c \in Conn, ReadJoin(n, c)
  PROVE  OverlayInv' /\ EntryStep
<1> DEFINE msg == Head(sock[c].pipe[n])
<1>1. /\ Reads(n, c) /\ sock[c].pipe[n] # << >>
      /\ known' = [known EXCEPT ![n] = (@ \cup msg.addresses) \ {n}]
      /\ UNCHANGED <<up, timer, cached, entry, phase, left, faults>>
  BY DEF ReadJoin
<1>2. \/ ~HasConnection(n, msg.from) /\ Free # {} /\ sock' = Dialled(n, msg.from, c) /\ UNCHANGED <<stored, sent>>
      \/ Handled(n, sock, c)
  BY DEF ReadJoin
<1>3. Fit(sock, entry) /\ sock \in Sockets /\ History BY DEF OverlayInv, Fit
<1>4. /\ Open(sock, n, c) /\ sock[c] \in Connection /\ \A d \in Conn : ~WaitsFor(sock, d, n, c)
  BY <1>1, <1>3, FreeReader
<1>5. n \in DOMAIN sock[c].end /\ sock[c] # None BY <1>4 DEF Open
<1>6. sock[c].pipe[n] \in Seq(JoinMessage) BY <1>4, <1>5, ConnectionFields
<1>7. msg \in JoinMessage BY <1>1, <1>6, HeadTailProperties
<1> HIDE DEF msg
<1>8. msg.from \in Node /\ msg.addresses \in SUBSET Node BY <1>7, JoinMsgFields
<1>9. Fit(sock', entry) /\ History'
  <2>1. CASE /\ ~HasConnection(n, msg.from) /\ Free # {} /\ sock' = Dialled(n, msg.from, c)
             /\ UNCHANGED <<stored, sent>>
    <3>1. msg.from # n BY <2>1 DEF HasConnection
    <3>2. Fit(Dialled(n, msg.from, c), entry) BY <1>1, <1>3, <1>4, <1>8, <2>1, <3>1, DialledFit
    <3> QED BY <1>3, <2>1, <3>2 DEF History
  <2>2. CASE Handled(n, sock, c)
    <3>1. SameNodes(sock) BY <1>3, SocketCases DEF SameNodes
    <3> QED BY <1>1, <1>3, <1>4, <1>5, <2>2, <3>1, HandledFit
  <2> QED BY <1>2, <2>1, <2>2
<1>10. Books' BY <1>1, <1>8 DEF OverlayInv, Books
<1>11. NoSelf' BY <1>1, <1>8 DEF OverlayInv, Books, NoSelf
<1> QED BY <1>1, <1>9, <1>10, <1>11, EntryStepSame DEF OverlayInv

(***************************************************************************)
(* A reader ends: the entry goes only if it points to this connection.     *)
(***************************************************************************)
LEMMA EndReaderStep ==
  ASSUME OverlayInv, NEW n \in Node, NEW c \in Conn, EndReader(n, c)
  PROVE  OverlayInv' /\ EntryStep
<1> DEFINE o == Other(c, n)
           f == [entry EXCEPT ![n][o] = IF entry[n][o] = c THEN None ELSE entry[n][o]]
<1>1. /\ Reads(n, c) /\ entry' = f /\ sock' = Closed(sock, n, c)
      /\ UNCHANGED <<up, timer, cached, known, stored, sent, phase, left, faults>>
  BY DEF EndReader
<1>2. Fit(sock, entry) /\ sock \in Sockets /\ entry \in Entries BY DEF OverlayInv, Fit
<1>3. /\ Open(sock, n, c) /\ sock[c] \in Connection /\ \A d \in Conn : ~WaitsFor(sock, d, n, c)
  BY <1>1, <1>2, FreeReader
<1>4. n \in DOMAIN sock[c].end /\ sock[c] # None BY <1>3 DEF Open
<1>5. o \in Node /\ o # n /\ DOMAIN sock[c].end = {n, o} BY <1>3, <1>4, OtherEnd
<1> HIDE DEF o
<1>6. /\ f \in Entries
      /\ \A x, u \in Node : f[x][u] = IF x = n /\ u = o /\ entry[n][o] = c THEN None ELSE entry[x][u]
  BY <1>2, <1>5 DEF Entries
<1> HIDE DEF f
<1>7. c # None BY OverlayAssumption
<1>8. \A u \in Node : f[n][u] # c
  <2> SUFFICES ASSUME NEW u \in Node, f[n][u] = c PROVE FALSE OBVIOUS
  <2>1. entry[n][u] = c BY <1>6, <1>7
  <2>2. DOMAIN sock[c].end = {n, u} BY <1>2, <1>7, <2>1 DEF Fit, Wired
  <2>3. u = o BY <1>5, <2>2
  <2> QED BY <1>6, <1>7, <2>1, <2>3
<1>9. Wired(sock, f)
  <2> SUFFICES ASSUME NEW x \in Node, NEW u \in Node, f[x][u] # None
               PROVE  Open(sock, x, f[x][u]) /\ DOMAIN sock[f[x][u]].end = {x, u}
    BY DEF Wired
  <2>1. f[x][u] = entry[x][u] BY <1>6
  <2> QED BY <1>2, <2>1 DEF Fit, Wired
<1>10. Fit(sock, f) BY <1>2, <1>6, <1>9 DEF Fit
<1>11. Fit(sock', f) /\ ~Open(sock', n, c) BY <1>1, <1>3, <1>4, <1>8, <1>10, ClosedFit
<1>12. Books' /\ NoSelf' /\ History' BY <1>1 DEF OverlayInv, Books, NoSelf, History
<1>13. EntryStep
  <2> SUFFICES ASSUME NEW x \in Node, NEW u \in Node, NEW a \in Conn,
                      entry[x][u] = a, entry'[x][u] = None
               PROVE  ~At(x, a, "open")'
    BY DEF EntryStep
  <2>1. a # None BY OverlayAssumption
  <2>2. x = n /\ u = o /\ a = c BY <1>1, <1>6, <2>1
  <2> QED BY <1>11, <2>2 DEF Open, At, Ends
<1> QED BY <1>1, <1>11, <1>12, <1>13 DEF OverlayInv

(***************************************************************************)
(* A lost connection is only marked: both ends find out by themselves.     *)
(***************************************************************************)
LEMMA CutStep ==
  ASSUME OverlayInv, NEW c \in Conn, Cut(c)
  PROVE  OverlayInv' /\ EntryStep
<1> DEFINE r == sock[c]
<1>1. /\ r # None /\ sock' = [sock EXCEPT ![c].broken = TRUE]
      /\ faults < MaxFaults /\ faults' = faults + 1
      /\ UNCHANGED <<up, timer, cached, known, entry, stored, sent, phase, left>>
  BY DEF Cut
<1>2. Fit(sock, entry) /\ sock \in Sockets /\ r \in Connection BY <1>1, SocketCases DEF OverlayInv, Fit
<1> DEFINE b == TRUE
<1>3. Fields(r, r.end, r.pipe, r.reply, b) BY <1>2, ConnectionFields DEF Fields
<1>4. sock' = Rewritten(sock, c, r.end, r.pipe, r.reply, b)
  <2>1. [r EXCEPT !.broken = b] = With(r, r.end, r.pipe, r.reply, b) BY <1>2, PartialUpdates
  <2> QED BY <1>1, <1>2, <2>1 DEF Rewritten, Sockets
<1> HIDE DEF b
<1>5. /\ sock' \in Sockets /\ sock'[c] # None /\ sock'[c].end = r.end /\ sock'[c].pipe = r.pipe
      /\ sock'[c].dialer = r.dialer /\ sock'[c].by = r.by
      /\ \A d \in Conn : d # c => sock'[d] = sock[d]
  <2>1. r # None BY <1>1
  <2> QED BY <1>2, <1>3, <1>4, <2>1, RewrittenSockets
<1>6. SameEnds(sock, sock') BY <1>1, <1>5 DEF SameEnds
<1>7. ASSUME NEW a \in Conn, NEW d \in Conn, Waits(sock, d), sock[d].by = a,
             sock[a].pipe[sock[d].dialer] # << >>
      PROVE  sock'[a].pipe[sock[d].dialer] # << >>
  BY <1>5, <1>7
<1>8. Fit(sock', entry) BY <1>2, <1>5, <1>6, <1>7, SameEndsFit
<1>9. Books' BY <1>1, OverlayAssumption DEF OverlayInv, Books
<1>10. NoSelf' /\ History' BY <1>1 DEF OverlayInv, NoSelf, History
<1> QED BY <1>1, <1>8, <1>9, <1>10, EntryStepSame DEF OverlayInv

(***************************************************************************)
(* A crash closes every end of the node and forgets what it knew.          *)
(***************************************************************************)
LEMMA CrashStep ==
  ASSUME OverlayInv, NEW n \in Node, Crash(n)
  PROVE  OverlayInv' /\ EntryStep
<1> DEFINE Away(c) == sock[c] = None \/ n \notin Ends(c)
           Gone(c) == sock[c].end[Other(c, n)] = "closed"
           w(c) == [sock[c] EXCEPT !.end[n] = "closed", !.pipe[n] = << >>, !.broken = TRUE]
           f == [entry EXCEPT ![n] = [m \in Node |-> None]]
<1>1. sock' = [c \in Conn |-> IF Away(c) THEN sock[c] ELSE IF Gone(c) THEN None ELSE w(c)]
  BY DEF Crash
<1>2. /\ faults < MaxFaults /\ faults' = faults + 1 /\ up' = [up EXCEPT ![n] = FALSE]
      /\ timer' = [timer EXCEPT ![n] = FALSE]
      /\ entry' = f
      /\ known' = [known EXCEPT ![n] = {}] /\ cached' = [cached EXCEPT ![n] = {}]
      /\ stored' = [stored EXCEPT ![n] = {}] /\ sent' = [sent EXCEPT ![n] = {}]
      /\ phase' = [phase EXCEPT ![n] = "idle"] /\ left' = [left EXCEPT ![n] = {}]
  BY DEF Crash
<1>3. Fit(sock, entry) /\ sock \in Sockets /\ entry \in Entries BY DEF OverlayInv, Fit
<1>4. ASSUME NEW c \in Conn, ~Away(c)
      PROVE  /\ sock[c] \in Connection /\ n \in DOMAIN sock[c].end
             /\ DOMAIN sock[c].end = {n, Other(c, n)} /\ Other(c, n) # n
             /\ w(c) \in Connection /\ w(c) # None /\ DOMAIN w(c).end = DOMAIN sock[c].end
             /\ w(c).dialer = sock[c].dialer /\ w(c).by = sock[c].by /\ w(c).end[n] = "closed"
             /\ \A x \in DOMAIN sock[c].end : x # n =>
                  w(c).end[x] = sock[c].end[x] /\ w(c).pipe[x] = sock[c].pipe[x]
  <2> DEFINE r == sock[c]
             E == [r.end EXCEPT ![n] = "closed"]
             P == [r.pipe EXCEPT ![n] = << >>]
             b == TRUE
  <2>1. r \in Connection /\ n \in DOMAIN r.end BY <1>3, <1>4, SocketCases DEF Ends
  <2>2. DOMAIN r.end = {n, Other(c, n)} /\ Other(c, n) # n BY <2>1, OtherEnd
  <2>3. r.end \in [DOMAIN r.end -> EndState] /\ r.pipe \in [DOMAIN r.end -> Seq(JoinMessage)]
    BY <2>1, ConnectionFields
  <2>4. /\ E \in [DOMAIN r.end -> EndState] /\ E[n] = "closed"
        /\ \A x \in DOMAIN r.end : x # n => E[x] = r.end[x]
    BY <2>1, <2>3 DEF EndState
  <2>5. /\ P \in [DOMAIN r.end -> Seq(JoinMessage)]
        /\ \A x \in DOMAIN r.end : x # n => P[x] = r.pipe[x]
    BY <2>3, EmptySeq
  <2>6. Fields(r, E, P, r.reply, b) BY <2>1, <2>4, <2>5, ConnectionFields DEF Fields
  <2>7. w(c) = With(r, E, P, r.reply, b)
    <3>1. PICK j \in Pair : r \in ConnectionOf(j) BY <2>1 DEF Connection
    <3> QED BY <3>1 DEF With, ConnectionOf
  <2> HIDE DEF E, P, b, w
  <2>8. /\ w(c) \in Connection /\ w(c) # None
        /\ w(c).end = E /\ w(c).pipe = P /\ w(c).dialer = r.dialer /\ w(c).by = r.by
    BY <2>1, <2>6, <2>7, ConnectionWith
  <2>9. DOMAIN w(c).end = DOMAIN r.end BY <2>4, <2>8
  <2> QED BY <2>1, <2>2, <2>4, <2>5, <2>8, <2>9
<1> HIDE DEF w
<1>5. sock' \in Sockets
  BY <1>1, <1>3, <1>4 DEF Sockets
<1>6. ASSUME NEW c \in Conn
      PROVE  \/ Away(c) /\ sock'[c] = sock[c]
             \/ ~Away(c) /\ Gone(c) /\ sock'[c] = None
             \/ ~Away(c) /\ ~Gone(c) /\ sock'[c] = w(c)
  <2>1. sock'[c] = IF Away(c) THEN sock[c] ELSE IF Gone(c) THEN None ELSE w(c) BY <1>1
  <2>2. CASE Away(c) BY <2>1, <2>2
  <2>3. CASE ~Away(c) /\ Gone(c) BY <2>1, <2>3
  <2>4. CASE ~Away(c) /\ ~Gone(c) BY <2>1, <2>4
  <2> QED BY <2>2, <2>3, <2>4
<1>7. \A c \in Conn : ~Away(c) => ~Open(sock', n, c) BY <1>4, <1>6 DEF Open
<1>8. ASSUME NEW d \in Conn, Waits(sock', d)
      PROVE  /\ Waits(sock, d) /\ sock'[d].dialer = sock[d].dialer
             /\ sock'[d].by = sock[d].by /\ sock'[d].dialer # n
  <2>1. CASE Away(d) /\ sock'[d] = sock[d]
    <3>1. sock[d] \in Connection /\ n \notin DOMAIN sock[d].end
      BY <1>3, <1>8, <2>1, SocketCases DEF Waits, Ends
    <3> QED BY <1>8, <2>1, <3>1, ConnectionFields DEF Waits
  <2>2. CASE ~Away(d) /\ sock'[d] = w(d)
    <3>1. sock[d] \in Connection /\ sock[d] # None BY <1>4, <2>2 DEF Ends
    <3>2. sock[d].dialer \in DOMAIN sock[d].end BY <3>1, ConnectionFields
    <3>3. sock'[d].dialer = sock[d].dialer /\ sock[d].dialer # n BY <1>4, <1>8, <2>2 DEF Waits
    <3> QED BY <1>4, <1>8, <2>2, <3>1, <3>2, <3>3 DEF Waits
  <2> QED BY <1>6, <1>8, <2>1, <2>2 DEF Waits
<1>9. ASSUME NEW a \in Conn, NEW x \in Node, x # n, Open(sock, x, a)
      PROVE  Lasts(sock, sock', x, a) /\ DOMAIN sock'[a].end = DOMAIN sock[a].end
  <2>1. CASE Away(a) /\ sock'[a] = sock[a] BY <1>9, <2>1 DEF Open, Lasts
  <2>2. CASE ~Away(a) /\ Gone(a)
    <3>1. x = Other(a, n) BY <1>4, <1>9, <2>2 DEF Open
    <3> QED BY <1>9, <2>2, <3>1 DEF Open
  <2>3. CASE ~Away(a) /\ sock'[a] = w(a) BY <1>4, <1>9, <2>3 DEF Open, Lasts
  <2> QED BY <1>6, <2>1, <2>2, <2>3
<1> HIDE DEF Away, Gone
<1>10. f \in Entries /\ \A x, u \in Node : f[x][u] = IF x = n THEN None ELSE entry[x][u]
  BY <1>3 DEF Entries
<1> HIDE DEF f
<1>11. Wired(sock', f)
  <2> SUFFICES ASSUME NEW x \in Node, NEW u \in Node, f[x][u] # None
               PROVE  Open(sock', x, f[x][u]) /\ DOMAIN sock'[f[x][u]].end = {x, u}
    BY DEF Wired
  <2>1. x # n /\ f[x][u] = entry[x][u] BY <1>10
  <2>2. /\ entry[x][u] \in Conn /\ Open(sock, x, entry[x][u])
        /\ DOMAIN sock[entry[x][u]].end = {x, u}
    BY <1>3, <2>1 DEF Fit, Wired, Entries
  <2> QED BY <1>9, <2>1, <2>2 DEF Lasts
<1>12. NoNewWait(sock, sock') BY <1>8 DEF NoNewWait
<1>13. ASSUME NEW d \in Conn, NEW a \in Conn, NEW x \in Node, Open(sock, x, a), WaitsFor(sock', d, x, a)
       PROVE  Lasts(sock, sock', x, a)
  <2>1. x # n BY <1>8, <1>13 DEF WaitsFor
  <2> QED BY <1>9, <1>13, <2>1
<1>14. Fit(sock', f) BY <1>3, <1>5, <1>10, <1>11, <1>12, <1>13, EvolveFit
<1>15. Books' BY <1>2, OverlayAssumption DEF OverlayInv, Books
<1>16. NoSelf' BY <1>2 DEF OverlayInv, Books, NoSelf
<1>17. History'
  <2>1. IsFiniteSet({}) BY FS_EmptySet
  <2> QED BY <1>2, <2>1 DEF OverlayInv, History
<1>18. EntryStep
  <2> SUFFICES ASSUME NEW x \in Node, NEW u \in Node, NEW a \in Conn,
                      entry[x][u] = a, entry'[x][u] = None
               PROVE  ~At(x, a, "open")'
    BY DEF EntryStep
  <2>1. a # None BY OverlayAssumption
  <2>2. x = n BY <1>2, <1>10, <2>1
  <2>3. Open(sock, n, a) BY <1>3, <2>1, <2>2 DEF Fit, Wired
  <2>4. ~Away(a) BY <2>3 DEF Open, Away, Ends
  <2> QED BY <1>7, <2>2, <2>4 DEF Open, At, Ends
<1> QED BY <1>2, <1>14, <1>15, <1>16, <1>17, <1>18 DEF OverlayInv

-----------------------------------------------------------------------------
(* The theorems. *)

(***************************************************************************)
(* No node runs at the start, so there is no connection.                   *)
(***************************************************************************)
LEMMA OverlayInit == Init => OverlayInv
<1> SUFFICES ASSUME Init PROVE OverlayInv OBVIOUS
<1>1. Books /\ NoSelf BY OverlayAssumption DEF Init, Books, NoSelf
<1>2. History BY FS_EmptySet DEF Init, History
<1>3. sock \in Sockets /\ entry \in Entries BY DEF Init, Sockets, Entries
<1>4. Pending(sock) /\ Wired(sock, entry) BY DEF Init, Pending, Waits, Wired
<1> QED BY <1>1, <1>2, <1>3, <1>4 DEF OverlayInv, Fit

(***************************************************************************)
(* Every step of every node, and every fault, keeps the invariant.         *)
(***************************************************************************)
LEMMA OverlayNext ==
  ASSUME OverlayInv, Next PROVE OverlayInv' /\ EntryStep
<1>1. ASSUME NEW n \in Node, Start(n) \/ RefreshManifest(n) \/ Crash(n) \/ Connect(n)
      PROVE  OverlayInv' /\ EntryStep
  BY <1>1, StartStep, CrashStep, TryNextStep, ExhaustedStep, FloodJoinStep DEF Connect
<1>2. ASSUME NEW n \in Node, NEW c \in Conn, Serve(n, c)
      PROVE  OverlayInv' /\ EntryStep
  BY <1>2, AcceptStep, ConnectedStep, HandshakeFailsStep, ReadJoinStep, EndReaderStep DEF Serve
<1>3. ASSUME NEW c \in Conn, Cut(c) PROVE OverlayInv' /\ EntryStep BY <1>3, CutStep
<1> QED BY <1>1, <1>2, <1>3 DEF Next

(***************************************************************************)
(* A step that changes nothing keeps the invariant.                        *)
(***************************************************************************)
LEMMA OverlayStutter ==
  ASSUME OverlayInv, UNCHANGED vars PROVE OverlayInv'
BY DEF vars, OverlayInv, Books, History, NoSelf

(***************************************************************************)
(* The inductive invariant holds in every reachable state.                 *)
(***************************************************************************)
LEMMA OverlayAlways == Spec => []OverlayInv
<1>1. OverlayInv /\ [Next]_vars => OverlayInv' BY OverlayNext, OverlayStutter
<1> QED BY <1>1, OverlayInit, PTL DEF Spec

(***************************************************************************)
(* Types, for every number of nodes, connections and faults: a connection  *)
(* joins two nodes, no node dials itself, and a goroutine that waits for a *)
(* handshake is alive.                                                     *)
(***************************************************************************)
THEOREM OverlayWellTyped == Spec => []TypeOK
<1>1. OverlayInv => TypeOK
  <2> SUFFICES ASSUME OverlayInv PROVE TypeOK OBVIOUS
  <2>1. ASSUME NEW c \in Conn, sock[c] # None
        PROVE  /\ Cardinality(Ends(c)) = 2 /\ sock[c].dialer \in Ends(c)
               /\ sock[c].by # Connector /\ sock[c].end[sock[c].dialer] = "wait" =>
                    At(sock[c].dialer, sock[c].by, "open")
    <3>1. sock[c] \in Connection BY <2>1, SocketCases DEF OverlayInv, Fit
    <3>2. Ends(c) \in Pair /\ sock[c].dialer \in Ends(c) BY <3>1, ConnectionFields DEF Ends
    <3>3. PICK x, y \in Node : x # y /\ Ends(c) = {x, y} BY <3>2 DEF Pair
    <3>4. IsFiniteSet({x}) /\ Cardinality({x}) = 1 BY FS_Singleton
    <3>5. Cardinality({x} \cup {y}) = 2
      <4>1. y \notin {x} BY <3>3
      <4>2. Cardinality({x} \cup {y}) = Cardinality({x}) + 1
        BY <3>4, <4>1, FS_AddElement, Zenon
      <4> QED BY <3>4, <4>2
    <3>6. Ends(c) = {x} \cup {y} BY <3>3
    <3>7. Waits(sock, c) => Open(sock, sock[c].dialer, sock[c].by)
      BY DEF OverlayInv, Fit, Pending
    <3> QED BY <2>1, <3>2, <3>5, <3>6, <3>7 DEF Waits, Open, At, Ends
  <2>2. entry \in Entries BY DEF OverlayInv, Fit
  <2> QED BY <2>1, <2>2 DEF OverlayInv, Books, History, Entries, TypeOK
<1> QED BY <1>1, OverlayAlways, PTL

(***************************************************************************)
(* The map of connections never points to a connection whose reader has    *)
(* ended: the reconnect timer counts live connections only.                *)
(***************************************************************************)
THEOREM MapIsRead == Spec => []EntriesAreRead
<1>1. OverlayInv => EntriesAreRead
  BY DEF OverlayInv, Fit, Wired, Open, EntriesAreRead, At, Ends
<1> QED BY <1>1, OverlayAlways, PTL

(***************************************************************************)
(* While the reader of the connection in the map runs, no end of an older  *)
(* connection removes the entry.                                           *)
(***************************************************************************)
THEOREM NewestConnectionKept == Spec => NewestKept
<1>1. OverlayInv /\ [Next]_vars => [EntryStep]_vars BY OverlayNext
<1> QED BY <1>1, OverlayAlways, PTL DEF Spec, NewestKept
=============================================================================
