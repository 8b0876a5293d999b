------------------------- MODULE ConnListener_proofs -------------------------
(***************************************************************************)
(* Proofs about ConnListener, for any number of clients, descriptors,      *)
(* objects and nodes.  The inductive invariant has three parts: which      *)
(* connection is whose, in which state its thread may be (Objs), which     *)
(* descriptor is whose (Socks), and what the list holds (Linked).          *)
(***************************************************************************)
EXTENDS ConnListener, ConnList_proofs, SequenceTheorems

\* where the thread of a connection in state s can be
Match(th, s) ==
    /\ s = "null" => th = "none"
    /\ s = "starting" => th \in {"none", "begin"}
    /\ s = "running" => th \in {"work", "catch", "stop"}
    /\ s = "stoped" => th \in {"detach", "gone"}

InUse(o) == object[o] # Nil

\* Every thread at work has its own connection, and no two connections have the
\* same client; the listener has one that has not been started.
Objs ==
    /\ \A c \in Clients : c > accepted => thread[c] = "none"
    /\ \A o \in Objects : InUse(o) =>
          /\ object[o].client <= accepted
          /\ Match(thread[object[o].client], object[o].state)
    /\ \A o, p \in Objects : InUse(o) /\ InUse(p) /\ object[o].client = object[p].client => o = p
    /\ \A c \in Clients : thread[c] \in AtWork =>
          conn[c] \in Objects /\ InUse(conn[c]) /\ object[conn[c]].client = c
    /\ lpc # "accept" =>
          /\ newcon \in Objects /\ InUse(newcon)
          /\ object[newcon].client = accepted /\ object[newcon].state = "null"

\* threads that have not closed their socket, or not for the last time
HasSocket == {"none", "begin", "work", "catch"}

\* An open descriptor is the socket of its owner's connection, and until its
\* thread has closed it, a connection owns its socket.
Socks ==
    /\ \A fd \in Fds : owner[fd] # Nobody =>
          /\ thread[owner[fd]] \in HasSocket
          /\ \E o \in Objects :
                InUse(o) /\ object[o].client = owner[fd] /\ object[o].socket = fd
    /\ \A o \in Objects :
          InUse(o) /\ object[o].socket # NoFd /\ thread[object[o].client] \in HasSocket
              => owner[object[o].socket] = object[o].client

\* the connections that are in the list: all but the one that was just accepted
Listed ==
    {o \in Objects : InUse(o)} \ (IF lpc \in {"gc_first", "gc", "add"} THEN {newcon} ELSE {})

\* The list is a chain of exactly these, and the collection stands on one.
Linked ==
    /\ \E w : Chain(w)
    /\ \A n \in Used : node[n].ptr \in Listed
    /\ \A o \in Listed : \E n \in Used : node[n].ptr = o
    /\ \A m, n \in Used : node[m].ptr = node[n].ptr => m = n
    /\ current \in Used \cup {Nil}
    /\ lpc = "gc" => current \in Used

ListenerInv == Objs /\ Socks /\ Linked

LEMMA ListenerInit == Init => TypeOK /\ ListenerInv
<1> SUFFICES ASSUME Init
             PROVE  TypeOK /\ ListenerInv
  OBVIOUS
<1> USE FdsAssumption DEF Init, Clients
<1>1. TypeOK
  BY DEF TypeOK, ListTypeOK, ListInit, Link, Objects
<1>2. Objs
  BY DEF Objs, InUse, Objects, AtWork
<1>3. Socks
  BY DEF Socks, InUse, Objects
<1>4. Chain(<<>>)
  BY EmptyChain
<1>5. Used = {} /\ Listed = {} /\ current = Nil
  BY DEF Used, Listed, InUse, ListInit
<1>6. Linked
  BY <1>4, <1>5 DEF Linked
<1> QED
  BY <1>1, <1>2, <1>3, <1>6 DEF ListenerInv

-----------------------------------------------------------------------------
(* Connections and their threads.                                           *)

\* The connection of a thread at work.
LEMMA Own ==
    ASSUME TypeOK, Objs, NEW c \in Clients, thread[c] \in AtWork
    PROVE  /\ conn[c] \in Objects /\ InUse(conn[c]) /\ object[conn[c]] \in Connections
           /\ object[conn[c]].client = c /\ Match(thread[c], object[conn[c]].state)
           /\ lpc # "accept" => newcon # conn[c]
           /\ \A o \in Objects : InUse(o) /\ object[o].client = c => o = conn[c]
<1>1. conn[c] \in Objects /\ InUse(conn[c]) /\ object[conn[c]].client = c
  BY DEF Objs
<1>2. object[conn[c]] \in Connections
  BY <1>1 DEF TypeOK, InUse
<1>3. Match(thread[c], object[conn[c]].state)
  BY <1>1 DEF Objs
<1>4. lpc # "accept" => newcon # conn[c]
  BY <1>3 DEF Objs, Match, AtWork
<1> QED
  BY <1>1, <1>2, <1>3, <1>4 DEF Objs

\* The state of a thread's connection is set.
LEMMA SetStateIs ==
    ASSUME TypeOK, Objs, NEW c \in Clients, thread[c] \in AtWork, NEW s \in States,
           SetState(c, s)
    PROVE  /\ object' \in [Objects -> Connections \cup {Nil}]
           /\ \A o \in Objects : InUse(o)' <=> InUse(o)
           /\ \A o \in Objects : o # conn[c] => object'[o] = object[o]
           /\ object'[conn[c]].state = s
           /\ object'[conn[c]].client = c
           /\ object'[conn[c]].socket = object[conn[c]].socket
<1>1. conn[c] \in Objects /\ InUse(conn[c]) /\ object[conn[c]] \in Connections
  BY Own
<1>2. object' = [object EXCEPT ![conn[c]] = [object[conn[c]] EXCEPT !.state = s]]
  BY DEF SetState
<1>3. [object[conn[c]] EXCEPT !.state = s] \in Connections
  BY <1>1 DEF Connections
<1>4. object'[conn[c]] = [object[conn[c]] EXCEPT !.state = s]
  BY <1>1, <1>2 DEF TypeOK
<1>5. object'[conn[c]] # Nil
  BY <1>3, <1>4, ObjectAssumption
<1>6. object[conn[c]].client = c
  BY Own
<1> QED
  BY <1>1, <1>2, <1>3, <1>4, <1>5, <1>6 DEF TypeOK, InUse, Connections

LEMMA GotoIs ==
    ASSUME TypeOK, NEW c \in Clients, NEW step \in AtWork \cup {"detach", "gone"},
           ThreadGoto(c, step)
    PROVE  /\ thread' \in [Clients -> AtWork \cup {"none", "detach", "gone"}]
           /\ thread'[c] = step
           /\ \A d \in Clients : d # c => thread'[d] = thread[d]
  BY DEF TypeOK, ThreadGoto

\* A step of a thread leaves the objects in order when its own connection, which
\* is the only one it changes, is in the state its next step needs.
LEMMA ObjsMove ==
    ASSUME TypeOK, Objs, NEW c \in Clients, thread[c] \in AtWork,
           NEW step \in AtWork \cup {"detach", "gone"}, ThreadGoto(c, step),
           UNCHANGED <<lpc, newcon, accepted, conn>>,
           \A o \in Objects : InUse(o)' <=> InUse(o),
           \A o \in Objects : o # conn[c] => object'[o] = object[o],
           object'[conn[c]].client = c, Match(step, object'[conn[c]].state)
    PROVE  Objs'
<1>1. /\ conn[c] \in Objects /\ InUse(conn[c]) /\ (lpc # "accept" => newcon # conn[c])
      /\ \A o \in Objects : InUse(o) /\ object[o].client = c => o = conn[c]
      /\ object[conn[c]].client = c
  BY Own
<1>2. thread'[c] = step /\ \A d \in Clients : d # c => thread'[d] = thread[d]
  BY GotoIs
<1>3. \A o \in Objects : InUse(o) => object'[o].client = object[o].client
  BY <1>1
<1>4. c <= accepted
  BY <1>1 DEF Objs
<1>5. \A d \in Clients : (d > accepted)' => thread'[d] = "none"
  BY <1>2, <1>4 DEF Objs, TypeOK, Clients
<1>6. ASSUME NEW o \in Objects, InUse(o)'
      PROVE  /\ object'[o].client <= accepted'
             /\ Match(thread'[object'[o].client], object'[o].state)
  <2>1. InUse(o)
    BY <1>6
  <2>2. object'[o].client <= accepted'
    BY <1>3, <2>1 DEF Objs
  <2>3. CASE o = conn[c]
    BY <1>2, <2>2, <2>3
  <2>4. CASE o # conn[c]
    <3>1. object'[o] = object[o] /\ object[o].client # c
      BY <1>1, <2>1, <2>4
    <3>2. object[o].client \in Clients
      BY <2>1 DEF TypeOK, InUse, Connections
    <3> QED
      BY <1>2, <2>1, <2>2, <3>1, <3>2 DEF Objs
  <2> QED
    BY <2>3, <2>4
<1>7. \A o, p \in Objects :
          InUse(o)' /\ InUse(p)' /\ object'[o].client = object'[p].client => o = p
  BY <1>3 DEF Objs
<1>8. ASSUME NEW d \in Clients, thread'[d] \in AtWork
      PROVE  conn'[d] \in Objects /\ InUse(conn[d])' /\ object'[conn'[d]].client = d
  <2>1. thread[d] \in AtWork
    BY <1>2, <1>8
  <2>2. conn[d] \in Objects /\ InUse(conn[d]) /\ object[conn[d]].client = d
    BY <2>1 DEF Objs
  <2>3. InUse(conn[d])' /\ object'[conn'[d]].client = d
    BY <1>3, <2>2 DEF InUse
  <2> QED
    BY <2>2, <2>3
<1>9. lpc' # "accept" =>
          /\ newcon' \in Objects /\ InUse(newcon)'
          /\ object'[newcon'].client = accepted' /\ object'[newcon'].state = "null"
  BY <1>1 DEF Objs, InUse
<1> QED
  BY <1>5, <1>6, <1>7, <1>8, <1>9 DEF Objs, Match

\* The threads keep the objects in order.
LEMMA ObjsThread ==
    ASSUME TypeOK, Objs, NEW c \in Clients, Thread(c)
    PROVE  Objs' /\ (\A o \in Objects : InUse(o)' <=> InUse(o))
<1>1. CASE Begin(c)
  <2>1. thread[c] \in AtWork /\ SetState(c, "running") /\ ThreadGoto(c, "work")
    BY <1>1 DEF Begin, AtWork
  <2>2. UNCHANGED <<lpc, newcon, accepted, conn>>
    BY <1>1 DEF Begin
  <2> QED
    BY <2>1, <2>2, SetStateIs, ObjsMove DEF Match, States, AtWork
<1>2. CASE HangUp(c)
  <2>1. thread[c] = "work" /\ thread[c] \in AtWork /\ ThreadGoto(c, "catch")
    BY <1>2 DEF HangUp, AtWork
  <2>2. UNCHANGED <<lpc, newcon, accepted, conn>>
    BY <1>2 DEF HangUp
  <2>3. conn[c] \in Objects /\ object[conn[c]] \in Connections /\ object[conn[c]].client = c
    BY <2>1, Own
  <2>4. /\ object'[conn[c]] = [object[conn[c]] EXCEPT !.socket = NoFd]
        /\ \A o \in Objects : o # conn[c] => object'[o] = object[o]
    BY <1>2, <2>3 DEF HangUp, TypeOK
  <2>5. /\ object'[conn[c]] \in Connections /\ object'[conn[c]].client = c
        /\ object'[conn[c]].state = object[conn[c]].state
    BY <2>3, <2>4 DEF Connections
  <2>6. Match("work", object[conn[c]].state)
    BY <2>1, Own
  <2>7. Match("catch", object'[conn[c]].state)
    BY <2>5, <2>6 DEF Match
  <2>8. \A o \in Objects : InUse(o)' <=> InUse(o)
    BY <2>1, <2>4, <2>5, Own, ObjectAssumption DEF InUse
  <2> QED
    BY <2>1, <2>2, <2>4, <2>5, <2>7, <2>8, ObjsMove DEF AtWork
<1>3. CASE Leave(c) \/ Catch(c)
  <2>1. PICK step \in {"catch", "stop"} : ThreadGoto(c, step) /\ thread[c] \in {"work", "catch"}
    BY <1>3 DEF Leave, Catch
  <2>2. UNCHANGED <<lpc, newcon, accepted, object, conn>> /\ thread[c] \in AtWork
    BY <1>3, <2>1 DEF Leave, Catch, AtWork
  <2>3. Match(step, object[conn[c]].state) /\ object[conn[c]].client = c
    BY <2>1, <2>2, Own DEF Match
  <2>4. \A o \in Objects : InUse(o)' <=> InUse(o)
    BY <2>2 DEF InUse
  <2> QED
    BY <2>1, <2>2, <2>3, <2>4, ObjsMove DEF AtWork
<1>4. CASE Stopped(c)
  <2>1. thread[c] \in AtWork /\ SetState(c, "stoped") /\ ThreadGoto(c, "detach")
    BY <1>4 DEF Stopped, AtWork
  <2>2. UNCHANGED <<lpc, newcon, accepted, conn>>
    BY <1>4 DEF Stopped
  <2> QED
    BY <2>1, <2>2, SetStateIs, ObjsMove DEF Match, States, AtWork
<1>5. CASE Detach(c)
  <2>1. /\ thread[c] = "detach" /\ ThreadGoto(c, "gone")
        /\ UNCHANGED <<lpc, newcon, accepted, object, conn>>
    BY <1>5 DEF Detach
  <2>2. thread'[c] = "gone" /\ \A d \in Clients : d # c => thread'[d] = thread[d]
    BY <2>1, GotoIs
  <2>3. \A o \in Objects : InUse(o)' <=> InUse(o)
    BY <2>1 DEF InUse
  <2>4. \A o \in Objects : InUse(o) =>
            Match(thread'[object[o].client], object[o].state)
    <3>1. \A o \in Objects : InUse(o) => object[o].client \in Clients
      BY DEF TypeOK, InUse, Connections
    <3> QED
      BY <2>1, <2>2, <3>1 DEF Objs, Match
  <2> QED
    BY <2>1, <2>2, <2>3, <2>4 DEF Objs, AtWork, Match
<1> QED
  BY <1>1, <1>2, <1>3, <1>4, <1>5 DEF Thread

-----------------------------------------------------------------------------
(* Sockets.                                                                 *)

\* A step that closes nothing and moves no connection to another socket.
LEMMA SocksKept ==
    ASSUME TypeOK, Objs, Socks, owner' = owner,
           \A o \in Objects : InUse(o)' <=> InUse(o),
           \A o \in Objects : InUse(o) =>
              object'[o].client = object[o].client /\ object'[o].socket = object[o].socket,
           \A d \in Clients : thread'[d] \in HasSocket <=> thread[d] \in HasSocket
    PROVE  Socks'
<1>1. \A o \in Objects : InUse(o) => object[o].client \in Clients
  BY DEF TypeOK, InUse, Connections
<1>2. \A fd \in Fds : owner[fd] # Nobody => owner[fd] \in Clients
  BY DEF TypeOK
<1>3. ASSUME NEW fd \in Fds, owner'[fd] # Nobody
      PROVE  /\ thread'[owner'[fd]] \in HasSocket
             /\ \E o \in Objects :
                   InUse(o)' /\ object'[o].client = owner'[fd] /\ object'[o].socket = fd
  <2>1. PICK o \in Objects :
          InUse(o) /\ object[o].client = owner[fd] /\ object[o].socket = fd
    BY <1>3 DEF Socks
  <2> QED
    BY <1>2, <1>3, <2>1 DEF Socks
<1>4. ASSUME NEW o \in Objects, InUse(o)', object'[o].socket # NoFd,
             thread'[object'[o].client] \in HasSocket
      PROVE  owner'[object'[o].socket] = object'[o].client
  BY <1>1, <1>4 DEF Socks
<1> QED
  BY <1>3, <1>4 DEF Socks, HasSocket, Nobody, NoFd

\* A thread closes its own socket, and then has none.
LEMMA ClosesOwn ==
    ASSUME TypeOK, Objs, Socks, NEW c \in Clients, thread[c] \in {"work", "catch"},
           owner' = Closed(object[conn[c]].socket)
    PROVE  /\ owner' \in [Fds -> Clients \cup {Nobody}]
           /\ \A fd \in Fds : owner[fd] # c => owner'[fd] = owner[fd]
           /\ \A fd \in Fds : owner[fd] = c => owner'[fd] = Nobody
<1> DEFINE s == object[conn[c]].socket
<1>1. /\ conn[c] \in Objects /\ InUse(conn[c]) /\ object[conn[c]] \in Connections
      /\ object[conn[c]].client = c
      /\ \A o \in Objects : InUse(o) /\ object[o].client = c => o = conn[c]
  BY Own DEF AtWork
<1>2. s \in Fds \cup {NoFd} /\ thread[c] \in HasSocket /\ c # Nobody
  BY <1>1 DEF Connections, HasSocket, Clients, Nobody
<1>3. s # NoFd => owner[s] = c
  BY <1>1, <1>2 DEF Socks
<1>4. \A fd \in Fds : owner[fd] = c => fd = s
  BY <1>1, <1>2 DEF Socks
<1>5. s = NoFd => owner' = owner /\ \A fd \in Fds : fd # s
  BY FdsAssumption DEF Closed, NoFd
<1>6. s # NoFd => owner' = [owner EXCEPT ![s] = Nobody]
  BY DEF Closed
<1> HIDE DEF s
<1>7. CASE s = NoFd
  BY <1>4, <1>5, <1>7 DEF TypeOK
<1>8. CASE s # NoFd
  BY <1>2, <1>3, <1>4, <1>6, <1>8 DEF TypeOK
<1> QED
  BY <1>7, <1>8

\* When a thread closes its socket, the others keep theirs.
LEMMA SocksClosed ==
    ASSUME TypeOK, Objs, Socks, NEW c \in Clients, thread[c] \in {"work", "catch"},
           owner' = Closed(object[conn[c]].socket),
           \A o \in Objects : InUse(o)' <=> InUse(o),
           \A o \in Objects : o # conn[c] => object'[o] = object[o],
           object'[conn[c]].client = c,
           object'[conn[c]].socket = NoFd \/ thread'[c] \notin HasSocket,
           \A d \in Clients : d # c => thread'[d] = thread[d]
    PROVE  Socks'
<1>1. /\ \A fd \in Fds : owner[fd] # c => owner'[fd] = owner[fd]
      /\ \A fd \in Fds : owner[fd] = c => owner'[fd] = Nobody
  BY ClosesOwn
<1>2. /\ conn[c] \in Objects /\ object[conn[c]].client = c
      /\ \A o \in Objects : InUse(o) /\ object[o].client = c => o = conn[c]
  BY Own DEF AtWork
<1>3. \A o \in Objects : InUse(o) => object[o] \in Connections
  BY DEF TypeOK, InUse
<1>4. ASSUME NEW fd \in Fds, owner'[fd] # Nobody
      PROVE  /\ thread'[owner'[fd]] \in HasSocket
             /\ \E o \in Objects :
                   InUse(o)' /\ object'[o].client = owner'[fd] /\ object'[o].socket = fd
  <2>1. owner[fd] # c /\ owner'[fd] = owner[fd] /\ owner[fd] \in Clients
    BY <1>1, <1>4 DEF TypeOK
  <2>2. PICK o \in Objects :
          InUse(o) /\ object[o].client = owner[fd] /\ object[o].socket = fd
    BY <1>4, <2>1 DEF Socks
  <2>3. o # conn[c] /\ object'[o] = object[o]
    BY <1>2, <2>1, <2>2
  <2> QED
    BY <1>4, <2>1, <2>2, <2>3 DEF Socks
<1>5. ASSUME NEW o \in Objects, InUse(o)', object'[o].socket # NoFd,
             thread'[object'[o].client] \in HasSocket
      PROVE  owner'[object'[o].socket] = object'[o].client
  <2>1. o # conn[c]
    BY <1>5
  <2>2. /\ object'[o] = object[o] /\ object[o].client # c /\ InUse(o)
        /\ object[o].client \in Clients /\ object[o].socket \in Fds
    BY <1>2, <1>3, <1>5, <2>1 DEF Connections
  <2>3. owner[object[o].socket] = object[o].client
    BY <1>5, <2>2 DEF Socks
  <2> QED
    BY <1>1, <2>2, <2>3
<1> QED
  BY <1>4, <1>5 DEF Socks, HasSocket, Nobody, NoFd

LEMMA SocksThread ==
    ASSUME TypeOK, Objs, Socks, NEW c \in Clients, Thread(c)
    PROVE  Socks'
<1>1. \A o \in Objects : InUse(o)' <=> InUse(o)
  BY ObjsThread
<1>2. \A o \in Objects : InUse(o) /\ object[o].client = c /\ thread[c] \in AtWork => o = conn[c]
  BY Own
<1>3. CASE Begin(c) \/ Stopped(c)
  <2>1. PICK s \in States, step \in {"work", "detach"} :
          /\ SetState(c, s) /\ ThreadGoto(c, step) /\ thread[c] \in {"begin", "stop"}
          /\ step = "work" <=> thread[c] = "begin"
    BY <1>3 DEF Begin, Stopped, States
  <2>2. thread[c] \in AtWork /\ owner' = owner
    BY <1>3, <2>1 DEF Begin, Stopped, AtWork
  <2>3. \A d \in Clients : thread'[d] \in HasSocket <=> thread[d] \in HasSocket
    BY <2>1, GotoIs DEF HasSocket, AtWork
  <2>4. object[conn[c]].client = c
    BY <2>2, Own
  <2>5. \A o \in Objects : InUse(o) =>
              object'[o].client = object[o].client /\ object'[o].socket = object[o].socket
    BY <2>1, <2>2, <2>4, SetStateIs
  <2> QED
    BY <1>1, <2>2, <2>3, <2>5, SocksKept
<1>4. CASE Leave(c) \/ Detach(c)
  <2>1. PICK step \in {"catch", "gone"} :
          /\ ThreadGoto(c, step) /\ thread[c] \in {"work", "detach"}
          /\ step = "catch" <=> thread[c] = "work"
    BY <1>4 DEF Leave, Detach
  <2>2. owner' = owner /\ object' = object
    BY <1>4 DEF Leave, Detach
  <2>3. \A d \in Clients : thread'[d] \in HasSocket <=> thread[d] \in HasSocket
    BY <2>1, GotoIs DEF HasSocket, AtWork
  <2> QED
    BY <1>1, <2>2, <2>3, SocksKept
<1>5. CASE HangUp(c)
  <2>1. /\ thread[c] \in {"work", "catch"} /\ ThreadGoto(c, "catch")
        /\ owner' = Closed(object[conn[c]].socket)
        /\ object' = [object EXCEPT ![conn[c]].socket = NoFd]
    BY <1>5 DEF HangUp
  <2>2. conn[c] \in Objects /\ object[conn[c]] \in Connections /\ object[conn[c]].client = c
    BY <2>1, Own DEF AtWork
  <2>3. /\ \A o \in Objects : o # conn[c] => object'[o] = object[o]
        /\ object'[conn[c]].client = c /\ object'[conn[c]].socket = NoFd
    BY <2>1, <2>2 DEF TypeOK, Connections
  <2>4. \A d \in Clients : d # c => thread'[d] = thread[d]
    BY <2>1, GotoIs DEF AtWork
  <2> QED
    BY <1>1, <2>1, <2>3, <2>4, SocksClosed
<1>6. CASE Catch(c)
  <2>1. /\ thread[c] \in {"work", "catch"} /\ ThreadGoto(c, "stop") /\ object' = object
        /\ owner' = Closed(object[conn[c]].socket)
    BY <1>6 DEF Catch, SocketToClose
  <2>2. object[conn[c]].client = c
    BY <2>1, Own DEF AtWork
  <2>3. thread'[c] = "stop" /\ \A d \in Clients : d # c => thread'[d] = thread[d]
    BY <2>1, GotoIs DEF AtWork
  <2> QED
    BY <1>1, <2>1, <2>2, <2>3, SocksClosed DEF HasSocket
<1> QED
  BY <1>3, <1>4, <1>5, <1>6 DEF Thread

-----------------------------------------------------------------------------
(* The steps of the threads, and of the listener.                           *)

LEMMA ThreadTypes ==
    ASSUME TypeOK, Objs, Socks, NEW c \in Clients, Thread(c)
    PROVE  TypeOK'
<1>1. UNCHANGED <<listVars, lpc, newcon, accepted, conn>>
  BY DEF Thread, Begin, HangUp, Leave, Catch, Stopped, Detach
<1>2. thread' \in [Clients -> AtWork \cup {"none", "detach", "gone"}]
  <2>1. \E step \in AtWork \cup {"detach", "gone"} : ThreadGoto(c, step)
    BY DEF Thread, Begin, HangUp, Leave, Catch, Stopped, Detach, AtWork
  <2> QED
    BY <2>1, GotoIs
<1>3. owner' \in [Fds -> Clients \cup {Nobody}]
  <2>1. CASE HangUp(c) \/ Catch(c)
    BY <2>1, ClosesOwn DEF HangUp, Catch, SocketToClose
  <2>2. CASE ~HangUp(c) /\ ~Catch(c)
    BY <2>2 DEF Thread, Begin, Leave, Stopped, Detach, TypeOK
  <2> QED
    BY <2>1, <2>2
<1>4. object' \in [Objects -> Connections \cup {Nil}]
  <2>1. CASE Begin(c) \/ Stopped(c)
    BY <2>1, SetStateIs DEF Begin, Stopped, AtWork, States
  <2>2. CASE HangUp(c)
    <3>1. conn[c] \in Objects /\ object[conn[c]] \in Connections
      BY <2>2, Own DEF HangUp, AtWork
    <3>2. [object[conn[c]] EXCEPT !.socket = NoFd] \in Connections
      BY <3>1 DEF Connections
    <3> QED
      BY <2>2, <3>1, <3>2 DEF HangUp, TypeOK
  <2>3. CASE Leave(c) \/ Catch(c) \/ Detach(c)
    BY <2>3 DEF Leave, Catch, Detach, TypeOK
  <2> QED
    BY <2>1, <2>2, <2>3 DEF Thread
<1> QED
  BY <1>1, <1>2, <1>3, <1>4 DEF TypeOK, ListTypeOK, listVars

\* A step that changes neither the list nor what has to be in it.
LEMMA LinkedKept ==
    ASSUME Linked, UNCHANGED <<first, last, count, node>>, Listed' = Listed,
           current' \in Used \cup {Nil}, lpc' = "gc" => current' \in Used
    PROVE  Linked'
<1>1. PICK w : Chain(w)
  BY DEF Linked
<1>2. Used' = Used
  BY DEF Used
<1>3. Chain(w)'
  BY <1>1, <1>2 DEF Chain
<1> QED
  BY <1>2, <1>3 DEF Linked

LEMMA ThreadStep ==
    ASSUME TypeOK, ListenerInv, NEW c \in Clients, Thread(c)
    PROVE  TypeOK' /\ ListenerInv'
<1>1. Objs' /\ Socks' /\ TypeOK' /\ \A o \in Objects : InUse(o)' <=> InUse(o)
  BY ObjsThread, SocksThread, ThreadTypes DEF ListenerInv
<1>2. UNCHANGED <<first, last, count, node, current, lpc, newcon>>
  BY DEF Thread, Begin, HangUp, Leave, Catch, Stopped, Detach, listVars
<1>3. Listed' = Listed
  BY <1>1, <1>2 DEF Listed
<1>4. Linked'
  <2>1. Linked
    BY DEF ListenerInv
  <2>2. current' \in Used \cup {Nil} /\ (lpc' = "gc" => current' \in Used)
    BY <1>2, <2>1 DEF Linked
  <2> QED
    BY <1>2, <1>3, <2>1, <2>2, LinkedKept
<1> QED
  BY <1>1, <1>4 DEF ListenerInv

LEMMA AcceptStep ==
    ASSUME TypeOK, ListenerInv, Accept
    PROVE  TypeOK' /\ ListenerInv'
<1> DEFINE c == accepted'
<1>1. /\ lpc = "accept" /\ lpc' = "gc_first" /\ c = accepted + 1 /\ c \in Clients
      /\ UNCHANGED <<thread, conn, first, last, count, node, current>>
  <2>1. accepted \in 0 .. MaxClients /\ accepted < MaxClients /\ c = accepted + 1
    BY DEF Accept, TypeOK
  <2>2. c \in Clients
    BY <2>1, FdsAssumption DEF Clients
  <2> QED
    BY <2>1, <2>2 DEF Accept, listVars
<1>2. PICK n \in Objects : n = newcon' /\ object[n] = Nil
  BY DEF Accept, NewOf
<1>3. PICK fd \in Fds :
        /\ owner[fd] = Nobody /\ owner' = [owner EXCEPT ![fd] = c]
        /\ object' = [object EXCEPT ![n] = [state |-> "null", socket |-> fd, client |-> c]]
  BY <1>2 DEF Accept
<1>4. /\ object'[n] = [state |-> "null", socket |-> fd, client |-> c]
      /\ \A o \in Objects : o # n => object'[o] = object[o]
      /\ owner'[fd] = c /\ \A f \in Fds : f # fd => owner'[f] = owner[f]
  BY <1>2, <1>3 DEF TypeOK
<1>5. object'[n] \in Connections /\ InUse(n)' /\ object'[n] # Nil
  BY <1>1, <1>4, ObjectAssumption DEF Connections, States, InUse
<1>6. \A o \in Objects : InUse(o) => object[o] \in Connections
  BY DEF TypeOK, InUse
<1>7. /\ \A o \in Objects : InUse(o) => object[o].client <= accepted
      /\ c # Nobody /\ accepted \in Nat
  BY <1>1 DEF ListenerInv, Objs, TypeOK, Clients, Nobody
<1>8. \A o \in Objects : o # n => (InUse(o)' <=> InUse(o))
  BY <1>4 DEF InUse
<1>9. thread[c] = "none"
  BY <1>1, <1>7 DEF ListenerInv, Objs
<1>10. ~InUse(n)
  BY <1>2 DEF InUse
<1>11. TypeOK'
  <2>1. object' \in [Objects -> Connections \cup {Nil}]
    BY <1>2, <1>3, <1>4, <1>5 DEF TypeOK
  <2>2. owner' \in [Fds -> Clients \cup {Nobody}]
    BY <1>1, <1>3 DEF TypeOK
  <2> QED
    BY <1>1, <1>2, <2>1, <2>2 DEF TypeOK, ListTypeOK, Clients
<1>12. Objs'
  <2>1. \A d \in Clients : d > accepted' => thread'[d] = "none"
    BY <1>1, <1>7 DEF ListenerInv, Objs, Clients
  <2>2. ASSUME NEW o \in Objects, InUse(o)'
        PROVE  /\ object'[o].client <= accepted'
               /\ Match(thread'[object'[o].client], object'[o].state)
    <3>1. CASE o = n
      BY <1>1, <1>4, <1>7, <1>9, <3>1 DEF Match
    <3>2. CASE o # n
      <4>1. InUse(o) /\ object'[o] = object[o]
        BY <1>4, <1>8, <2>2, <3>2
      <4>2. object[o].client <= accepted /\ object[o].client \in Nat
        BY <1>6, <1>7, <4>1 DEF Connections, Clients
      <4> QED
        BY <1>1, <1>7, <4>1, <4>2 DEF ListenerInv, Objs
    <3> QED
      BY <3>1, <3>2
  <2>3. ASSUME NEW o \in Objects, NEW p \in Objects, InUse(o)', InUse(p)',
               object'[o].client = object'[p].client
        PROVE  o = p
    <3>1. \A q \in Objects : q # n /\ InUse(q)' => object'[q].client # c
      BY <1>1, <1>4, <1>7, <1>8
    <3>2. object'[n].client = c
      BY <1>4
    <3>3. o # n /\ p # n => o = p
      BY <1>4, <1>8, <2>3 DEF ListenerInv, Objs
    <3> QED
      BY <2>3, <3>1, <3>2, <3>3
  <2>4. ASSUME NEW d \in Clients, thread'[d] \in AtWork
        PROVE  conn'[d] \in Objects /\ InUse(conn[d])' /\ object'[conn'[d]].client = d
    <3>1. conn[d] \in Objects /\ InUse(conn[d]) /\ object[conn[d]].client = d
      BY <1>1, <2>4 DEF ListenerInv, Objs
    <3>2. conn[d] # n /\ conn'[d] = conn[d]
      BY <1>1, <1>10, <3>1
    <3> QED
      BY <1>4, <3>1, <3>2 DEF InUse
  <2>5. /\ newcon' \in Objects /\ InUse(newcon)'
        /\ object'[newcon'].client = accepted' /\ object'[newcon'].state = "null"
    BY <1>2, <1>4, <1>5 DEF InUse
  <2> QED
    BY <2>1, <2>2, <2>3, <2>4, <2>5 DEF Objs, Match
<1>13. Socks'
  <2>1. ASSUME NEW f \in Fds, owner'[f] # Nobody
        PROVE  /\ thread'[owner'[f]] \in HasSocket
               /\ \E o \in Objects :
                     InUse(o)' /\ object'[o].client = owner'[f] /\ object'[o].socket = f
    <3>1. CASE f = fd
      BY <1>1, <1>2, <1>4, <1>5, <1>9, <3>1 DEF HasSocket
    <3>2. CASE f # fd
      <4>1. owner'[f] = owner[f] /\ thread[owner[f]] \in HasSocket
        BY <1>4, <2>1, <3>2 DEF ListenerInv, Socks
      <4>2. PICK o \in Objects :
              InUse(o) /\ object[o].client = owner[f] /\ object[o].socket = f
        BY <2>1, <4>1 DEF ListenerInv, Socks
      <4>3. InUse(o)' /\ object'[o] = object[o]
        BY <1>4, <1>8, <1>10, <4>2
      <4> QED
        BY <1>1, <4>1, <4>2, <4>3
    <3> QED
      BY <3>1, <3>2
  <2>2. ASSUME NEW o \in Objects, InUse(o)', object'[o].socket # NoFd,
               thread'[object'[o].client] \in HasSocket
        PROVE  owner'[object'[o].socket] = object'[o].client
    <3>1. CASE o = n
      BY <1>4, <3>1
    <3>2. CASE o # n
      <4>1. InUse(o) /\ object'[o] = object[o]
        BY <1>4, <1>8, <2>2, <3>2
      <4>2. owner[object[o].socket] = object[o].client
        BY <1>1, <2>2, <4>1 DEF ListenerInv, Socks
      <4>3. object[o].client # Nobody /\ object[o].socket \in Fds
        BY <1>6, <2>2, <4>1 DEF Connections, Clients, Nobody
      <4> QED
        BY <1>3, <1>4, <4>1, <4>2, <4>3
    <3> QED
      BY <3>1, <3>2
  <2> QED
    BY <2>1, <2>2 DEF Socks, HasSocket, Nobody, NoFd
<1>14. Linked'
  <2>1. Listed' = Listed
    BY <1>1, <1>2, <1>5, <1>8, <1>10 DEF Listed
  <2>2. Linked
    BY DEF ListenerInv
  <2>3. current' \in Used \cup {Nil}
    BY <1>1, <2>2 DEF Linked
  <2> QED
    BY <1>1, <2>1, <2>2, <2>3, LinkedKept
<1> QED
  BY <1>11, <1>12, <1>13, <1>14 DEF ListenerInv

\* The collection goes along the list.
LEMMA CursorStep ==
    ASSUME TypeOK, ListenerInv, GCFirst \/ GCNext
    PROVE  TypeOK' /\ ListenerInv'
<1>1. /\ lpc \in {"gc_first", "gc"} /\ lpc' \in {"gc", "add"}
      /\ UNCHANGED <<first, last, count, node, newcon, accepted, object, thread, conn, owner>>
  BY DEF GCFirst, GCNext, ToFirst, ToNext, listVars
<1>2. PICK w : Chain(w)
  BY DEF ListenerInv, Linked
<1>3. count \in Nat /\ Used \subseteq Nodes
  BY DEF TypeOK, ListTypeOK, Used
<1>4. current' \in Used \cup {Nil} /\ (lpc' = "gc" => current' \in Used)
  <2>1. CASE GCFirst /\ HasFirst
    <3>1. first = w[1] /\ w[1] \in Used
      BY <1>2, <1>3, <2>1 DEF Chain, HasFirst
    <3> QED
      BY <2>1, <3>1 DEF GCFirst, ToFirst
  <2>2. CASE GCNext /\ HasNext
    <3>1. current \in Used /\ node[current].next # Nil
      BY <2>2 DEF HasNext, ListenerInv, Linked
    <3>2. PICK i \in 1 .. count : w[i] = current
      BY <1>2, <3>1 DEF Chain
    <3>3. i # count /\ node[current].next = w[i + 1]
      BY <1>2, <3>1, <3>2 DEF Chain
    <3>4. w[i + 1] \in Used
      BY <1>2, <1>3, <3>3 DEF Chain
    <3> QED
      BY <2>2, <3>3, <3>4 DEF GCNext, ToNext
  <2>3. CASE current' = current /\ lpc' = "add"
    BY <2>3 DEF ListenerInv, Linked
  <2> QED
    BY <2>1, <2>2, <2>3 DEF GCFirst, GCNext, listVars
<1>5. TypeOK'
  BY <1>1, <1>3, <1>4 DEF TypeOK, ListTypeOK, Link
<1>6. Objs' /\ Socks'
  BY <1>1 DEF ListenerInv, Objs, Socks, InUse
<1>7. Listed' = Listed
  BY <1>1 DEF Listed, InUse
<1>8. Linked'
  BY <1>1, <1>4, <1>7, LinkedKept DEF ListenerInv
<1> QED
  BY <1>5, <1>6, <1>8 DEF ListenerInv

LEMMA AddStep ==
    ASSUME TypeOK, ListenerInv, Add
    PROVE  TypeOK' /\ ListenerInv'
<1>1. /\ lpc = "add" /\ lpc' = "start" /\ AddItem(newcon)
      /\ UNCHANGED <<newcon, accepted, object, thread, conn, owner>>
  BY DEF Add
<1>2. newcon \in Items /\ InUse(newcon)
  BY <1>1 DEF ListenerInv, Objs, Objects
<1>3. PICK w : Chain(w)
  BY DEF ListenerInv, Linked
<1>4. PICK n, v : n = current' /\ v = [i \in 1 .. count + 1 |-> IF i = count + 1 THEN n ELSE w[i]]
  OBVIOUS
<1>5. /\ Chain(v)' /\ ListTypeOK'
      /\ n \in Nodes \ Used /\ Used' = Used \cup {n} /\ count' = count + 1
      /\ node'[n].ptr = newcon
      /\ \A m \in Used : node'[m].ptr = node[m].ptr
  BY <1>1, <1>2, <1>3, <1>4, AddChain DEF TypeOK
<1>6. TypeOK'
  BY <1>1, <1>5 DEF TypeOK
<1>7. Objs' /\ Socks'
  BY <1>1 DEF ListenerInv, Objs, Socks, InUse
<1>8. newcon \notin Listed /\ Listed' = Listed \cup {newcon}
  BY <1>1, <1>2 DEF Listed, InUse, Objects
<1>9. Linked'
  <2>1. Linked
    BY DEF ListenerInv
  <2>2. \A m \in Used' : node'[m].ptr \in Listed'
    BY <1>5, <1>8, <2>1 DEF Linked
  <2>3. \A o \in Listed' : \E m \in Used' : node'[m].ptr = o
    BY <1>5, <1>8, <2>1 DEF Linked
  <2>4. \A m, p \in Used' : node'[m].ptr = node'[p].ptr => m = p
    BY <1>5, <1>8, <2>1 DEF Linked
  <2> QED
    BY <1>1, <1>4, <1>5, <2>2, <2>3, <2>4 DEF Linked
<1> QED
  BY <1>6, <1>7, <1>9 DEF ListenerInv

LEMMA StartStep ==
    ASSUME TypeOK, ListenerInv, Start
    PROVE  TypeOK' /\ ListenerInv'
<1>1. /\ lpc = "start" /\ lpc' = "accept" /\ newcon' = Nil
      /\ UNCHANGED <<first, last, count, node, current, accepted, owner>>
  BY DEF Start, listVars
<1>2. /\ newcon \in Objects /\ InUse(newcon) /\ object[newcon].client = accepted
      /\ object[newcon].state = "null"
  BY <1>1 DEF ListenerInv, Objs
<1>3. object[newcon] \in Connections /\ accepted \in Clients
  BY <1>2 DEF TypeOK, InUse, Connections
<1>4. thread[accepted] = "none"
  BY <1>2 DEF ListenerInv, Objs, Match
<1>5. /\ object'[newcon] = [object[newcon] EXCEPT !.state = "starting"]
      /\ \A o \in Objects : o # newcon => object'[o] = object[o]
  BY <1>2 DEF Start, TypeOK
<1>6. /\ object'[newcon] \in Connections /\ object'[newcon] # Nil
      /\ object'[newcon].state = "starting"
      /\ object'[newcon].client = accepted
      /\ object'[newcon].socket = object[newcon].socket
  BY <1>2, <1>3, <1>5, ObjectAssumption DEF Connections, States
<1>7. \A o \in Objects : InUse(o)' <=> InUse(o)
  BY <1>2, <1>5, <1>6 DEF InUse
<1>8. \A o \in Objects : InUse(o) =>
          object'[o].client = object[o].client /\ object'[o].socket = object[o].socket
  BY <1>2, <1>5, <1>6
<1>9. /\ thread'[accepted] \in {"none", "begin"}
      /\ thread'[accepted] = "begin" => conn'[accepted] = newcon
      /\ \A d \in Clients : d # accepted => thread'[d] = thread[d] /\ conn'[d] = conn[d]
      /\ thread' \in [Clients -> AtWork \cup {"none", "detach", "gone"}]
      /\ conn' \in [Clients -> Objects \cup {Nil}]
  BY <1>2, <1>3, <1>4 DEF Start, TypeOK, AtWork
<1>10. TypeOK'
  <2>1. object' \in [Objects -> Connections \cup {Nil}]
    BY <1>2, <1>5, <1>6 DEF Start, TypeOK
  <2> QED
    BY <1>1, <1>9, <2>1 DEF TypeOK, ListTypeOK
<1>11. Objs'
  <2>1. \A d \in Clients : d > accepted => d # accepted
    BY DEF TypeOK, Clients
  <2>2. \A d \in Clients : (d > accepted)' => thread'[d] = "none"
    BY <1>1, <1>9, <2>1 DEF ListenerInv, Objs
  <2>3. ASSUME NEW o \in Objects, InUse(o)'
        PROVE  /\ object'[o].client <= accepted'
               /\ Match(thread'[object'[o].client], object'[o].state)
    <3>1. InUse(o) /\ object[o].client <= accepted /\ object'[o].client = object[o].client
      BY <1>7, <1>8, <2>3 DEF ListenerInv, Objs
    <3>2. CASE o = newcon
      BY <1>1, <1>6, <1>9, <3>1, <3>2 DEF Match
    <3>3. CASE o # newcon
      <4>1. object[o].client # accepted /\ object[o].client \in Clients
        BY <1>2, <3>1, <3>3 DEF ListenerInv, Objs, TypeOK, InUse, Connections
      <4> QED
        BY <1>1, <1>5, <1>9, <3>1, <3>3, <4>1 DEF ListenerInv, Objs
    <3> QED
      BY <3>2, <3>3
  <2>4. \A o, p \in Objects :
            InUse(o)' /\ InUse(p)' /\ object'[o].client = object'[p].client => o = p
    BY <1>7, <1>8 DEF ListenerInv, Objs
  <2>5. ASSUME NEW d \in Clients, thread'[d] \in AtWork
        PROVE  conn'[d] \in Objects /\ InUse(conn[d])' /\ object'[conn'[d]].client = d
    <3>1. CASE d = accepted
      BY <1>2, <1>6, <1>9, <2>5, <3>1 DEF InUse, AtWork
    <3>2. CASE d # accepted
      <4>1. conn[d] \in Objects /\ InUse(conn[d]) /\ object[conn[d]].client = d
        BY <1>9, <2>5, <3>2 DEF ListenerInv, Objs
      <4>2. conn'[d] = conn[d]
        BY <1>9, <3>2
      <4> QED
        BY <1>7, <1>8, <4>1, <4>2 DEF InUse
    <3> QED
      BY <3>1, <3>2
  <2> QED
    BY <1>1, <2>2, <2>3, <2>4, <2>5 DEF Objs, Match
<1>12. Socks'
  <2>1. \A d \in Clients : thread'[d] \in HasSocket <=> thread[d] \in HasSocket
    BY <1>4, <1>9 DEF HasSocket
  <2> QED
    BY <1>1, <1>7, <1>8, <2>1, SocksKept DEF ListenerInv
<1>13. Linked'
  <2>1. Listed' = Listed
    BY <1>1, <1>7 DEF Listed
  <2>2. Linked /\ current' \in Used \cup {Nil}
    BY <1>1 DEF ListenerInv, Linked
  <2> QED
    BY <1>1, <2>1, <2>2, LinkedKept
<1> QED
  BY <1>10, <1>11, <1>12, <1>13 DEF ListenerInv

\* What a collection takes out of the list and frees.
LEMMA Collected ==
    ASSUME TypeOK, ListenerInv, GCDelete, NEW o, o = node[current].ptr
    PROVE  /\ o \in Objects /\ o \in Listed /\ InUse(o) /\ current \in Used
           /\ object[o] \in Connections /\ object[o].state = "stoped"
           /\ thread[object[o].client] \in {"detach", "gone"}
           /\ o # newcon
           /\ object' = [object EXCEPT ![o] = Nil] /\ owner' = owner
<1>1. lpc = "gc" /\ current \in Used
  BY DEF GCDelete, ListenerInv, Linked
<1>2. o \in Listed /\ o \in Objects /\ InUse(o) /\ o # newcon
  BY <1>1 DEF ListenerInv, Linked, Listed
<1>3. object[o] \in Connections /\ object[o].state = "stoped"
  BY <1>2 DEF GCDelete, Collectable, TypeOK, InUse
<1>4. thread[object[o].client] \in {"detach", "gone"}
  BY <1>2, <1>3 DEF ListenerInv, Objs, Match
<1>5. owner' = owner
  BY <1>3 DEF GCDelete, SocketLeftOpen, Closed
<1> QED
  BY <1>1, <1>2, <1>3, <1>4, <1>5 DEF GCDelete

LEMMA DeleteStep ==
    ASSUME TypeOK, ListenerInv, GCDelete
    PROVE  TypeOK' /\ ListenerInv'
<1>1. PICK o : o = node[current].ptr
  OBVIOUS
<1>2. /\ o \in Objects /\ o \in Listed /\ InUse(o) /\ current \in Used
      /\ object[o] \in Connections /\ object[o].state = "stoped"
      /\ thread[object[o].client] \in {"detach", "gone"}
      /\ o # newcon
      /\ object' = [object EXCEPT ![o] = Nil] /\ owner' = owner
  BY <1>1, Collected
<1>3. /\ lpc = "gc" /\ lpc' \in {"gc", "add"} /\ DeleteCurrentItem
      /\ lpc' = "gc" => current' # Nil
      /\ UNCHANGED <<newcon, accepted, thread, conn>>
  BY DEF GCDelete, MoreToCollect, HasCurrent
<1>4. /\ \A p \in Objects : p # o => object'[p] = object[p]
      /\ \A p \in Objects : InUse(p)' <=> InUse(p) /\ p # o
  BY <1>2 DEF TypeOK, InUse
<1>5. PICK w : Chain(w)
  BY DEF ListenerInv, Linked
<1>6. PICK k \in 1 .. count : current = w[k]
  BY <1>2, <1>5 DEF Chain
<1>7. PICK v : v = [i \in 1 .. count - 1 |-> IF i < k THEN w[i] ELSE w[i + 1]]
  OBVIOUS
<1>8. /\ Chain(v)' /\ ListTypeOK'
      /\ Used' = Used \ {current} /\ current' \in Used' \cup {Nil}
      /\ \A n \in Used' : node'[n].ptr = node[n].ptr
  BY <1>3, <1>5, <1>6, <1>7, DeleteChain DEF TypeOK
<1>9. TypeOK'
  BY <1>2, <1>3, <1>8 DEF TypeOK
<1>10. Objs'
  <2>1. \A d \in Clients : d > accepted' => thread'[d] = "none"
    BY <1>3 DEF ListenerInv, Objs
  <2>2. \A p \in Objects : InUse(p)' =>
            /\ object'[p].client <= accepted'
            /\ Match(thread'[object'[p].client], object'[p].state)
    BY <1>3, <1>4 DEF ListenerInv, Objs
  <2>3. \A p, q \in Objects :
            InUse(p)' /\ InUse(q)' /\ object'[p].client = object'[q].client => p = q
    BY <1>4 DEF ListenerInv, Objs
  <2>4. ASSUME NEW d \in Clients, thread'[d] \in AtWork
        PROVE  conn'[d] \in Objects /\ InUse(conn[d])' /\ object'[conn'[d]].client = d
    <3>1. conn[d] \in Objects /\ InUse(conn[d]) /\ object[conn[d]].client = d
      BY <1>3, <2>4 DEF ListenerInv, Objs
    <3>2. conn[d] # o /\ conn'[d] = conn[d]
      BY <1>2, <1>3, <2>4, <3>1 DEF AtWork
    <3> QED
      BY <1>4, <3>1, <3>2 DEF InUse
  <2>5. /\ newcon' \in Objects /\ InUse(newcon)'
        /\ object'[newcon'].client = accepted' /\ object'[newcon'].state = "null"
    BY <1>2, <1>3, <1>4 DEF ListenerInv, Objs, InUse
  <2> QED
    BY <2>1, <2>2, <2>3, <2>4, <2>5 DEF Objs, Match
<1>11. Socks'
  <2>1. ASSUME NEW fd \in Fds, owner'[fd] # Nobody
        PROVE  /\ thread'[owner'[fd]] \in HasSocket
               /\ \E p \in Objects :
                     InUse(p)' /\ object'[p].client = owner'[fd] /\ object'[p].socket = fd
    <3>1. thread[owner[fd]] \in HasSocket
      BY <1>2, <2>1 DEF ListenerInv, Socks
    <3>2. PICK p \in Objects :
            InUse(p) /\ object[p].client = owner[fd] /\ object[p].socket = fd
      BY <1>2, <2>1 DEF ListenerInv, Socks
    <3>3. p # o
      BY <1>2, <3>1, <3>2 DEF HasSocket
    <3> QED
      BY <1>2, <1>3, <1>4, <3>1, <3>2, <3>3
  <2>2. \A p \in Objects :
            InUse(p)' /\ object'[p].socket # NoFd /\ thread'[object'[p].client] \in HasSocket
                => owner'[object'[p].socket] = object'[p].client
    BY <1>2, <1>3, <1>4 DEF ListenerInv, Socks
  <2> QED
    BY <2>1, <2>2 DEF Socks, HasSocket, Nobody, NoFd
<1>12. Listed' = Listed \ {o}
  BY <1>2, <1>3, <1>4 DEF Listed
<1>13. Linked'
  <2>1. Linked
    BY DEF ListenerInv
  <2>2. \A n \in Used' : node'[n].ptr \in Listed'
    BY <1>1, <1>2, <1>8, <1>12, <2>1 DEF Linked
  <2>3. \A p \in Listed' : \E n \in Used' : node'[n].ptr = p
    BY <1>1, <1>8, <1>12, <2>1 DEF Linked
  <2>4. \A m, n \in Used' : node'[m].ptr = node'[n].ptr => m = n
    BY <1>8, <2>1 DEF Linked
  <2> QED
    BY <1>3, <1>8, <2>2, <2>3, <2>4 DEF Linked
<1> QED
  BY <1>9, <1>10, <1>11, <1>13 DEF ListenerInv

LEMMA Stutter ==
    ASSUME TypeOK, ListenerInv, UNCHANGED vars
    PROVE  TypeOK' /\ ListenerInv'
<1>1. /\ UNCHANGED <<first, last, count, node, current>>
      /\ UNCHANGED <<lpc, newcon, accepted, object, thread, conn, owner>>
  BY DEF vars, listVars
<1>2. TypeOK' /\ Objs' /\ Socks'
  BY <1>1 DEF ListenerInv, TypeOK, ListTypeOK, Objs, Socks, InUse
<1>3. Listed' = Listed
  BY <1>1 DEF Listed, InUse
<1>4. Linked'
  <2>1. current' \in Used \cup {Nil} /\ (lpc' = "gc" => current' \in Used)
    BY <1>1 DEF ListenerInv, Linked
  <2> QED
    BY <1>1, <1>3, <2>1, LinkedKept DEF ListenerInv
<1> QED
  BY <1>2, <1>4 DEF ListenerInv

LEMMA ListenerNext == TypeOK /\ ListenerInv /\ [Next]_vars => (TypeOK /\ ListenerInv)'
<1> SUFFICES ASSUME TypeOK, ListenerInv, [Next]_vars
             PROVE  TypeOK' /\ ListenerInv'
  OBVIOUS
<1>1. CASE Accept
  BY <1>1, AcceptStep
<1>2. CASE GCFirst \/ GCNext
  BY <1>2, CursorStep
<1>3. CASE GCDelete
  BY <1>3, DeleteStep
<1>4. CASE Add
  BY <1>4, AddStep
<1>5. CASE Start
  BY <1>5, StartStep
<1>6. ASSUME NEW c \in Clients, Thread(c)
      PROVE  TypeOK' /\ ListenerInv'
  BY <1>6, ThreadStep
<1>7. CASE UNCHANGED vars
  BY <1>7, Stutter
<1> QED
  BY <1>1, <1>2, <1>3, <1>4, <1>5, <1>6, <1>7 DEF Next, Listener

LEMMA ListenerAlways == Spec => [](TypeOK /\ ListenerInv)
  BY ListenerInit, ListenerNext, PTL DEF Spec

-----------------------------------------------------------------------------
(* What the listener promises.                                              *)

\* Every variable of the listener, of its list and of the threads has a value of
\* its type, whatever is freed and handed out again.
THEOREM TypeCorrect == Spec => []TypeOK
  BY ListenerAlways, PTL

\* The list is one chain of the nodes in use, linked the same way in both
\* directions (CCConList::AddItem, DeleteCurrentItem).
THEOREM ListStaysLinked == Spec => []WellLinked
<1>1. TypeOK /\ ListenerInv => WellLinked
  BY ChainLinks DEF TypeOK, ListenerInv, Linked
<1> QED
  BY <1>1, ListenerAlways, PTL

\* The collection frees no connection whose thread is still at work
\* (TCPListener::GC, CCThread::MainThreadProc).
THEOREM NoUseAfterCollection == Spec => []ObjectsInUseExist
<1>1. TypeOK /\ ListenerInv => ObjectsInUseExist
  BY DEF ListenerInv, Objs, InUse, ObjectsInUseExist
<1> QED
  BY <1>1, ListenerAlways, PTL

\* A thread that has stopped has closed its socket (Worker, ReadLine).
THEOREM StoppedThreadsClosed == Spec => []NoSocketLeaks
<1>1. TypeOK /\ ListenerInv => NoSocketLeaks
  BY DEF ListenerInv, Socks, HasSocket, NoSocketLeaks
<1> QED
  BY <1>1, ListenerAlways, PTL

\* A descriptor is closed by nobody but the thread it was accepted for, though
\* its number is handed out again at once (TCPConnection).
THEOREM OnlyOwnersClose == Spec => OnlyOwnerCloses
<1>1. ASSUME TypeOK, ListenerInv, [Next]_vars, NEW fd \in Fds,
             owner[fd] # Nobody, owner'[fd] # owner[fd]
      PROVE  owner'[fd] = Nobody /\ thread'[owner[fd]] # thread[owner[fd]]
  <2>1. CASE Accept
    BY <1>1, <2>1 DEF Accept, TypeOK
  <2>2. CASE GCDelete
    BY <1>1, <2>2, Collected
  <2>3. ASSUME NEW c \in Clients, HangUp(c) \/ Catch(c)
        PROVE  owner'[fd] = Nobody /\ thread'[owner[fd]] # thread[owner[fd]]
    <3>1. /\ thread[c] \in {"work", "catch"}
          /\ owner' = Closed(object[conn[c]].socket)
      BY <2>3 DEF HangUp, Catch, SocketToClose
    <3>2. owner[fd] = c /\ owner'[fd] = Nobody
      BY <1>1, <3>1, ClosesOwn DEF ListenerInv
    <3>3. thread'[c] # thread[c]
      <4>1. CASE HangUp(c)
        BY <4>1, <1>1, GotoIs DEF HangUp, AtWork
      <4>2. CASE Catch(c)
        BY <4>2, <1>1, GotoIs DEF Catch, AtWork
      <4> QED
        BY <2>3, <4>1, <4>2
    <3> QED
      BY <3>2, <3>3
  <2>4. CASE owner' = owner
    BY <1>1, <2>4
  <2>5. GCFirst \/ GCNext \/ Add \/ Start \/ UNCHANGED vars => owner' = owner
    BY DEF GCFirst, GCNext, Add, Start, vars
  <2>6. \A c \in Clients : Begin(c) \/ Leave(c) \/ Stopped(c) \/ Detach(c) => owner' = owner
    BY DEF Begin, Leave, Stopped, Detach
  <2> QED
    BY <1>1, <2>1, <2>2, <2>3, <2>4, <2>5, <2>6 DEF Next, Listener, Thread
<1>2. TypeOK /\ ListenerInv /\ [Next]_vars =>
        [\A fd \in Fds : owner[fd] # Nobody /\ owner'[fd] # owner[fd] =>
            owner'[fd] = Nobody /\ thread'[owner[fd]] # thread[owner[fd]]]_vars
  BY <1>1
<1> QED
  BY <1>2, ListenerAlways, PTL DEF Spec, OnlyOwnerCloses

-----------------------------------------------------------------------------
(* The registry.  The list is a sequence of clients by its chain.           *)

Client(w, i) == object[node[w[i]].ptr].client

LiveFits ==
    \A w : Chain(w) => /\ w \in [1 .. count -> Used]
                       /\ Live = [i \in 1 .. count |-> Client(w, i)]
                       /\ \A i \in 1 .. count :
                             /\ Client(w, i) \in Clients
                             /\ node[w[i]].ptr \in Listed

LEMMA LiveIs == TypeOK /\ ListenerInv => LiveFits
<1> SUFFICES ASSUME TypeOK, ListenerInv, NEW w, Chain(w)
             PROVE  /\ w \in [1 .. count -> Used]
                    /\ Live = [i \in 1 .. count |-> Client(w, i)]
                    /\ \A i \in 1 .. count :
                          Client(w, i) \in Clients /\ node[w[i]].ptr \in Listed
  BY DEF LiveFits
<1>1. w \in [1 .. count -> Used] /\ \A i \in 1 .. count : w[i] \in Used
  BY DEF Chain
<1>2. Content = [i \in 1 .. count |-> node[w[i]].ptr]
  BY ChainLinks DEF TypeOK, ListenerInv, Linked
<1>3. Live = [i \in 1 .. count |-> Client(w, i)]
  BY <1>2 DEF Live, Client
<1>4. \A i \in 1 .. count : node[w[i]].ptr \in Listed
  BY <1>1 DEF ListenerInv, Linked
<1>5. \A o \in Listed : object[o].client \in Clients
  BY DEF Listed, InUse, TypeOK, Connections
<1> QED
  BY <1>1, <1>3, <1>4, <1>5 DEF Client

LEMMA LiveIsNext == (TypeOK /\ ListenerInv)' => LiveFits'
  BY LiveIs, PTL

\* A step that changes neither what is in the list nor who has finished.
LEMMA LiveKept ==
    ASSUME TypeOK, ListenerInv, (TypeOK /\ ListenerInv)',
           UNCHANGED <<first, last, count, node>>,
           \A o \in Listed : object'[o].client = object[o].client
    PROVE  Live' = Live
<1>1. PICK w : Chain(w)
  BY DEF ListenerInv, Linked
<1>2. Used' = Used
  BY DEF Used
<1>3. Chain(w)'
  BY <1>1, <1>2 DEF Chain
<1>4. /\ Live = [i \in 1 .. count |-> Client(w, i)]
      /\ \A i \in 1 .. count : node[w[i]].ptr \in Listed
  BY <1>1, LiveIs DEF LiveFits
<1>5. Live' = [i \in 1 .. count |-> Client(w, i)']
  BY <1>3, LiveIsNext DEF LiveFits
<1>6. \A i \in 1 .. count : Client(w, i)' = Client(w, i)
  BY <1>4 DEF Client
<1> QED
  BY <1>4, <1>5, <1>6

LEMMA AddSimulates ==
    ASSUME TypeOK, ListenerInv, (TypeOK /\ ListenerInv)', Add
    PROVE  Registry!Add(accepted)
<1>1. /\ lpc = "add" /\ lpc' = "start" /\ AddItem(newcon) /\ newcon \in Items
      /\ UNCHANGED <<newcon, accepted, object, thread, conn, owner>>
      /\ InUse(newcon) /\ object[newcon].client = accepted /\ thread[accepted] = "none"
  BY DEF Add, ListenerInv, Objs, Match, Objects
<1>2. PICK w : Chain(w)
  BY DEF ListenerInv, Linked
<1>3. PICK n, v : n = current' /\ v = [i \in 1 .. count + 1 |-> IF i = count + 1 THEN n ELSE w[i]]
  OBVIOUS
<1>4. /\ Chain(v)' /\ n \notin Used /\ count' = count + 1
      /\ node'[n].ptr = newcon
      /\ \A m \in Used : node'[m].ptr = node[m].ptr
  BY <1>1, <1>2, <1>3, AddChain DEF TypeOK
<1>5. /\ w \in [1 .. count -> Used]
      /\ Live = [i \in 1 .. count |-> Client(w, i)]
      /\ \A i \in 1 .. count : Client(w, i) \in Clients /\ node[w[i]].ptr \in Listed
  BY <1>2, LiveIs DEF LiveFits
<1>6. Live' = [i \in 1 .. count + 1 |-> Client(v, i)']
  BY <1>4, LiveIsNext DEF LiveFits
<1>7. count \in Nat /\ Live \in Seq(Clients) /\ Len(Live) = count
  BY <1>5 DEF TypeOK, ListTypeOK
<1>8. Live' = Append(Live, accepted)
  <2>1. \A i \in 1 .. count + 1 : i = count + 1 => Client(v, i)' = accepted
    BY <1>1, <1>3, <1>4, <1>7 DEF Client
  <2>2. \A i \in 1 .. count : Client(v, i)' = Client(w, i)
    BY <1>1, <1>3, <1>4, <1>5, <1>7 DEF Client
  <2> QED
    BY <1>5, <1>6, <1>7, <2>1, <2>2
<1>9. \A i \in 1 .. count : Live[i] # accepted
  <2>1. newcon \notin Listed /\ \A o \in Listed : o \in Objects /\ InUse(o)
    BY <1>1 DEF Listed
  <2>2. \A o \in Listed : object[o].client # accepted
    BY <1>1, <2>1 DEF ListenerInv, Objs, Objects
  <2> QED
    BY <1>5, <2>2 DEF Client
<1>10. accepted \notin Finished /\ Finished' = Finished
  BY <1>1 DEF Finished
<1> QED
  BY <1>7, <1>8, <1>9, <1>10 DEF Registry!Add, Registry!ToSet

\* What RemoveAt takes out.
LEMMA RemoveAtIs ==
    ASSUME NEW S, NEW s \in Seq(S), NEW k \in 1 .. Len(s)
    PROVE  /\ Registry!RemoveAt(s, k) \in Seq(S)
           /\ Registry!RemoveAt(s, k) =
                [i \in 1 .. Len(s) - 1 |-> IF i < k THEN s[i] ELSE s[i + 1]]
<1> DEFINE a == SubSeq(s, 1, k - 1)
           b == SubSeq(s, k + 1, Len(s))
           r == [i \in 1 .. Len(s) - 1 |-> IF i < k THEN s[i] ELSE s[i + 1]]
<1>1. \A i \in 1 .. Len(s) : s[i] \in S
  OBVIOUS
<1>2. /\ a \in Seq(S) /\ Len(a) = k - 1
      /\ \A i \in 1 .. k - 1 : a[i] = s[i]
  <2>1. 1 \in Int /\ k - 1 \in Int /\ \A i \in 1 .. k - 1 : s[i] \in S
    BY <1>1
  <2>2. /\ a \in Seq(S) /\ Len(a) = IF 1 <= k - 1 THEN k - 1 - 1 + 1 ELSE 0
        /\ \A i \in 1 .. k - 1 - 1 + 1 : a[i] = s[1 + i - 1]
    BY <2>1, SubSeqProperties
  <2> QED
    BY <2>2
<1>3. /\ b \in Seq(S) /\ Len(b) = Len(s) - k
      /\ \A i \in 1 .. Len(s) - k : b[i] = s[k + i]
  <2>1. k + 1 \in Int /\ Len(s) \in Int /\ \A i \in k + 1 .. Len(s) : s[i] \in S
    BY <1>1
  <2>2. /\ b \in Seq(S) /\ Len(b) = IF k + 1 <= Len(s) THEN Len(s) - (k + 1) + 1 ELSE 0
        /\ \A i \in 1 .. Len(s) - (k + 1) + 1 : b[i] = s[(k + 1) + i - 1]
    BY <2>1, SubSeqProperties
  <2> QED
    BY <2>2
<1>4. Registry!RemoveAt(s, k) = a \o b
  BY DEF Registry!RemoveAt
<1> HIDE DEF a, b
<1>5. /\ a \o b \in Seq(S) /\ Len(a \o b) = Len(a) + Len(b)
      /\ \A i \in 1 .. Len(a) + Len(b) :
            (a \o b)[i] = IF i <= Len(a) THEN a[i] ELSE b[i - Len(a)]
  BY <1>2, <1>3, ConcatProperties
<1>6. ASSUME NEW i \in 1 .. Len(s) - 1
      PROVE  (a \o b)[i] = IF i < k THEN s[i] ELSE s[i + 1]
  <2>1. Len(a) + Len(b) = Len(s) - 1 /\ i \in 1 .. Len(a) + Len(b)
    BY <1>2, <1>3
  <2>2. (a \o b)[i] = IF i <= k - 1 THEN a[i] ELSE b[i - (k - 1)]
    BY <1>2, <1>5, <2>1
  <2>3. CASE i < k
    BY <1>2, <2>2, <2>3
  <2>4. CASE i >= k
    <3>1. i - (k - 1) \in 1 .. Len(s) - k /\ k + (i - (k - 1)) = i + 1
      BY <2>4
    <3>2. b[i - (k - 1)] = s[i + 1]
      BY <1>3, <3>1
    <3> QED
      BY <2>2, <2>4, <3>2
  <2>5. i \in Int /\ k \in Int
    OBVIOUS
  <2>6. i < k \/ i >= k
    BY <2>5
  <2> QED
    BY <2>3, <2>4, <2>6, Zenon
<1>7. r \in Seq(S) /\ Len(r) = Len(s) - 1
  BY <1>1
<1>8. a \o b = r
  <2>1. Len(a \o b) = Len(s) - 1
    BY <1>2, <1>3, <1>5
  <2>2. \A i \in 1 .. Len(a \o b) : (a \o b)[i] = r[i]
    BY <1>6, <2>1
  <2>3. Len(a \o b) = Len(r)
    BY <1>7, <2>1
  <2> HIDE DEF r
  <2> QED
    BY <1>5, <1>7, <2>2, <2>3, SeqEqual
<1> QED
  BY <1>4, <1>7, <1>8

LEMMA DropSimulates ==
    ASSUME TypeOK, ListenerInv, (TypeOK /\ ListenerInv)', GCDelete
    PROVE  \E k \in DOMAIN Live : Registry!Drop(k)
<1>1. PICK o : o = node[current].ptr
  OBVIOUS
<1>2. /\ o \in Objects /\ current \in Used /\ object[o] \in Connections
      /\ thread[object[o].client] \in {"detach", "gone"}
      /\ object' = [object EXCEPT ![o] = Nil]
      /\ DeleteCurrentItem /\ UNCHANGED thread
  BY <1>1, Collected DEF GCDelete
<1>3. PICK w : Chain(w)
  BY DEF ListenerInv, Linked
<1>4. PICK k \in 1 .. count : current = w[k]
  BY <1>2, <1>3 DEF Chain
<1>5. PICK v : v = [i \in 1 .. count - 1 |-> IF i < k THEN w[i] ELSE w[i + 1]]
  OBVIOUS
<1>6. /\ Chain(v)' /\ count' = count - 1 /\ Used' = Used \ {current}
      /\ \A n \in Used' : node'[n].ptr = node[n].ptr
  BY <1>2, <1>3, <1>4, <1>5, DeleteChain DEF TypeOK
<1>7. /\ w \in [1 .. count -> Used]
      /\ Live = [i \in 1 .. count |-> Client(w, i)]
      /\ \A i \in 1 .. count : Client(w, i) \in Clients /\ node[w[i]].ptr \in Listed
  BY <1>3, LiveIs DEF LiveFits
<1>8. Live' = [i \in 1 .. count - 1 |-> Client(v, i)'] /\ v \in [1 .. count - 1 -> Used']
  BY <1>6, LiveIsNext DEF LiveFits
<1>9. count \in Nat /\ Live \in Seq(Clients) /\ Len(Live) = count
  BY <1>7 DEF TypeOK, ListTypeOK
<1>10. ASSUME NEW i \in 1 .. count - 1
       PROVE  Client(v, i)' = IF i < k THEN Client(w, i) ELSE Client(w, i + 1)
  <2>1. v[i] \in Used' /\ v[i] = IF i < k THEN w[i] ELSE w[i + 1]
    BY <1>5, <1>8
  <2>2. v[i] \in Used /\ v[i] # current /\ node'[v[i]].ptr = node[v[i]].ptr
    BY <1>6, <2>1
  <2>3. node[v[i]].ptr \in Objects /\ node[v[i]].ptr # o
    BY <1>1, <1>2, <2>2 DEF ListenerInv, Linked, Listed
  <2>4. object'[node[v[i]].ptr] = object[node[v[i]].ptr]
    BY <1>2, <2>3 DEF TypeOK
  <2> QED
    BY <2>1, <2>2, <2>4 DEF Client
<1>11. Live' = Registry!RemoveAt(Live, k)
  <2>1. k \in 1 .. Len(Live)
    BY <1>9
  <2>2. Registry!RemoveAt(Live, k) =
          [i \in 1 .. Len(Live) - 1 |-> IF i < k THEN Live[i] ELSE Live[i + 1]]
    BY <1>9, <2>1, RemoveAtIs
  <2>3. \A i \in 1 .. count - 1 :
            Client(v, i)' = IF i < k THEN Live[i] ELSE Live[i + 1]
    <3>1. ASSUME NEW i \in 1 .. count - 1
          PROVE  Client(v, i)' = IF i < k THEN Live[i] ELSE Live[i + 1]
      <4>1. i \in 1 .. count /\ i + 1 \in 1 .. count
        BY <1>9
      <4>2. Live[i] = Client(w, i) /\ Live[i + 1] = Client(w, i + 1)
        BY <1>7, <4>1
      <4> QED
        BY <1>10, <4>2
    <3> QED
      BY <3>1
  <2> QED
    BY <1>8, <1>9, <2>2, <2>3
<1>12. Live[k] = object[o].client /\ Live[k] \in Clients
  BY <1>1, <1>4, <1>7 DEF Client
<1>13. Live[k] \in Finished /\ Finished' = Finished
  BY <1>2, <1>12 DEF Finished
<1>14. k \in DOMAIN Live
  BY <1>7
<1> QED
  BY <1>11, <1>13, <1>14 DEF Registry!Drop

LEMMA FinishSimulates ==
    ASSUME TypeOK, ListenerInv, (TypeOK /\ ListenerInv)', NEW c \in Clients, Stopped(c)
    PROVE  Registry!Finish(c)
<1>1. /\ thread[c] \in AtWork /\ SetState(c, "stoped") /\ ThreadGoto(c, "detach")
      /\ UNCHANGED <<first, last, count, node>>
  BY DEF Stopped, AtWork, listVars
<1>2. /\ conn[c] \in Objects /\ InUse(conn[c]) /\ object[conn[c]].client = c
      /\ lpc # "accept" => newcon # conn[c]
  BY <1>1, Own DEF ListenerInv
<1>3. conn[c] \in Listed
  BY <1>2 DEF Listed
<1>4. PICK w : Chain(w)
  BY DEF ListenerInv, Linked
<1>5. PICK n \in Used : node[n].ptr = conn[c]
  BY <1>3 DEF ListenerInv, Linked
<1>6. PICK i \in 1 .. count : w[i] = n
  BY <1>4, <1>5 DEF Chain
<1>7. c \in Registry!ToSet(Live)
  <2>1. Live = [j \in 1 .. count |-> Client(w, j)]
    BY <1>4, LiveIs DEF LiveFits
  <2>2. i \in DOMAIN Live /\ Live[i] = c
    BY <1>2, <1>5, <1>6, <2>1 DEF Client
  <2> QED
    BY <2>2 DEF Registry!ToSet
<1>8. Live' = Live
  <2>1. object'[conn[c]].client = c /\ \A o \in Objects : o # conn[c] => object'[o] = object[o]
    BY <1>1, SetStateIs DEF ListenerInv, States
  <2>2. \A o \in Listed : object'[o].client = object[o].client
    BY <1>2, <2>1 DEF Listed
  <2> QED
    BY <1>1, <2>2, LiveKept
<1>9. Finished' = Finished \cup {c}
  BY <1>1, GotoIs DEF Finished
<1> QED
  BY <1>7, <1>8, <1>9 DEF Registry!Finish

\* What the registry does not see: the chain, the clients of the listed
\* connections and the threads that have finished are left alone.
Quiet ==
    /\ UNCHANGED <<first, last, count, node>>
    /\ \A o \in Listed : object'[o].client = object[o].client
    /\ Finished' = Finished

LEMMA ListenerQuiet ==
    ASSUME TypeOK, ListenerInv, Accept \/ GCFirst \/ GCNext \/ Start
    PROVE  Quiet
<1>1. CASE Accept
  <2>1. /\ UNCHANGED <<first, last, count, node, thread>>
        /\ \E o \in Objects : object[o] = Nil
        /\ newcon' = NewOf({o \in Objects : object[o] = Nil})
        /\ \E fd \in Fds :
              object' = [object EXCEPT ![newcon'] =
                  [state |-> "null", socket |-> fd, client |-> accepted']]
    BY <1>1 DEF Accept, listVars
  <2>2. newcon' \in Objects /\ object[newcon'] = Nil
    BY <2>1 DEF NewOf
  <2>3. newcon' \notin Listed
    BY <2>2 DEF Listed, InUse
  <2>4. \A o \in Listed : object'[o] = object[o]
    BY <2>1, <2>3 DEF TypeOK, Listed
  <2> QED
    BY <2>1, <2>4 DEF Quiet, Finished
<1>2. CASE GCFirst
  BY <1>2 DEF GCFirst, ToFirst, listVars, Quiet, Finished
<1>3. CASE GCNext
  BY <1>3 DEF GCNext, ToNext, listVars, Quiet, Finished
<1>4. CASE Start
  <2>1. /\ UNCHANGED <<first, last, count, node>>
        /\ object' = [object EXCEPT ![newcon].state = "starting"]
        /\ \/ thread' = [thread EXCEPT ![accepted] = "begin"]
           \/ UNCHANGED thread
    BY <1>4 DEF Start, listVars
  <2>2. newcon \in Objects /\ thread[accepted] = "none" /\ object[newcon] \in Connections
    BY <1>4 DEF Start, ListenerInv, Objs, Match, InUse, TypeOK
  <2>3. \A o \in Listed : object'[o].client = object[o].client
    <3>1. \A o \in Objects : o # newcon => object'[o] = object[o]
      BY <2>1 DEF TypeOK
    <3>2. object'[newcon] = [object[newcon] EXCEPT !.state = "starting"]
      BY <2>1, <2>2 DEF TypeOK
    <3>3. object'[newcon].client = object[newcon].client
      BY <2>2, <3>2 DEF Connections
    <3> QED
      BY <3>1, <3>3 DEF Listed
  <2>4. Finished' = Finished
    BY <2>1, <2>2 DEF Finished, TypeOK
  <2> QED
    BY <2>1, <2>3, <2>4 DEF Quiet
<1> QED
  BY <1>1, <1>2, <1>3, <1>4

LEMMA ThreadQuiet ==
    ASSUME TypeOK, ListenerInv, NEW c \in Clients,
           Begin(c) \/ HangUp(c) \/ Leave(c) \/ Catch(c) \/ Detach(c)
    PROVE  Quiet
<1>1. UNCHANGED <<first, last, count, node>>
  BY DEF Begin, HangUp, Leave, Catch, Detach, listVars
<1>2. \A o \in Listed : object'[o].client = object[o].client
  <2>1. CASE Begin(c)
    <3>1. thread[c] \in AtWork /\ SetState(c, "running")
      BY <2>1 DEF Begin, AtWork
    <3>2. \A o \in Objects : o # conn[c] => object'[o] = object[o]
      BY <3>1, SetStateIs DEF ListenerInv, States
    <3>3. object'[conn[c]].client = object[conn[c]].client
      <4>1. conn[c] \in Objects /\ object[conn[c]] \in Connections
        BY <3>1, Own DEF ListenerInv
      <4>2. object'[conn[c]] = [object[conn[c]] EXCEPT !.state = "running"]
        BY <3>1, <4>1 DEF SetState, TypeOK
      <4> QED
        BY <4>1, <4>2 DEF Connections
    <3> QED
      BY <3>2, <3>3 DEF Listed
  <2>2. CASE HangUp(c)
    <3>1. thread[c] \in AtWork /\ object' = [object EXCEPT ![conn[c]].socket = NoFd]
      BY <2>2 DEF HangUp, AtWork
    <3>2. conn[c] \in Objects /\ object[conn[c]] \in Connections
      BY <3>1, Own DEF ListenerInv
    <3> QED
      BY <3>1, <3>2 DEF TypeOK, Listed, Connections
  <2>3. CASE Leave(c) \/ Catch(c) \/ Detach(c)
    BY <2>3 DEF Leave, Catch, Detach
  <2> QED
    BY <2>1, <2>2, <2>3
<1>3. Finished' = Finished
  <2>1. CASE Begin(c)
    BY <2>1 DEF Begin, ThreadGoto, TypeOK, Finished
  <2>2. CASE HangUp(c)
    BY <2>2 DEF HangUp, ThreadGoto, TypeOK, Finished
  <2>3. CASE Leave(c)
    BY <2>3 DEF Leave, ThreadGoto, TypeOK, Finished
  <2>4. CASE Catch(c)
    BY <2>4 DEF Catch, ThreadGoto, TypeOK, Finished
  <2>5. CASE Detach(c)
    BY <2>5 DEF Detach, ThreadGoto, TypeOK, Finished
  <2> QED
    BY <2>1, <2>2, <2>3, <2>4, <2>5
<1> QED
  BY <1>1, <1>2, <1>3 DEF Quiet

LEMMA StepSimulates ==
    TypeOK /\ ListenerInv /\ (TypeOK /\ ListenerInv)' /\ [Next]_vars
        => [Registry!Next]_<<Live, Finished>>
<1> SUFFICES ASSUME TypeOK, ListenerInv, (TypeOK /\ ListenerInv)', [Next]_vars
             PROVE  [Registry!Next]_<<Live, Finished>>
  OBVIOUS
<1>1. ASSUME Quiet
      PROVE  UNCHANGED <<Live, Finished>>
  BY <1>1, LiveKept DEF Quiet
<1>2. CASE Accept \/ GCFirst \/ GCNext \/ Start
  BY <1>1, <1>2, ListenerQuiet
<1>3. CASE GCDelete
  BY <1>3, DropSimulates DEF Registry!Next
<1>4. CASE Add
  <2>1. accepted \in Clients
    BY <1>4 DEF Add, ListenerInv, Objs, TypeOK, InUse, Connections
  <2> QED
    BY <1>4, <2>1, AddSimulates DEF Registry!Next
<1>5. ASSUME NEW c \in Clients, Thread(c)
      PROVE  [Registry!Next]_<<Live, Finished>>
  <2>1. CASE Stopped(c)
    BY <2>1, FinishSimulates DEF Registry!Next
  <2>2. CASE Begin(c) \/ HangUp(c) \/ Leave(c) \/ Catch(c) \/ Detach(c)
    BY <1>1, <2>2, ThreadQuiet
  <2> QED
    BY <1>5, <2>1, <2>2 DEF Thread
<1>6. CASE UNCHANGED vars
  <2>1. UNCHANGED <<first, last, count, node, object, thread>>
    BY <1>6 DEF vars, listVars
  <2>2. Quiet
    BY <2>1 DEF Quiet, Finished
  <2> QED
    BY <1>1, <2>2
<1> QED
  BY <1>2, <1>3, <1>4, <1>5, <1>6 DEF Next, Listener

LEMMA InitSimulates == Init => Registry!Init
<1> SUFFICES ASSUME Init
             PROVE  Live = <<>> /\ Finished = {}
  BY DEF Registry!Init
<1>1. count = 0 /\ \A c \in Clients : thread[c] = "none"
  BY DEF Init, ListInit
<1> QED
  BY <1>1 DEF Live, Finished

\* The list with its cursor and its collection implements the registry: the
\* connections stay in the order they were accepted, each once, and only one
\* whose thread has stopped is dropped (TCPListener::GC, CCConList).
THEOREM ListenerKeepsRegistry == Spec => ImplementsRegistry
  BY InitSimulates, StepSimulates, ListenerAlways, PTL
     DEF Spec, ImplementsRegistry, Registry!Spec

=============================================================================
