---------------------------- MODULE ConnListener ----------------------------
(***************************************************************************)
(* The connections of one port of the debug server: the listener thread    *)
(* (TCPListener::Worker) accepts clients, collects the connections whose   *)
(* threads have stopped (GC), and starts a thread for each new one; the    *)
(* threads (CCThread::MainThreadProc, the Workers) close their sockets and *)
(* stop whenever they like.  Objects and file descriptors that are freed   *)
(* are handed out again, so a step that comes too late touches those of    *)
(* another connection.                                                     *)
(***************************************************************************)
EXTENDS ConnList, FiniteSets

CONSTANTS
    Fds,       \* file descriptors for sockets of clients
    MaxClients \* bound on the clients that are accepted

Objects == Items \* addresses of TCPConnection objects
Clients == 1 .. MaxClients
NoFd    == 0     \* -1, a closed socket
Nobody  == 0

States == {"null", "starting", "running", "stoped"}
AtWork == {"begin", "work", "catch", "stop"}

\* what a TCPConnection holds
Connections == [state : States, socket : Fds \cup {NoFd}, client : Clients]

ASSUME FdsAssumption == Fds \subseteq Nat \ {0} /\ MaxClients \in Nat
ASSUME ObjectAssumption == Nil \notin Connections

VARIABLES
    lpc,      \* where the listener is in Worker and GC
    newcon,   \* newcon of Worker
    accepted, \* clients so far; the n-th has the thread n
    object,   \* [state, socket, client] of every object, Nil of a free one
    thread,   \* where the thread of every client is
    conn,     \* this of every thread
    owner     \* whom an open descriptor belongs to, Nobody if it is closed

vars == <<listVars, lpc, newcon, accepted, object, thread, conn, owner>>

TypeOK ==
    /\ ListTypeOK
    /\ lpc \in {"accept", "gc_first", "gc", "add", "start"}
    /\ newcon \in Objects \cup {Nil}
    /\ accepted \in 0 .. MaxClients
    /\ object \in [Objects -> Connections \cup {Nil}]
    /\ thread \in [Clients -> AtWork \cup {"none", "detach", "gone"}]
    /\ conn \in [Clients -> Objects \cup {Nil}]
    /\ owner \in [Fds -> Clients \cup {Nobody}]

Init ==
    /\ ListInit
    /\ lpc = "accept"
    /\ newcon = Nil
    /\ accepted = 0
    /\ object = [o \in Objects |-> Nil]
    /\ thread = [c \in Clients |-> "none"]
    /\ conn = [c \in Clients |-> Nil]
    /\ owner = [fd \in Fds |-> Nobody]

\* variant: -1 is taken for a descriptor
ClosedUnchecked(fd) == [f \in Fds \cup {fd} |-> IF f = fd THEN Nobody ELSE owner[f]]

\* close( fd ), which does nothing for -1
Closed(fd) == IF fd = NoFd THEN owner ELSE [owner EXCEPT ![fd] = Nobody]

-----------------------------------------------------------------------------
(* The listener.                                                            *)

\* accept, which gives the lowest free descriptor; new TCPCONNECTION(newSd)
Accept ==
    /\ lpc = "accept"
    /\ accepted < MaxClients
    /\ accepted' = accepted + 1
    /\ \E o \in Objects : object[o] = Nil
    /\ newcon' = NewOf({o \in Objects : object[o] = Nil})
    /\ \E fd \in Fds :
          /\ owner[fd] = Nobody
          /\ \A f \in Fds : f < fd => owner[f] # Nobody
          /\ owner' = [owner EXCEPT ![fd] = accepted']
          /\ object' = [object EXCEPT ![newcon'] =
                [state |-> "null", socket |-> fd, client |-> accepted']]
    /\ lpc' = "gc_first"
    /\ UNCHANGED <<listVars, thread, conn>>

GCFirst ==
    /\ lpc = "gc_first"
    /\ \/ HasFirst /\ ToFirst /\ lpc' = "gc"
       \/ ~HasFirst /\ lpc' = "add" /\ UNCHANGED listVars
    /\ UNCHANGED <<newcon, accepted, object, thread, conn, owner>>

\* variant: what is not running is collected
Idle(o) == object[o].state # "running"

\* conn->m_ThreadState == ThreadStoped
Collectable(o) == object[o].state = "stoped"

\* variant: the destructor closes the socket whatever the state
AnySocket(o) == object[o].socket

\* the descriptor ~TCPConnection closes
SocketLeftOpen(o) == IF object[o].state = "running" THEN object[o].socket ELSE NoFd

\* variant: one object per collection
OneAtATime == FALSE

\* GetCurrentItem after DeleteCurrentItem, which moved the cursor
MoreToCollect == HasCurrent'

GCDelete ==
    /\ lpc = "gc"
    /\ Collectable(node[current].ptr)
    /\ owner' = Closed(SocketLeftOpen(node[current].ptr))
    /\ object' = [object EXCEPT ![node[current].ptr] = Nil]
    /\ DeleteCurrentItem
    /\ lpc' = IF MoreToCollect THEN "gc" ELSE "add"
    /\ UNCHANGED <<newcon, accepted, thread, conn>>

GCNext ==
    /\ lpc = "gc"
    /\ ~Collectable(node[current].ptr)
    /\ \/ HasNext /\ ToNext /\ UNCHANGED lpc
       \/ ~HasNext /\ lpc' = "add" /\ UNCHANGED listVars
    /\ UNCHANGED <<newcon, accepted, object, thread, conn, owner>>

Add ==
    /\ lpc = "add"
    /\ AddItem(newcon)
    /\ lpc' = "start"
    /\ UNCHANGED <<newcon, accepted, object, thread, conn, owner>>

\* Start: the result of pthread_create is not looked at
Start ==
    /\ lpc = "start"
    /\ object' = [object EXCEPT ![newcon].state = "starting"]
    /\ \/ /\ thread' = [thread EXCEPT ![accepted] = "begin"]
          /\ conn' = [conn EXCEPT ![accepted] = newcon]
       \/ UNCHANGED <<thread, conn>>
    /\ newcon' = Nil
    /\ lpc' = "accept"
    /\ UNCHANGED <<listVars, accepted, owner>>

Listener == Accept \/ GCFirst \/ GCDelete \/ GCNext \/ Add \/ Start

-----------------------------------------------------------------------------
(* The threads.                                                             *)

ThreadGoto(c, step) == thread' = [thread EXCEPT ![c] = step]

SetState(c, state) == object' = [object EXCEPT ![conn[c]].state = state]

Begin(c) ==
    /\ thread[c] = "begin"
    /\ SetState(c, "running")
    /\ ThreadGoto(c, "work")
    /\ UNCHANGED <<listVars, lpc, newcon, accepted, conn, owner>>

\* The client hangs up: ReadLine and readByte close the socket, set m_Socket to
\* -1 and throw.
HangUp(c) ==
    /\ thread[c] = "work"
    /\ owner' = Closed(object[conn[c]].socket)
    /\ object' = [object EXCEPT ![conn[c]].socket = NoFd]
    /\ ThreadGoto(c, "catch")
    /\ UNCHANGED <<listVars, lpc, newcon, accepted, conn>>

\* a handler throws, select or recv fails, or the client says "exit"
Leave(c) ==
    /\ thread[c] = "work"
    /\ ThreadGoto(c, "catch")
    /\ UNCHANGED <<listVars, lpc, newcon, accepted, object, conn, owner>>

\* variant: the socket is left open
NoClose(o) == NoFd

\* the descriptor the Workers close when they leave
SocketToClose(o) == object[o].socket

\* close( m_Socket ), which keeps m_Socket
Catch(c) ==
    /\ thread[c] = "catch"
    /\ owner' = Closed(SocketToClose(conn[c]))
    /\ ThreadGoto(c, "stop")
    /\ UNCHANGED <<listVars, lpc, newcon, accepted, object, conn>>

Stopped(c) ==
    /\ thread[c] = "stop"
    /\ SetState(c, "stoped")
    /\ ThreadGoto(c, "detach")
    /\ UNCHANGED <<listVars, lpc, newcon, accepted, conn, owner>>

\* pthread_detach( mp_Thread ), pthread_exit: by now the object may be gone
Detach(c) ==
    /\ thread[c] = "detach"
    /\ ThreadGoto(c, "gone")
    /\ UNCHANGED <<listVars, lpc, newcon, accepted, object, conn, owner>>

Thread(c) == Begin(c) \/ HangUp(c) \/ Leave(c) \/ Catch(c) \/ Stopped(c) \/ Detach(c)

-----------------------------------------------------------------------------
Next == Listener \/ \E c \in Clients : Thread(c)

Spec == Init /\ [][Next]_vars

(* The listener and the threads run; nothing makes a client hang up, or     *)
(* another one connect.                                                     *)
Fairness ==
    /\ WF_vars(GCFirst \/ GCDelete \/ GCNext \/ Add \/ Start)
    /\ \A c \in Clients : WF_vars(Begin(c) \/ Catch(c) \/ Stopped(c) \/ Detach(c))

FairSpec == Spec /\ Fairness

-----------------------------------------------------------------------------
(* Properties                                                               *)

\* A thread that has not yet reported that it stopped still has its object,
\* and the object is its own: the collection never frees one that is in use
\* (GC, MainThreadProc).
ObjectsInUseExist ==
    \A c \in Clients : thread[c] \in AtWork =>
        object[conn[c]] # Nil /\ object[conn[c]].client = c

\* A descriptor is closed by nobody but the thread it was accepted for, though
\* ReadLine, the Workers and the destructor all close it and its number is
\* used again at once (TCPConnection).
OnlyOwnerCloses ==
    [][\A fd \in Fds : owner[fd] # Nobody /\ owner'[fd] # owner[fd] =>
          owner'[fd] = Nobody /\ thread'[owner[fd]] # thread[owner[fd]]]_vars

\* A thread that has stopped has closed its socket, on whatever way it left
\* (Worker, ReadLine).
NoSocketLeaks ==
    \A fd \in Fds : owner[fd] # Nobody => thread[owner[fd]] \notin {"stop", "detach", "gone"}

\* What has stopped is gone after the next client: a collection misses no
\* connection that had stopped when it began, wherever it is in the list (GC).
CollectionComplete ==
    \A o \in Objects :
        (lpc = "gc_first" /\ object[o] # Nil /\ object[o].state = "stoped")
            ~> (object[o] = Nil \/ object[o].state # "stoped")

\* the clients of the list, and those whose threads have stopped
Live     == [i \in 1 .. count |-> object[Content[i]].client]
Finished == {c \in Clients : thread[c] \in {"detach", "gone"}}

Registry == INSTANCE ConnRegistry WITH Clients <- Clients, live <- Live, finished <- Finished

\* The linked list and the collection implement the registry: connections keep
\* the order in which they came, and only those that have finished are dropped
\* (GC, CCConList).
ImplementsRegistry == Registry!Spec
=============================================================================
