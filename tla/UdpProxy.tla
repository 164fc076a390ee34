------------------------------ MODULE UdpProxy ------------------------------
(***************************************************************************)
(* The UDP tunnel of wireproxy (udp_proxy.go): one session per local       *)
(* client, created by the main loop on the client's first packet, with a   *)
(* goroutine of its own that carries the answers back, and closed by the   *)
(* sweep after a time of inactivity, or by its goroutine when something    *)
(* fails.  What the packets say is left out, and the time of lastActive is *)
(* whether it is longer ago than the inactivity timeout.                   *)
(*                                                                         *)
(* sessionMu is held across Dial only; its other critical sections are     *)
(* steps.  lastActive is read by the sweep under the lock and written by   *)
(* the others without it, and on a 32-bit processor such a read may see    *)
(* half of a write: a session that is being touched may look idle or not.  *)
(***************************************************************************)
EXTENDS Naturals, FiniteSets

CONSTANTS
    Clients,    \* local source addresses
    Sessions,   \* identities of udpSession objects; bounds how many are made
    NoSession,
    Expires     \* InactivityTimeout > 0

ASSUME UdpAssumption ==
    Clients # {} /\ NoSession \notin Sessions /\ Expires \in BOOLEAN

VARIABLES
    sessions,   \* the map from a client to its session
    handler,    \* where handleRemoteToLocal of a session is
    owner,      \* srcAddr of a session's goroutine
    closeChan,  \* closeChan of a session is closed
    remoteConn, \* remoteConn of a session is open
    idle,       \* lastActive is at least inactivityDur ago
    main,       \* where the main loop is
    src, sess   \* its variables srcKey and s

vars == <<sessions, handler, owner, closeChan, remoteConn, idle, main, src, sess>>
mainVars == <<main, src, sess>>

TypeOK ==
    /\ sessions \in [Clients -> Sessions \cup {NoSession}]
    /\ handler \in [Sessions -> {"new", "check", "read", "deliver", "remove",
                                 "close", "done"}]
    /\ owner \in [Sessions -> Clients]
    /\ closeChan \in [Sessions -> BOOLEAN]
    /\ remoteConn \in [Sessions -> BOOLEAN]
    /\ idle \in [Sessions -> BOOLEAN]
    /\ main \in {"receive", "lookup", "dial", "touch", "write"}
    /\ src \in Clients
    /\ sess \in Sessions \cup {NoSession}
    /\ main \in {"touch", "write"} => sess \in Sessions

Init ==
    /\ sessions = [c \in Clients |-> NoSession]
    /\ handler = [s \in Sessions |-> "new"]
    /\ owner = [s \in Sessions |-> CHOOSE c \in Clients : TRUE]
    /\ closeChan = [s \in Sessions |-> FALSE]
    /\ remoteConn = [s \in Sessions |-> FALSE]
    /\ idle = [s \in Sessions |-> FALSE]
    /\ main = "receive" /\ sess = NoSession
    /\ src = CHOOSE c \in Clients : TRUE

Mapped == {s \in Sessions : \E c \in Clients : sessions[c] = s}

(* The main loop keeps sessionMu while it dials. *)
SessionMuFree == main # "dial"

(* A write of lastActive without the lock is under way. *)
BeingTouched(s) == (main = "touch" /\ sess = s) \/ handler[s] = "deliver"

---------------------------------------------------------------------------
(* The main loop. *)

ReadFromUDP ==
    /\ main = "receive"
    /\ main' = "lookup"
    /\ src' \in Clients
    /\ UNCHANGED <<sessions, handler, owner, closeChan, remoteConn, idle, sess>>

(* getOrCreateSession for a client that has a session. *)
GetSession ==
    /\ main = "lookup"
    /\ sessions[src] # NoSession
    /\ sess' = sessions[src]
    /\ idle' = [idle EXCEPT ![sess'] = FALSE]
    /\ main' = "touch"
    /\ UNCHANGED <<sessions, handler, owner, closeChan, remoteConn, src>>

(* getOrCreateSession for another: the name is resolved, then dialled. *)
BeginDial ==
    /\ main = "lookup"
    /\ sessions[src] = NoSession
    /\ main' = "dial"
    /\ UNCHANGED <<sessions, handler, owner, closeChan, remoteConn, idle, src, sess>>

CreateSession ==
    /\ main = "dial"
    /\ \E s \in Sessions :
          /\ handler[s] = "new"
          /\ sess' = s
          /\ sessions' = [sessions EXCEPT ![src] = s]
          /\ handler' = [handler EXCEPT ![s] = "check"]
          /\ owner' = [owner EXCEPT ![s] = src]
          /\ remoteConn' = [remoteConn EXCEPT ![s] = TRUE]
    /\ main' = "touch"
    /\ UNCHANGED <<closeChan, idle, src>>

(* A bug: the error is logged and nil used. *)
DialFailsUnnoticed ==
    /\ main = "dial"
    /\ main' = "touch"
    /\ UNCHANGED <<sessions, handler, owner, closeChan, remoteConn, idle, src, sess>>

DialFails ==
    /\ main = "dial"
    /\ main' = "receive"
    /\ UNCHANGED <<sessions, handler, owner, closeChan, remoteConn, idle, src, sess>>

Touch ==
    /\ main = "touch"
    /\ idle' = [idle EXCEPT ![sess] = FALSE]
    /\ main' = "write"
    /\ UNCHANGED <<sessions, handler, owner, closeChan, remoteConn, src, sess>>

(* To a connection that may be closed by now: the packet is lost then. *)
WriteToRemote ==
    /\ main = "write"
    /\ main' = "receive"
    /\ sess' = NoSession
    /\ UNCHANGED <<sessions, handler, owner, closeChan, remoteConn, idle, src>>

MainLoop ==
    \/ GetSession \/ BeginDial \/ CreateSession \/ DialFails
    \/ Touch \/ WriteToRemote

---------------------------------------------------------------------------
(* handleRemoteToLocal of session s. *)

(* A bug: a timeout of the read is taken for no more than that. *)
NeverLooksAtCloseChan(s) ==
    /\ handler[s] = "check"
    /\ handler' = [handler EXCEPT ![s] = "read"]
    /\ UNCHANGED <<sessions, owner, closeChan, remoteConn, idle, mainVars>>

CheckCloseChan(s) ==
    /\ handler[s] = "check"
    /\ handler' = [handler EXCEPT ![s] = IF closeChan[s] THEN "remove" ELSE "read"]
    /\ UNCHANGED <<sessions, owner, closeChan, remoteConn, idle, mainVars>>

(* An answer, a timeout after 5 s (closeChan is looked at next), an error. *)
ReadFromRemote(s) ==
    /\ handler[s] = "read"
    /\ \E next \in {"deliver", "check", "remove"} :
          handler' = [handler EXCEPT ![s] = next]
    /\ UNCHANGED <<sessions, owner, closeChan, remoteConn, idle, mainVars>>

(* The session was active; the answer is written, or cannot be. *)
Deliver(s) ==
    /\ handler[s] = "deliver"
    /\ idle' = [idle EXCEPT ![s] = FALSE]
    /\ \E next \in {"check", "remove"} : handler' = [handler EXCEPT ![s] = next]
    /\ UNCHANGED <<sessions, owner, closeChan, remoteConn, mainVars>>

(* A bug: the client's session is removed, whichever it is. *)
RemoveWhichever(s) ==
    /\ handler[s] = "remove"
    /\ SessionMuFree
    /\ sessions' = [sessions EXCEPT ![owner[s]] = NoSession]
    /\ closeChan' = [t \in Sessions |-> closeChan[t] \/ sessions[owner[s]] = t]
    /\ handler' = [handler EXCEPT ![s] = "close"]
    /\ UNCHANGED <<owner, remoteConn, idle, mainVars>>

(* A bug: the connection is closed before the session is removed. *)
CloseThenRemove(s) ==
    /\ handler[s] = "remove"
    /\ SessionMuFree
    /\ IF remoteConn[s]
       THEN /\ remoteConn' = [remoteConn EXCEPT ![s] = FALSE]
            /\ UNCHANGED <<sessions, closeChan, handler>>
       ELSE /\ sessions' = [c \in Clients |->
                              IF sessions[c] = s THEN NoSession ELSE sessions[c]]
            /\ closeChan' = [closeChan EXCEPT ![s] = @ \/ sessions[owner[s]] = s]
            /\ handler' = [handler EXCEPT ![s] = "close"]
            /\ UNCHANGED remoteConn
    /\ UNCHANGED <<owner, idle, mainVars>>

(* The first deferred call: this session leaves the map, if it is there. *)
RemoveSession(s) ==
    /\ handler[s] = "remove"
    /\ SessionMuFree
    /\ IF sessions[owner[s]] = s
       THEN /\ sessions' = [sessions EXCEPT ![owner[s]] = NoSession]
            /\ closeChan' = [closeChan EXCEPT ![s] = TRUE]
       ELSE UNCHANGED <<sessions, closeChan>>
    /\ handler' = [handler EXCEPT ![s] = "close"]
    /\ UNCHANGED <<owner, remoteConn, idle, mainVars>>

(* A bug: whoever reads the connection is not the one who made it. *)
KeepRemoteConn(s) ==
    /\ handler[s] = "close"
    /\ handler' = [handler EXCEPT ![s] = "done"]
    /\ UNCHANGED <<sessions, owner, closeChan, remoteConn, idle, mainVars>>

CloseRemoteConn(s) ==
    /\ handler[s] = "close"
    /\ remoteConn' = [remoteConn EXCEPT ![s] = FALSE]
    /\ handler' = [handler EXCEPT ![s] = "done"]
    /\ UNCHANGED <<sessions, owner, closeChan, idle, mainVars>>

Handler(s) ==
    \/ CheckCloseChan(s) \/ ReadFromRemote(s) \/ Deliver(s) \/ CloseRemoteConn(s)

---------------------------------------------------------------------------
(* The sweep, and time. *)

(* A bug: the sessions are forgotten, their goroutines not told. *)
ForgetInactive ==
    /\ Expires /\ SessionMuFree
    /\ \E expired \in SUBSET {s \in Mapped : idle[s]} \ {{}} :
          /\ sessions' = [c \in Clients |->
                IF sessions[c] \in expired THEN NoSession ELSE sessions[c]]
          /\ UNCHANGED closeChan
    /\ UNCHANGED <<handler, owner, remoteConn, idle, mainVars>>

(* Every session found idle; of one that is being touched either is found. *)
CloseInactive ==
    /\ Expires /\ SessionMuFree
    /\ \E unsure \in SUBSET {s \in Mapped : BeingTouched(s)} :
          LET expired == {s \in Mapped : idle[s] /\ ~BeingTouched(s)} \cup unsure
          IN  /\ expired # {}
              /\ sessions' = [c \in Clients |->
                    IF sessions[c] \in expired THEN NoSession ELSE sessions[c]]
              /\ closeChan' = [s \in Sessions |-> closeChan[s] \/ s \in expired]
    /\ UNCHANGED <<handler, owner, remoteConn, idle, mainVars>>

TimePasses ==
    /\ \E s \in Mapped : ~idle[s] /\ idle' = [idle EXCEPT ![s] = TRUE]
    /\ UNCHANGED <<sessions, handler, owner, closeChan, remoteConn, mainVars>>

Next ==
    \/ ReadFromUDP \/ MainLoop
    \/ \E s \in Sessions : Handler(s) \/ RemoveSession(s)
    \/ CloseInactive \/ TimePasses

Spec == Init /\ [][Next]_vars

(* The goroutines are scheduled, a read returns within its 5 s, a dial ends *)
(* and the ticker ticks.  A waiter on a sync.Mutex gets it in the end (it   *)
(* hands over to whoever waited longer than 1 ms), hence the two strong     *)
(* conditions.  Nothing is asked of clients and of the remote end.          *)
Fairness ==
    /\ WF_vars(MainLoop)
    /\ \A s \in Sessions : WF_vars(Handler(s)) /\ SF_vars(RemoveSession(s))
    /\ SF_vars(CloseInactive)

FairSpec == Spec /\ Fairness

---------------------------------------------------------------------------
(* Properties. *)

(* The main loop is never handed a session whose connection is closed: a    *)
(* session leaves the map before its connection is closed, and what the map *)
(* holds for a client is that client's session.                             *)
MappedSessionsAreOpen ==
    \A c \in Clients :
        sessions[c] # NoSession =>
            remoteConn[sessions[c]] /\ owner[sessions[c]] = c

(* No connection of the tunnel is leaked: an open one is in the map, or its *)
(* goroutine has been told, or is past being told, and will close it.       *)
NoConnectionLeaks ==
    \A s \in Sessions :
        remoteConn[s] =>
            \/ s \in Mapped
            \/ closeChan[s] /\ handler[s] # "done"
            \/ handler[s] \in {"remove", "close"}

(* A session is taken from a client only for a reason of its own: it was    *)
(* idle, or touched at that moment, or its own goroutine ends.  The late    *)
(* end of a former session's goroutine takes nothing from its successor.    *)
RemovedForCause ==
    [][\A s \in Mapped :
          s \notin Mapped' =>
              idle[s] \/ BeingTouched(s) \/ handler[s] = "remove"]_vars

(* "sessions automatically close after inactivity": an idle session becomes *)
(* active again, or its connection is closed, whatever the others do.       *)
IdleSessionsClose ==
    \A s \in Sessions :
        (Expires /\ remoteConn[s] /\ idle[s]) ~> (~remoteConn[s] \/ ~idle[s])

(* A session that left the map comes to its end, also one whose remote end  *)
(* keeps sending.                                                           *)
ClosedSessionsEnd ==
    \A s \in Sessions : closeChan[s] ~> ~remoteConn[s]

=============================================================================
