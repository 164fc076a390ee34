--------------------------- MODULE UdpProxyProofs ---------------------------
(***************************************************************************)
(* Theorems about UdpProxy, for any number of clients and of sessions.     *)
(***************************************************************************)
EXTENDS UdpProxy, TLAPS

-----------------------------------------------------------------------------
(* The inductive invariant.                                                *)

\* A session has its connection from its creation to the end of its goroutine.
ConnectionsHaveReaders ==
    \A s \in Sessions : remoteConn[s] <=> handler[s] \notin {"new", "done"}

\* The map holds only sessions whose goroutine has yet to take them out of it,
\* each at the address it was made for.
MappedSessionsRun ==
    \A c \in Clients :
        sessions[c] # NoSession =>
            /\ owner[sessions[c]] = c
            /\ handler[sessions[c]] \notin {"new", "close", "done"}

\* While it dials, the main loop keeps the mutex: the place of the new session
\* stays free.
DialsForNobodyElse == main = "dial" => sessions[src] = NoSession

\* Why sessions are open, owned and never leaked.
SessionsInv ==
    /\ ConnectionsHaveReaders
    /\ MappedSessionsRun
    /\ DialsForNobodyElse
    /\ NoConnectionLeaks

-----------------------------------------------------------------------------
(* Type correctness.                                                       *)

\* The initial state has the declared types.
LEMMA InitTypeOK == Init => TypeOK
  <1>1. (CHOOSE c \in Clients : TRUE) \in Clients
    BY UdpAssumption
  <1> QED
    BY <1>1 DEF Init, TypeOK

\* Every step keeps the types.
LEMMA StepTypeOK == TypeOK /\ [Next]_vars => TypeOK'
  <1> SUFFICES ASSUME TypeOK, [Next]_vars PROVE TypeOK'
    OBVIOUS
  <1> USE DEF mainVars
  <1>1. CASE ReadFromUDP
    BY <1>1 DEF TypeOK, ReadFromUDP
  <1>2. CASE GetSession
    BY <1>2 DEF TypeOK, GetSession
  <1>3. CASE BeginDial
    BY <1>3 DEF TypeOK, BeginDial
  <1>4. CASE CreateSession
    BY <1>4 DEF TypeOK, CreateSession
  <1>5. CASE DialFails
    BY <1>5 DEF TypeOK, DialFails
  <1>6. CASE Touch
    BY <1>6 DEF TypeOK, Touch
  <1>7. CASE WriteToRemote
    BY <1>7 DEF TypeOK, WriteToRemote
  <1>8. ASSUME NEW s \in Sessions, Handler(s) \/ RemoveSession(s) PROVE TypeOK'
    <2>1. CASE CheckCloseChan(s)
      BY <2>1 DEF TypeOK, CheckCloseChan
    <2>2. CASE ReadFromRemote(s)
      BY <2>2 DEF TypeOK, ReadFromRemote
    <2>3. CASE Deliver(s)
      BY <2>3 DEF TypeOK, Deliver
    <2>4. CASE CloseRemoteConn(s)
      BY <2>4 DEF TypeOK, CloseRemoteConn
    <2>5. CASE RemoveSession(s)
      BY <2>5 DEF TypeOK, RemoveSession
    <2> QED BY <1>8, <2>1, <2>2, <2>3, <2>4, <2>5 DEF Handler
  <1>9. CASE CloseInactive
    BY <1>9 DEF TypeOK, CloseInactive
  <1>10. CASE TimePasses
    BY <1>10 DEF TypeOK, TimePasses
  <1>11. CASE UNCHANGED vars
    BY <1>11 DEF TypeOK, vars
  <1> QED
    BY <1>1, <1>2, <1>3, <1>4, <1>5, <1>6, <1>7, <1>8, <1>9, <1>10, <1>11
    DEF Next, MainLoop

\* Every reachable state of the tunnel has the declared types; in particular the
\* main loop has a session in hand whenever it is about to use one.
THEOREM TypeCorrect == Spec => []TypeOK
  <1> QED
    BY InitTypeOK, StepTypeOK, PTL DEF Spec

-----------------------------------------------------------------------------
(* Sessions are open, and no connection is leaked.                         *)

\* The goroutine of a session preserves it.
LEMMA SessionsHandler ==
  ASSUME TypeOK, SessionsInv, NEW s \in Sessions, Handler(s) \/ RemoveSession(s)
  PROVE  SessionsInv'
  <1> USE DEF mainVars, SessionsInv, ConnectionsHaveReaders, MappedSessionsRun,
              DialsForNobodyElse, NoConnectionLeaks, Mapped
  <1>1. CASE CheckCloseChan(s)
    BY <1>1 DEF TypeOK, CheckCloseChan
  <1>2. CASE ReadFromRemote(s)
    BY <1>2 DEF TypeOK, ReadFromRemote
  <1>3. CASE Deliver(s)
    BY <1>3 DEF TypeOK, Deliver
  <1>4. CASE CloseRemoteConn(s)
    BY <1>4 DEF TypeOK, CloseRemoteConn
  <1>5. CASE RemoveSession(s)
    \* It owns the only place of the map it can be in.
    BY <1>5, UdpAssumption DEF TypeOK, RemoveSession
  <1> QED BY <1>1, <1>2, <1>3, <1>4, <1>5 DEF Handler

\* Every step preserves it.
LEMMA SessionsStep == TypeOK /\ SessionsInv /\ [Next]_vars => SessionsInv'
  <1> SUFFICES ASSUME TypeOK, SessionsInv, [Next]_vars PROVE SessionsInv'
    OBVIOUS
  <1> USE DEF mainVars, SessionsInv, ConnectionsHaveReaders, MappedSessionsRun,
              DialsForNobodyElse, NoConnectionLeaks, Mapped
  <1>1. CASE ReadFromUDP \/ GetSession \/ BeginDial \/ DialFails \/ Touch \/ WriteToRemote
    BY <1>1 DEF ReadFromUDP, GetSession, BeginDial, DialFails, Touch, WriteToRemote
  <1>2. CASE CreateSession
    BY <1>2, UdpAssumption DEF TypeOK, CreateSession
  <1>3. ASSUME NEW s \in Sessions, Handler(s) \/ RemoveSession(s) PROVE SessionsInv'
    BY <1>3, SessionsHandler
  <1>4. CASE CloseInactive
    <2>1. PICK expired \in SUBSET Mapped :
            /\ sessions' = [c \in Clients |->
                  IF sessions[c] \in expired THEN NoSession ELSE sessions[c]]
            /\ closeChan' = [s \in Sessions |-> closeChan[s] \/ s \in expired]
      BY <1>4 DEF CloseInactive
    <2> QED BY <1>4, <2>1, UdpAssumption DEF TypeOK, CloseInactive
  <1>5. CASE TimePasses \/ UNCHANGED vars
    BY <1>5 DEF TimePasses, vars
  <1> QED
    BY <1>1, <1>2, <1>3, <1>4, <1>5 DEF Next, MainLoop

\* Hence it always holds.
LEMMA SessionsInvariant == Spec => []SessionsInv
  <1>1. Init => SessionsInv
    BY DEF Init, SessionsInv, ConnectionsHaveReaders, MappedSessionsRun,
         DialsForNobodyElse, NoConnectionLeaks
  <1> QED
    BY <1>1, SessionsStep, TypeCorrect, PTL DEF Spec

\* What the map holds for a client is that client's session, and its connection
\* is open: udpProxyTunnel never writes to a session that was closed under it in
\* the map.
THEOREM SessionsAreOpen == Spec => []MappedSessionsAreOpen
  <1>1. TypeOK /\ SessionsInv => MappedSessionsAreOpen
    BY DEF TypeOK, SessionsInv, ConnectionsHaveReaders, MappedSessionsRun,
         MappedSessionsAreOpen
  <1> QED
    BY <1>1, TypeCorrect, SessionsInvariant, PTL

\* Every open connection is in the map, or its goroutine will close it: whichever
\* of the sweep, the main loop and the goroutine comes first.
THEOREM ConnectionsAreClosed == Spec => []NoConnectionLeaks
  <1>1. SessionsInv => NoConnectionLeaks
    BY DEF SessionsInv
  <1> QED
    BY <1>1, SessionsInvariant, PTL

\* A client loses its session only because that session was idle, or touched just
\* then, or because its own goroutine ends; a new session never takes the place
\* of another, and the late end of a former one takes nothing away.
THEOREM SessionsLeaveForCause == Spec => RemovedForCause
  <1>1. TypeOK /\ SessionsInv /\ [Next]_vars =>
          [\A s \in Mapped :
             s \notin Mapped' => idle[s] \/ BeingTouched(s) \/ handler[s] = "remove"]_vars
    <2> SUFFICES ASSUME TypeOK, SessionsInv, [Next]_vars,
                        NEW s \in Mapped, s \notin Mapped'
                 PROVE  idle[s] \/ BeingTouched(s) \/ handler[s] = "remove"
      OBVIOUS
    <2> USE DEF mainVars, Mapped
    <2>1. CASE ReadFromUDP \/ GetSession \/ BeginDial \/ DialFails \/ Touch \/ WriteToRemote
      BY <2>1 DEF ReadFromUDP, GetSession, BeginDial, DialFails, Touch, WriteToRemote
    <2>2. CASE CreateSession
      BY <2>2, UdpAssumption DEF TypeOK, CreateSession, SessionsInv, DialsForNobodyElse
    <2>3. ASSUME NEW t \in Sessions, Handler(t)
          PROVE  FALSE
      BY <2>3 DEF Handler, CheckCloseChan, ReadFromRemote, Deliver, CloseRemoteConn
    <2>4. ASSUME NEW t \in Sessions, RemoveSession(t)
          PROVE  handler[s] = "remove"
      BY <2>4 DEF TypeOK, RemoveSession
    <2>5. CASE CloseInactive
      <3>1. PICK unsure \in SUBSET {t \in Mapped : BeingTouched(t)} :
              LET expired == {t \in Mapped : idle[t] /\ ~BeingTouched(t)} \cup unsure
              IN  sessions' = [c \in Clients |->
                    IF sessions[c] \in expired THEN NoSession ELSE sessions[c]]
        BY <2>5 DEF CloseInactive
      <3>2. s \in {t \in Mapped : idle[t] /\ ~BeingTouched(t)} \cup unsure
        BY <3>1 DEF TypeOK
      <3> QED BY <3>2
    <2>6. CASE TimePasses \/ UNCHANGED vars
      BY <2>6 DEF TimePasses, vars
    <2> QED
      BY <2>1, <2>2, <2>3, <2>4, <2>5, <2>6 DEF Next, MainLoop
  <1> QED
    BY <1>1, TypeCorrect, SessionsInvariant, PTL DEF Spec, RemovedForCause
=============================================================================
