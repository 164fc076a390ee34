-------------------------- MODULE ForwardingProofs --------------------------
(***************************************************************************)
(* Theorems about Forwarding: connections of every kind, with any number   *)
(* of pieces that either end may send.                                     *)
(***************************************************************************)
EXTENDS Forwarding, SequenceTheorems, TLAPS

-----------------------------------------------------------------------------
(* Stages and types.                                                       *)

\* What each stage of serve, or tcpClientForward, has done and not done yet.
StagesInv ==
    /\ stage \in {"request", "auth"} => kind \in Http
    /\ stage = "answer" => kind = "connect"
    /\ stage = "forward" => kind = "plain"
    /\ stage \in {"request", "auth", "dial"} => peer = "none"
    /\ stage \in {"answer", "forward"} => peer = "open"
    /\ stage = "returned" => peer # "open"
    /\ stage \notin {"relay", "returned"} => toClient = <<>> /\ toTarget = <<>>
    /\ stage # "relay" => outbound = "none" /\ inbound = "none"

\* The parameters, as the proofs use them.
LEMMA Constants ==
  /\ MaxSent \in Nat /\ MaxSent <= 100
  /\ Request \in Pieces /\ Pieces \subseteq Nat
  /\ Established \notin Pieces /\ Codes \cap Pieces = {} /\ Established \notin Codes
  BY ForwardingAssumption DEF Request, Pieces, Established, Codes

\* The initial state has the declared types.
LEMMA InitTypeOK == Init => TypeOK /\ StagesInv
  <1> SUFFICES ASSUME Init PROVE TypeOK /\ StagesInv
    OBVIOUS
  <1>1. received \in Seq(Pieces)
    BY Constants DEF Init
  <1> QED
    BY <1>1, Constants DEF Init, TypeOK, StagesInv, Http

\* Reading the request keeps the types.
LEMMA ReadRequestTypeOK == TypeOK /\ StagesInv /\ ReadRequest => TypeOK' /\ StagesInv'
  <1> SUFFICES ASSUME TypeOK, StagesInv, ReadRequest PROVE TypeOK' /\ StagesInv'
    OBVIOUS
  <1>1. received \in Seq(Pieces) /\ buffered \in Seq(Pieces)
    BY DEF TypeOK
  <1>2. \A n \in 1..Len(received) :
          /\ SubSeq(received, 2, n) \in Seq(Pieces)
          /\ SubSeq(received, n + 1, Len(received)) \in Seq(Pieces)
    BY <1>1
  <1>3. received' \in Seq(Pieces) /\ buffered' \in Seq(Pieces)
    BY <1>1, <1>2 DEF ReadRequest
  <1>4. /\ stage = "request" /\ stage' \in {"auth", "returned"}
        /\ UNCHANGED <<givenVars, conn, peer, stdout, answers, toClient, toTarget,
                       clientSent, targetSent, clientEnd, targetEnd, pumpVars>>
    BY DEF ReadRequest
  <1> QED
    BY <1>3, <1>4 DEF TypeOK, StagesInv, givenVars, pumpVars, Http

\* The other steps of serve do.
LEMMA ServeTypeOK == TypeOK /\ StagesInv /\ Serve => TypeOK' /\ StagesInv'
  <1> SUFFICES ASSUME TypeOK, StagesInv, Serve PROVE TypeOK' /\ StagesInv'
    OBVIOUS
  <1> USE DEF givenVars, wireVars, pumpVars, StagesInv
  <1>1. CASE ReadRequest
    BY <1>1, ReadRequestTypeOK
  <1>2. CASE Authenticate
    <2>1. AuthenticateCode \in {0} \cup Codes
      BY DEF AuthenticateCode, Codes
    <2>2. toClient' \in Seq(Pieces \cup {Established} \cup Codes)
      <3>1. toClient \in Seq(Pieces \cup {Established} \cup Codes)
        BY DEF TypeOK
      <3>2. toClient' = toClient \/ \E code \in Codes : toClient' = Append(toClient, code)
        BY <1>2, <2>1 DEF Authenticate
      <3> QED BY <3>1, <3>2
    <2>3. /\ stage = "auth" /\ stage' \in {"dial", "returned"}
          /\ stage' = "dial" => UNCHANGED toClient
          /\ UNCHANGED <<givenVars, conn, peer, stdout, buffered, toTarget, wireVars, pumpVars>>
      BY <1>2 DEF Authenticate
    <2> QED BY <2>2, <2>3 DEF TypeOK
  <1>3. CASE Dial
    BY <1>3 DEF Dial, AfterDial, Relay, TypeOK, Http
  <1>4. CASE WriteFails
    BY <1>4 DEF WriteFails, TypeOK
  <1>5. CASE WriteEstablished
    <2>1. toClient' \in Seq(Pieces \cup {Established} \cup Codes)
      BY <1>5 DEF WriteEstablished, TypeOK
    <2> QED BY <1>5, <2>1 DEF WriteEstablished, StartRelay, Relay, TypeOK
  <1>6. CASE WriteRequest
    <2>1. toTarget' \in Seq(Pieces)
      BY <1>6, Constants DEF WriteRequest, TypeOK
    <2> QED BY <1>6, <2>1 DEF WriteRequest, StartRelay, Relay, TypeOK
  <1> QED
    BY <1>1, <1>2, <1>3, <1>4, <1>5, <1>6 DEF Serve

\* So does every step.
LEMMA StepTypeOK == TypeOK /\ StagesInv /\ [Next]_vars => TypeOK' /\ StagesInv'
  <1> SUFFICES ASSUME TypeOK, StagesInv, [Next]_vars PROVE TypeOK' /\ StagesInv'
    OBVIOUS
  <1> USE DEF givenVars, wireVars, pumpVars, StagesInv
  <1>1. CASE Serve
    BY <1>1, ServeTypeOK
  <1>2. CASE CopyOutbound
    <2>1. received' \in Seq(Pieces) /\ toTarget' \in Seq(Pieces)
      BY <1>2 DEF CopyOutbound, TypeOK
    <2> QED BY <1>2, <2>1 DEF CopyOutbound, TypeOK
  <1>3. CASE CopyInbound
    <2>1. answers' \in Seq(Pieces) /\ toClient' \in Seq(Pieces \cup {Established} \cup Codes)
      BY <1>3 DEF CopyInbound, TypeOK
    <2> QED BY <1>3, <2>1 DEF CopyInbound, TypeOK
  <1>4. CASE CloseBoth
    BY <1>4 DEF CloseBoth, EndOutbound, EndInbound, CloseOutput, TypeOK
  <1>5. CASE ClientSends
    <2>1. clientSent' \in 0..MaxSent /\ clientSent' \in Pieces
      BY <1>5, Constants DEF ClientSends, TypeOK, Pieces
    <2>2. received' \in Seq(Pieces)
      BY <1>5, <2>1 DEF ClientSends, TypeOK
    <2> QED BY <1>5, <2>1, <2>2 DEF ClientSends, TypeOK
  <1>6. CASE TargetSends
    <2>1. targetSent' \in 0..MaxSent /\ targetSent' \in Pieces
      BY <1>6, Constants DEF TargetSends, TypeOK, Pieces
    <2>2. answers' \in Seq(Pieces)
      BY <1>6, <2>1 DEF TargetSends, TypeOK
    <2> QED BY <1>6, <2>1, <2>2 DEF TargetSends, TypeOK
  <1>7. CASE ClientEnds \/ TargetEnds
    BY <1>7 DEF ClientEnds, TargetEnds, TypeOK
  <1>8. CASE UNCHANGED vars
    BY <1>8 DEF vars, TypeOK
  <1> QED
    BY <1>1, <1>2, <1>3, <1>4, <1>5, <1>6, <1>7, <1>8 DEF Next, Ends

\* Both hold throughout.
LEMMA StagesInvariant == Spec => [](TypeOK /\ StagesInv)
  <1> QED
    BY InitTypeOK, StepTypeOK, PTL DEF Spec

\* Every reachable state has the declared types; in particular a relay always
\* has a peer to copy to.
THEOREM TypeCorrect == Spec => []TypeOK
  <1> QED
    BY StagesInvariant, PTL

-----------------------------------------------------------------------------
(* Refusals.                                                               *)

\* A refusal is the only thing its client ever gets.
LEMMA RefusedStep ==
  TypeOK /\ StagesInv /\ RefusedIsNotServed /\ [Next]_vars => RefusedIsNotServed'
  <1> SUFFICES ASSUME TypeOK, StagesInv, RefusedIsNotServed, [Next]_vars
               PROVE  RefusedIsNotServed'
    OBVIOUS
  <1> USE DEF givenVars, wireVars, pumpVars, StagesInv
  <1>1. CASE Authenticate
    BY <1>1 DEF Authenticate, RefusedIsNotServed
  <1>2. CASE WriteEstablished
    <2>1. toClient' = <<Established>>
      BY <1>2 DEF WriteEstablished
    <2> QED BY <2>1, Constants DEF RefusedIsNotServed
  <1>3. CASE CopyInbound
    <2>1. /\ toClient \in Seq(Pieces \cup {Established} \cup Codes)
          /\ Head(answers) \in Pieces /\ stage = "relay"
          /\ toClient' = Append(toClient, Head(answers))
      BY <1>3 DEF CopyInbound, TypeOK
    <2>2. \A i \in DOMAIN toClient : toClient[i] \notin Codes
      BY <2>1 DEF RefusedIsNotServed
    <2>3. \A i \in DOMAIN toClient' :
            toClient'[i] = Head(answers) \/ (i \in DOMAIN toClient /\ toClient'[i] = toClient[i])
      BY <2>1
    <2> QED BY <2>1, <2>2, <2>3, Constants DEF RefusedIsNotServed
  <1>4. CASE \/ ReadRequest \/ Dial \/ WriteFails \/ WriteRequest \/ CopyOutbound
             \/ CloseBoth \/ Ends \/ UNCHANGED vars
    <2>1. CASE stage = "returned"
      BY <1>4, <2>1 DEF ReadRequest, Dial, WriteFails, WriteRequest, CopyOutbound,
           CloseBoth, EndOutbound, EndInbound, Ends, ClientSends, TargetSends,
           ClientEnds, TargetEnds, vars, RefusedIsNotServed
    <2>2. CASE stage # "returned"
      <3>1. \A i \in DOMAIN toClient : toClient[i] \notin Codes
        BY <2>2 DEF RefusedIsNotServed
      <3>2. toClient' = toClient
        BY <1>4 DEF ReadRequest, Dial, WriteFails, WriteRequest, CopyOutbound,
           CloseBoth, Ends, ClientSends, TargetSends, ClientEnds, TargetEnds, vars
      <3> QED BY <3>1, <3>2 DEF RefusedIsNotServed
    <2> QED BY <2>1, <2>2
  <1> QED
    BY <1>1, <1>2, <1>3, <1>4 DEF Next, Serve

\* Nothing is dialled for a client the proxy refused, nothing of what it sent
\* is passed on, and it gets the refusal and no more, whatever it goes on to send.
THEOREM RefusalIsFinal == Spec => []RefusedIsNotServed
  <1>1. Init => RefusedIsNotServed
    BY DEF Init, RefusedIsNotServed
  <1> QED
    BY <1>1, RefusedStep, StagesInvariant, PTL DEF Spec

-----------------------------------------------------------------------------
(* Connections.                                                            *)

\* Every step keeps ended connections closed.
LEMMA ClosedStep ==
  TypeOK /\ StagesInv /\ NothingLeftOpen /\ [Next]_vars => NothingLeftOpen'
  <1> SUFFICES ASSUME TypeOK, StagesInv, NothingLeftOpen, [Next]_vars
               PROVE  NothingLeftOpen'
    OBVIOUS
  <1> USE DEF givenVars, wireVars, pumpVars, StagesInv, NothingLeftOpen, Output
  <1>1. CASE ReadRequest \/ Authenticate
    BY <1>1 DEF ReadRequest, Authenticate
  <1>2. CASE Dial
    BY <1>2 DEF Dial, AfterDial, Relay
  <1>3. CASE WriteFails \/ WriteEstablished \/ WriteRequest
    BY <1>3 DEF WriteFails, WriteEstablished, WriteRequest, StartRelay, Relay
  <1>4. CASE CloseBoth
    BY <1>4 DEF CloseBoth, EndOutbound, EndInbound, CloseOutput
  <1>5. CASE CopyOutbound \/ CopyInbound \/ Ends \/ UNCHANGED vars
    BY <1>5 DEF CopyOutbound, CopyInbound, Ends, ClientSends, TargetSends, ClientEnds,
         TargetEnds, vars
  <1> QED
    BY <1>1, <1>2, <1>3, <1>4, <1>5 DEF Next, Serve

\* However a connection ends, no connection to a target stays behind, and a
\* direction that ended has closed what it read and what it wrote.
THEOREM EndsClose == Spec => []NothingLeftOpen
  <1>1. Init => NothingLeftOpen
    BY DEF Init, NothingLeftOpen
  <1> QED
    BY <1>1, ClosedStep, StagesInvariant, PTL DEF Spec

-----------------------------------------------------------------------------
(* Order.  The pieces of a direction are numbered, so what was taken in    *)
(* with the request, what has been passed on and what still waits must be  *)
(* consecutive numbers, up to the last one sent.                           *)

\* Behind its first "lead" elements, q counts on: q[i] is i more than "from".
Numbered(q, lead, from) == \A i \in 1..Len(q) : i > lead => q[i] = from + i

\* What precedes the client's pieces at the target: the request it was made for.
OutLead == IF kind = "plain" /\ toTarget # <<>> THEN 1 ELSE 0
\* What precedes the target's pieces at the client: the answer to CONNECT.
InLead == IF kind = "connect" /\ toClient # <<>> THEN 1 ELSE 0

\* How many of the client's pieces were taken from it, and how many of the
\* target's were passed on.
Taken == Len(buffered) + Len(toTarget) - OutLead
Heard == Len(toClient) - InLead

OutboundInv ==
    /\ OutLead = 1 => toTarget[1] = Request
    /\ Numbered(toTarget, OutLead, Len(buffered) - OutLead)
    /\ Numbered(buffered, 0, 0)
    /\ Taken <= clientSent
    /\ stage = "request" =>
          buffered = <<>> /\ Len(received) = clientSent + 1 /\ Numbered(received, 0, 0 - 1)
    /\ stage \notin {"request", "returned"} =>
          Taken + Len(received) = clientSent /\ Numbered(received, 0, Taken)
    /\ stage = "relay" /\ kind = "plain" => toTarget # <<>>

InboundInv ==
    stage # "returned" =>
        /\ InLead = 1 => toClient[1] = Established
        /\ Numbered(toClient, InLead, 0 - InLead)
        /\ Heard + Len(answers) = targetSent
        /\ Numbered(answers, 0, Heard)
        /\ stage = "relay" /\ kind = "connect" => toClient # <<>>

\* Adding a piece at the end ...
LEMMA NumberedAppend ==
  ASSUME NEW S, NEW q \in Seq(S), NEW lead \in Nat, NEW from \in Int, NEW x \in S,
         Numbered(q, lead, from), x = from + Len(q) + 1
  PROVE  /\ Numbered(Append(q, x), lead, from)
         /\ Len(q) \in Nat /\ Len(Append(q, x)) = Len(q) + 1
         /\ Append(q, x) # <<>>
         /\ q # <<>> => Append(q, x)[1] = q[1]
  <1>1. /\ Len(q) \in Nat /\ DOMAIN q = 1..Len(q)
        /\ Append(q, x) # <<>> /\ Len(Append(q, x)) = Len(q) + 1
        /\ DOMAIN Append(q, x) = 1..(Len(q) + 1)
        /\ Append(q, x)[Len(q) + 1] = x
        /\ \A i \in 1..Len(q) : Append(q, x)[i] = q[i]
    OBVIOUS
  <1>2. q # <<>> => 1 \in 1..Len(q)
    OBVIOUS
  <1>3. ASSUME NEW i \in 1..(Len(q) + 1), i > lead PROVE Append(q, x)[i] = from + i
    BY <1>1, <1>3 DEF Numbered
  <1> QED BY <1>1, <1>2, <1>3 DEF Numbered

\* ... and taking one from the front.
LEMMA NumberedTail ==
  ASSUME NEW S, NEW q \in Seq(S), NEW from \in Int, Numbered(q, 0, from), q # <<>>
  PROVE  /\ Numbered(Tail(q), 0, from + 1)
         /\ Head(q) = from + 1 /\ Head(q) \in S
         /\ Len(q) \in Nat /\ Len(Tail(q)) = Len(q) - 1
  <1>1. /\ Len(q) \in Nat \ {0} /\ DOMAIN q = 1..Len(q)
        /\ Head(q) = q[1] /\ Head(q) \in S
        /\ Len(Tail(q)) = Len(q) - 1 /\ DOMAIN Tail(q) = 1..(Len(q) - 1)
        /\ \A i \in 1..(Len(q) - 1) : Tail(q)[i] = q[i + 1]
    OBVIOUS
  <1> QED BY <1>1 DEF Numbered

\* What bufio reads behind the request: the first n - 1 of the pieces there.
LEMMA NumberedReadAhead ==
  ASSUME NEW S, NEW q \in Seq(S), NEW n \in 1..Len(q), Numbered(q, 0, 0 - 1)
  PROVE  /\ Numbered(SubSeq(q, 2, n), 0, 0) /\ Len(SubSeq(q, 2, n)) = n - 1
         /\ Numbered(SubSeq(q, n + 1, Len(q)), 0, n - 1)
         /\ Len(SubSeq(q, n + 1, Len(q))) = Len(q) - n
  <1>1. Len(q) \in Nat /\ \A i \in 1..Len(q) : q[i] \in S
    OBVIOUS
  <1>2. /\ Len(SubSeq(q, 2, n)) = n - 1
        /\ \A i \in 1..(n - 1) : SubSeq(q, 2, n)[i] = q[i + 1]
    BY <1>1, SubSeqProperties
  <1>3. /\ Len(SubSeq(q, n + 1, Len(q))) = Len(q) - n
        /\ \A i \in 1..(Len(q) - n) : SubSeq(q, n + 1, Len(q))[i] = q[n + i]
    BY <1>1, SubSeqProperties
  <1> QED BY <1>1, <1>2, <1>3 DEF Numbered

\* The steps that leave the client's pieces alone.
LEMMA OutboundFrame ==
  ASSUME OutboundInv, UNCHANGED <<kind, received, buffered, toTarget, clientSent>>,
         \/ stage' = stage
         \/ stage' = "returned"
         \/ stage \notin {"request", "returned"} /\ stage' # "request"
              /\ (stage' = "relay" => kind # "plain")
  PROVE  OutboundInv'
  BY DEF OutboundInv, OutLead, Taken

\* Every step keeps the client's pieces in order.
LEMMA OutboundStep == TypeOK /\ StagesInv /\ OutboundInv /\ [Next]_vars => OutboundInv'
  <1> SUFFICES ASSUME TypeOK, StagesInv, OutboundInv, [Next]_vars PROVE OutboundInv'
    OBVIOUS
  <1> USE DEF givenVars, wireVars, pumpVars
  <1>0. /\ received \in Seq(Pieces) /\ buffered \in Seq(Pieces) /\ toTarget \in Seq(Pieces)
        /\ clientSent \in Nat
    BY Constants DEF TypeOK
  <1>01. /\ Len(received) \in Nat /\ Len(buffered) \in Nat /\ Len(toTarget) \in Nat
         /\ toTarget # <<>> => Len(toTarget) >= 1
    BY <1>0
  <1>02. /\ OutLead \in {0, 1} /\ Taken \in Int
         /\ Taken = Len(buffered) + Len(toTarget) - OutLead
    BY <1>01 DEF OutLead, Taken
  <1>1. CASE ReadRequest
    <2>1. CASE stage' = "returned"
      BY <1>1, <2>1, OutboundFrame DEF ReadRequest
    <2>2. CASE stage' # "returned"
      <3>1. PICK n \in 1..Len(received) :
              /\ buffered' = SubSeq(received, 2, n)
              /\ received' = SubSeq(received, n + 1, Len(received))
        BY <1>1, <2>2 DEF ReadRequest
      <3>2. /\ stage = "request" /\ stage' = "auth" /\ UNCHANGED <<kind, toTarget, clientSent>>
            /\ toTarget = <<>> /\ Len(received) = clientSent + 1
            /\ Numbered(received, 0, 0 - 1)
        BY <1>1, <2>2 DEF ReadRequest, StagesInv, OutboundInv
      <3>3. /\ Numbered(buffered', 0, 0) /\ Len(buffered') = n - 1
            /\ Numbered(received', 0, n - 1) /\ Len(received') = Len(received) - n
        BY <1>0, <3>1, <3>2, NumberedReadAhead
      <3>4. OutLead' = 0 /\ Taken' = n - 1
        BY <1>01, <3>2, <3>3 DEF OutLead, Taken
      <3>5. Numbered(toTarget', OutLead', Len(buffered') - OutLead')
        BY <3>2 DEF Numbered
      <3> QED BY <1>0, <1>01, <3>2, <3>3, <3>4, <3>5 DEF OutboundInv
    <2> QED BY <2>1, <2>2
  <1>2. CASE Authenticate \/ Dial \/ WriteFails \/ WriteEstablished
    BY <1>2, OutboundFrame DEF Authenticate, Dial, AfterDial, WriteFails, WriteEstablished,
         StartRelay, StagesInv
  <1>3. CASE WriteRequest
    <2>1. /\ stage = "forward" /\ stage' = "relay" /\ kind = "plain" /\ toTarget = <<>>
          /\ toTarget' = <<Request>>
          /\ UNCHANGED <<kind, received, buffered, clientSent>>
      BY <1>3 DEF WriteRequest, StartRelay, StagesInv
    <2>2. OutLead = 0 /\ OutLead' = 1 /\ Taken' = Taken
      BY <1>01, <2>1 DEF OutLead, Taken
    <2>3. Numbered(toTarget', 1, Len(buffered) - 1)
      BY <2>1 DEF Numbered
    <2> QED BY <2>1, <2>2, <2>3 DEF OutboundInv
  <1>4. CASE CopyOutbound
    <2>1. /\ stage = "relay" /\ received # <<>>
          /\ received' = Tail(received) /\ toTarget' = Append(toTarget, Head(received))
          /\ UNCHANGED <<kind, stage, buffered, clientSent>>
      BY <1>4 DEF CopyOutbound, StagesInv
    <2>2. /\ Taken + Len(received) = clientSent /\ Numbered(received, 0, Taken)
          /\ Numbered(toTarget, OutLead, Len(buffered) - OutLead)
          /\ kind = "plain" => toTarget # <<>>
          /\ OutLead = 1 => toTarget[1] = Request
          /\ Numbered(buffered, 0, 0)
      BY <2>1 DEF OutboundInv
    <2>3. /\ Numbered(received', 0, Taken + 1) /\ Head(received) = Taken + 1
          /\ Head(received) \in Pieces /\ Len(received') = Len(received) - 1
      BY <1>0, <1>02, <2>1, <2>2, NumberedTail
    <2>4. Head(received) = (Len(buffered) - OutLead) + Len(toTarget) + 1
      BY <1>01, <1>02, <2>3
    <2>5. Len(buffered) - OutLead \in Int /\ OutLead \in Nat
      BY <1>01, <1>02
    <2>6. /\ Numbered(toTarget', OutLead, Len(buffered) - OutLead)
          /\ toTarget' # <<>> /\ Len(toTarget') = Len(toTarget) + 1
          /\ toTarget # <<>> => toTarget'[1] = toTarget[1]
      <3> DEFINE from == Len(buffered) - OutLead
      <3>1. /\ from \in Int /\ Numbered(toTarget, OutLead, from)
            /\ Head(received) = from + Len(toTarget) + 1
        BY <2>2, <2>4, <2>5
      <3> HIDE DEF from
      <3>2. /\ Numbered(toTarget', OutLead, from)
            /\ toTarget' # <<>> /\ Len(toTarget') = Len(toTarget) + 1
            /\ toTarget # <<>> => toTarget'[1] = toTarget[1]
        BY <1>0, <2>1, <2>3, <2>5, <3>1, NumberedAppend
      <3> QED BY <3>2 DEF from
    <2>7. OutLead' = OutLead
      BY <2>1, <2>2, <2>6 DEF OutLead
    <2>8. Taken' = Taken + 1
      BY <1>01, <1>02, <2>1, <2>6, <2>7 DEF Taken
    <2>9. OutLead = 1 => toTarget # <<>>
      BY DEF OutLead
    <2> QED BY <1>0, <1>01, <1>02, <2>1, <2>2, <2>3, <2>6, <2>7, <2>8, <2>9 DEF OutboundInv
  <1>5. CASE ClientSends
    <2>1. /\ clientSent' = clientSent + 1 /\ clientSent' \in Pieces
          /\ received' = Append(received, clientSent')
          /\ UNCHANGED <<kind, stage, buffered, toTarget>>
      BY <1>0, <1>5, Constants DEF ClientSends, Pieces
    <2>2. ASSUME NEW from \in Int, Numbered(received, 0, from),
                 from + Len(received) = clientSent
          PROVE  Numbered(received', 0, from) /\ Len(received') = Len(received) + 1
      BY <1>0, <1>01, <2>1, <2>2, NumberedAppend
    <2>3. OutLead' = OutLead /\ Taken' = Taken
      BY <2>1 DEF OutLead, Taken
    <2>4. CASE stage = "request"
      <3>1. Numbered(received', 0, 0 - 1) /\ Len(received') = Len(received) + 1
        <4> DEFINE from == 0 - 1
        <4>1. Numbered(received, 0, from) /\ Len(received) = clientSent + 1
          BY <2>4 DEF OutboundInv
        <4>2. from \in Int /\ clientSent' = from + Len(received) + 1
          <5>1. clientSent' = clientSent + 1
            BY <2>1
          <5> QED BY <1>0, <1>01, <4>1, <5>1
        <4> HIDE DEF from
        <4>3. Numbered(received', 0, from) /\ Len(received') = Len(received) + 1
          BY <1>0, <2>1, <4>1, <4>2, NumberedAppend
        <4> QED BY <4>3 DEF from
      <3>2. Taken' <= clientSent' /\ Len(received') = clientSent' + 1
        <4>1. Taken <= clientSent /\ Len(received) = clientSent + 1
          BY <2>4 DEF OutboundInv
        <4>2. clientSent' = clientSent + 1 /\ Taken' = Taken
          BY <2>1, <2>3
        <4>3. Len(received') = Len(received) + 1
          BY <3>1
        <4> QED BY <1>0, <1>01, <1>02, <4>1, <4>2, <4>3
      <3> QED BY <2>1, <2>3, <2>4, <3>1, <3>2 DEF OutboundInv
    <2>5. CASE stage = "returned"
      BY <1>0, <1>02, <2>1, <2>3, <2>5 DEF OutboundInv
    <2>6. CASE stage \notin {"request", "returned"}
      <3>1. Numbered(received', 0, Taken) /\ Len(received') = Len(received) + 1
        BY <1>02, <2>2, <2>6 DEF OutboundInv
      <3>2. Taken' <= clientSent' /\ Taken' + Len(received') = clientSent'
        BY <1>0, <1>01, <1>02, <2>1, <2>3, <2>6, <3>1 DEF OutboundInv
      <3> QED BY <2>1, <2>3, <2>6, <3>1, <3>2 DEF OutboundInv
    <2> QED BY <2>4, <2>5, <2>6
  <1>6. CASE CopyInbound \/ CloseBoth \/ TargetSends \/ ClientEnds \/ TargetEnds
             \/ UNCHANGED vars
    BY <1>6, OutboundFrame DEF CopyInbound, CloseBoth, TargetSends, ClientEnds, TargetEnds,
         vars
  <1> QED
    BY <1>1, <1>2, <1>3, <1>4, <1>5, <1>6 DEF Next, Serve, Ends

\* The steps that leave the target's pieces alone.
LEMMA InboundFrame ==
  ASSUME InboundInv, UNCHANGED <<kind, answers, toClient, targetSent>>,
         stage' = stage \/ stage' \in {"returned", "auth", "dial", "answer", "forward"}
                        \/ (stage # "returned" /\ kind # "connect"),
         stage = "returned" => stage' = "returned"
  PROVE  InboundInv'
  BY DEF InboundInv, InLead, Heard

\* Every step keeps the target's pieces in order.
LEMMA InboundStep == TypeOK /\ StagesInv /\ InboundInv /\ [Next]_vars => InboundInv'
  <1> SUFFICES ASSUME TypeOK, StagesInv, InboundInv, [Next]_vars PROVE InboundInv'
    OBVIOUS
  <1> USE DEF givenVars, wireVars, pumpVars
  <1> DEFINE Gets == Pieces \cup {Established} \cup Codes
  <1>0. answers \in Seq(Pieces) /\ toClient \in Seq(Gets) /\ targetSent \in Nat
    BY Constants DEF TypeOK
  <1> HIDE DEF Gets
  <1>01. Len(answers) \in Nat /\ Len(toClient) \in Nat
    BY <1>0
  <1>02. InLead \in {0, 1} /\ Heard \in Int /\ Heard = Len(toClient) - InLead
    BY <1>01 DEF InLead, Heard
  <1>1. CASE ReadRequest \/ Dial \/ WriteFails \/ WriteRequest
    BY <1>1, InboundFrame DEF ReadRequest, Dial, AfterDial, WriteFails, WriteRequest,
         StartRelay, StagesInv
  <1>2. CASE Authenticate
    <2>1. CASE stage' = "dial"
      BY <1>2, <2>1, InboundFrame DEF Authenticate
    <2>2. CASE stage' # "dial"
      BY <1>2, <2>2 DEF Authenticate, InboundInv
    <2> QED BY <2>1, <2>2
  <1>3. CASE WriteEstablished
    <2>1. /\ stage = "answer" /\ stage' = "relay" /\ kind = "connect" /\ toClient = <<>>
          /\ toClient' = <<Established>>
          /\ UNCHANGED <<kind, answers, targetSent>>
      BY <1>3 DEF WriteEstablished, StartRelay, StagesInv
    <2>2. InLead = 0 /\ InLead' = 1 /\ Heard' = Heard
      BY <1>01, <2>1 DEF InLead, Heard
    <2>3. Numbered(toClient', 1, 0 - 1)
      BY <2>1 DEF Numbered
    <2> QED BY <2>1, <2>2, <2>3 DEF InboundInv
  <1>4. CASE CopyInbound
    <2>1. /\ stage = "relay" /\ answers # <<>>
          /\ answers' = Tail(answers) /\ toClient' = Append(toClient, Head(answers))
          /\ UNCHANGED <<kind, stage, targetSent>>
      BY <1>4 DEF CopyInbound, StagesInv
    <2>2. /\ Heard + Len(answers) = targetSent /\ Numbered(answers, 0, Heard)
          /\ Numbered(toClient, InLead, 0 - InLead)
          /\ kind = "connect" => toClient # <<>>
          /\ InLead = 1 => toClient[1] = Established
      BY <2>1 DEF InboundInv
    <2>3. /\ Numbered(answers', 0, Heard + 1) /\ Head(answers) = Heard + 1
          /\ Head(answers) \in Pieces /\ Len(answers') = Len(answers) - 1
      BY <1>0, <1>02, <2>1, <2>2, NumberedTail
    <2>4. /\ Numbered(toClient', InLead, 0 - InLead)
          /\ toClient' # <<>> /\ Len(toClient') = Len(toClient) + 1
          /\ toClient # <<>> => toClient'[1] = toClient[1]
      <3> DEFINE from == 0 - InLead
      <3>1. /\ from \in Int /\ InLead \in Nat /\ Numbered(toClient, InLead, from)
            /\ Head(answers) = from + Len(toClient) + 1 /\ Head(answers) \in Gets
        BY <1>01, <1>02, <2>2, <2>3 DEF Gets
      <3> HIDE DEF from
      <3>2. /\ Numbered(toClient', InLead, from)
            /\ toClient' # <<>> /\ Len(toClient') = Len(toClient) + 1
            /\ toClient # <<>> => toClient'[1] = toClient[1]
        BY <1>0, <2>1, <3>1, NumberedAppend
      <3> QED BY <3>2 DEF from
    <2>5. InLead' = InLead
      BY <2>1, <2>2, <2>4 DEF InLead
    <2>6. Heard' = Heard + 1
      BY <1>01, <1>02, <2>4, <2>5 DEF Heard
    <2>7. InLead = 1 => toClient # <<>>
      BY DEF InLead
    <2>8. Heard' + Len(answers') = targetSent'
      BY <1>01, <1>02, <2>1, <2>2, <2>3, <2>6
    <2> QED BY <2>1, <2>2, <2>3, <2>4, <2>5, <2>6, <2>7, <2>8 DEF InboundInv
  <1>5. CASE TargetSends
    <2>1. /\ targetSent' = targetSent + 1 /\ targetSent' \in Pieces
          /\ answers' = Append(answers, targetSent')
          /\ UNCHANGED <<kind, stage, toClient>>
          /\ stage # "returned"
      BY <1>0, <1>5, Constants DEF TargetSends, Pieces, TypeOK, StagesInv
    <2>2. Heard + Len(answers) = targetSent /\ Numbered(answers, 0, Heard)
      BY <2>1 DEF InboundInv
    <2>3. Numbered(answers', 0, Heard) /\ Len(answers') = Len(answers) + 1
      BY <1>0, <1>01, <1>02, <2>1, <2>2, NumberedAppend
    <2>4. InLead' = InLead /\ Heard' = Heard
      <3>1. kind' = kind /\ toClient' = toClient
        BY <2>1
      <3> QED BY <3>1 DEF InLead, Heard
    <2>5. Heard' + Len(answers') = targetSent'
      <3>1. targetSent' = targetSent + 1 /\ Len(answers') = Len(answers) + 1
        BY <2>1, <2>3
      <3> QED BY <1>0, <1>01, <1>02, <2>2, <2>4, <3>1
    <2> QED BY <2>1, <2>3, <2>4, <2>5 DEF InboundInv
  <1>6. CASE CopyOutbound \/ CloseBoth \/ ClientSends \/ ClientEnds \/ TargetEnds
             \/ UNCHANGED vars
    BY <1>6, InboundFrame DEF CopyOutbound, CloseBoth, ClientSends, ClientEnds, TargetEnds,
         vars
  <1> QED
    BY <1>1, <1>2, <1>3, <1>4, <1>5, <1>6 DEF Next, Serve, Ends

\* Sequences that agree as far as the first goes.
LEMMA PrefixByElements ==
  ASSUME NEW S, NEW q \in Seq(S), NEW r \in Seq(S), Len(q) <= Len(r),
         \A i \in 1..Len(q) : q[i] = r[i]
  PROVE  IsPrefix(q, r)
  <1>1. Len(q) \in Nat /\ Len(r) \in Nat
    OBVIOUS
  <1>2. SubSeq(q, 1, Len(q)) = SubSeq(r, 1, Len(q))
    BY <1>1
  <1> QED
    BY <1>1, <1>2 DEF IsPrefix

\* What an end has sent.
LEMMA UpToIsSequence ==
  ASSUME NEW n \in Nat
  PROVE  UpTo(n) \in Seq(Nat) /\ Len(UpTo(n)) = n /\ \A i \in 1..n : UpTo(n)[i] = i
  BY DEF UpTo

\* Consecutive numbers from the first one on are what was sent.
LEMMA NumberedPrefix ==
  ASSUME NEW n \in Nat, NEW q \in Seq(Nat), Len(q) <= n, Numbered(q, 0, 0)
  PROVE  IsPrefix(q, UpTo(n))
  <1>1. Len(q) \in Nat /\ \A i \in 1..Len(q) : q[i] = UpTo(n)[i]
    BY UpToIsSequence DEF Numbered
  <1> QED
    BY <1>1, UpToIsSequence, PrefixByElements

\* Numbers that go on where others ended.
LEMMA NumberedConcat ==
  ASSUME NEW q \in Seq(Nat), NEW r \in Seq(Nat), Numbered(q, 0, 0), Numbered(r, 0, Len(q))
  PROVE  /\ q \o r \in Seq(Nat) /\ Len(q \o r) = Len(q) + Len(r)
         /\ Numbered(q \o r, 0, 0)
  <1>1. /\ Len(q) \in Nat /\ Len(r) \in Nat
        /\ q \o r \in Seq(Nat) /\ Len(q \o r) = Len(q) + Len(r)
        /\ \A i \in 1..Len(q) : (q \o r)[i] = q[i]
        /\ \A i \in 1..Len(r) : (q \o r)[Len(q) + i] = r[i]
    OBVIOUS
  <1>2. ASSUME NEW i \in 1..(Len(q) + Len(r)) PROVE (q \o r)[i] = i
    <2>1. CASE i <= Len(q)
      BY <1>1, <2>1 DEF Numbered
    <2>2. CASE i > Len(q)
      <3>1. i - Len(q) \in 1..Len(r) /\ i = Len(q) + (i - Len(q))
        BY <1>1, <2>2
      <3> QED BY <1>1, <3>1 DEF Numbered
    <2> QED BY <1>1, <2>1, <2>2
  <1> QED BY <1>1, <1>2 DEF Numbered

\* Behind a leading element.
LEMMA NumberedBehind ==
  ASSUME NEW q \in Seq(Nat), NEW from \in Int, q # <<>>, Numbered(q, 1, from)
  PROVE  /\ Tail(q) \in Seq(Nat) /\ Len(Tail(q)) = Len(q) - 1 /\ Len(q) \in Nat
         /\ Head(q) = q[1]
         /\ Numbered(Tail(q), 0, from + 1)
  <1>1. /\ Len(q) \in Nat \ {0} /\ Head(q) = q[1] /\ Tail(q) \in Seq(Nat)
        /\ Len(Tail(q)) = Len(q) - 1 /\ DOMAIN Tail(q) = 1..(Len(q) - 1)
        /\ \A i \in 1..(Len(q) - 1) : Tail(q)[i] = q[i + 1]
    OBVIOUS
  <1> QED BY <1>1 DEF Numbered

\* Both orders hold in the initial state.
LEMMA InitInOrder == Init => OutboundInv /\ InboundInv
  <1> SUFFICES ASSUME Init PROVE OutboundInv /\ InboundInv
    OBVIOUS
  <1>1. /\ buffered = <<>> /\ toTarget = <<>> /\ toClient = <<>> /\ answers = <<>>
        /\ clientSent = 0 /\ targetSent = 0 /\ stage \in {"request", "dial"}
        /\ received = (IF stage = "request" THEN <<Request>> ELSE <<>>)
    BY DEF Init
  <1>2. OutLead = 0 /\ InLead = 0 /\ Taken = 0 /\ Heard = 0
    BY <1>1 DEF OutLead, InLead, Taken, Heard
  <1>3. /\ \A lead, from : Numbered(<<>>, lead, from)
        /\ Numbered(<<Request>>, 0, 0 - 1)
    BY DEF Numbered, Request
  <1>4. OutboundInv
    BY <1>1, <1>2, <1>3 DEF OutboundInv
  <1>5. InboundInv
    BY <1>1, <1>2, <1>3 DEF InboundInv
  <1> QED BY <1>4, <1>5

\* What went to the target, behind the request, continues what was buffered.
LEMMA OutboundInOrder ==
  ASSUME TypeOK, OutboundInv
  PROVE  IF kind = "plain"
         THEN toTarget # <<>> => /\ Head(toTarget) = Request
                                 /\ IsPrefix(buffered \o Tail(toTarget), UpTo(clientSent))
         ELSE IsPrefix(buffered \o toTarget, UpTo(clientSent))
  <1>0. /\ buffered \in Seq(Nat) /\ toTarget \in Seq(Nat) /\ clientSent \in Nat
        /\ Len(buffered) \in Nat /\ Len(toTarget) \in Nat
    <2>1. /\ buffered \in Seq(Pieces) /\ toTarget \in Seq(Pieces) /\ clientSent \in Nat
      BY Constants DEF TypeOK
    <2>2. buffered \in Seq(Nat) /\ toTarget \in Seq(Nat)
      BY <2>1, Constants, SeqMonotonic
    <2> QED BY <2>1, <2>2
  <1>1. /\ Numbered(buffered, 0, 0) /\ Taken <= clientSent
        /\ Numbered(toTarget, OutLead, Len(buffered) - OutLead)
        /\ OutLead = 1 => toTarget[1] = Request
    BY DEF OutboundInv
  <1>2. CASE kind = "plain"
    <2>1. SUFFICES ASSUME toTarget # <<>>
                   PROVE  /\ Head(toTarget) = Request
                          /\ IsPrefix(buffered \o Tail(toTarget), UpTo(clientSent))
      BY <1>2
    <2>2. OutLead = 1 /\ Taken = Len(buffered) + Len(toTarget) - 1
      BY <1>2, <2>1 DEF OutLead, Taken
    <2> DEFINE from == Len(buffered) - 1
    <2>3. from \in Int /\ from + 1 = Len(buffered) /\ Numbered(toTarget, 1, from)
      BY <1>0, <1>1, <2>2
    <2> HIDE DEF from
    <2>4. /\ Tail(toTarget) \in Seq(Nat) /\ Len(Tail(toTarget)) = Len(toTarget) - 1
          /\ Head(toTarget) = toTarget[1]
          /\ Numbered(Tail(toTarget), 0, from + 1)
      BY <1>0, <2>1, <2>3, NumberedBehind
    <2>5. Numbered(Tail(toTarget), 0, Len(buffered))
      BY <2>3, <2>4
    <2> DEFINE rest == Tail(toTarget)
    <2>6. /\ rest \in Seq(Nat) /\ Len(rest) = Len(toTarget) - 1
          /\ Numbered(rest, 0, Len(buffered))
      BY <2>4, <2>5
    <2> HIDE DEF rest
    <2>7. /\ buffered \o rest \in Seq(Nat) /\ Len(buffered \o rest) <= clientSent
          /\ Numbered(buffered \o rest, 0, 0)
      BY <1>0, <1>1, <2>2, <2>6, NumberedConcat
    <2>8. IsPrefix(buffered \o rest, UpTo(clientSent))
      BY <1>0, <2>7, NumberedPrefix
    <2> QED BY <1>1, <2>2, <2>4, <2>8 DEF rest
  <1>3. CASE kind # "plain"
    <2>1. OutLead = 0 /\ Taken = Len(buffered) + Len(toTarget)
      BY <1>0, <1>3 DEF OutLead, Taken
    <2>2. Numbered(toTarget, 0, Len(buffered))
      <3>1. Len(buffered) - OutLead = Len(buffered)
        BY <1>0, <2>1
      <3> QED BY <1>1, <2>1, <3>1
    <2>3. /\ buffered \o toTarget \in Seq(Nat) /\ Len(buffered \o toTarget) <= clientSent
          /\ Numbered(buffered \o toTarget, 0, 0)
      BY <1>0, <1>1, <2>1, <2>2, NumberedConcat
    <2>4. IsPrefix(buffered \o toTarget, UpTo(clientSent))
      BY <1>0, <2>3, NumberedPrefix
    <2> QED BY <1>3, <2>4
  <1> QED BY <1>2, <1>3

\* What went to the client, behind the answer to CONNECT.
LEMMA InboundInOrder ==
  ASSUME TypeOK, InboundInv, stage # "returned"
  PROVE  IsPrefix(toClient, IF kind = "connect" THEN <<Established>> \o UpTo(targetSent)
                                                ELSE UpTo(targetSent))
  <1>0. /\ toClient \in Seq(Nat) /\ answers \in Seq(Nat) /\ targetSent \in Nat
        /\ Len(toClient) \in Nat /\ Len(answers) \in Nat
    <2> DEFINE Gets == Pieces \cup {Established} \cup Codes
    <2>1. Gets \subseteq Nat /\ Pieces \subseteq Gets
      BY Constants DEF Established, Codes
    <2>2. toClient \in Seq(Gets) /\ answers \in Seq(Pieces) /\ targetSent \in Nat
      BY Constants DEF TypeOK
    <2> HIDE DEF Gets
    <2>3. toClient \in Seq(Nat) /\ answers \in Seq(Nat)
      BY <2>1, <2>2, Constants, SeqMonotonic
    <2> QED BY <2>2, <2>3
  <1>1. /\ InLead = 1 => toClient[1] = Established
        /\ Numbered(toClient, InLead, 0 - InLead)
        /\ Heard + Len(answers) = targetSent
    BY DEF InboundInv
  <1>2. Heard \in Int /\ InLead \in {0, 1} /\ Heard = Len(toClient) - InLead
    BY <1>0 DEF InLead, Heard
  <1>3. Heard <= targetSent
    BY <1>0, <1>1, <1>2
  <1>4. CASE InLead = 0 /\ (kind = "connect" => toClient = <<>>)
    <2>1. Numbered(toClient, 0, 0)
      <3>1. 0 - InLead = 0
        BY <1>4
      <3> QED BY <1>1, <1>4, <3>1
    <2>2. Len(toClient) <= targetSent
      BY <1>0, <1>2, <1>3, <1>4
    <2>3. CASE kind = "connect"
      <3> DEFINE sent == UpTo(targetSent)
                 all == <<Established>> \o sent
      <3>0. sent \in Seq(Nat) /\ <<Established>> \in Seq(Nat)
        BY <1>0, UpToIsSequence DEF Established
      <3> HIDE DEF sent
      <3>1. all \in Seq(Nat)
        BY <3>0, ConcatProperties
      <3> HIDE DEF all
      <3>2. /\ Len(toClient) <= Len(all)
            /\ \A i \in 1..Len(toClient) : toClient[i] = all[i]
        <4>1. Len(toClient) = 0
          BY <1>4, <2>3
        <4> QED BY <3>1, <4>1, LenProperties
      <3>3. IsPrefix(toClient, all)
        BY <1>0, <3>1, <3>2, PrefixByElements
      <3> QED BY <2>3, <3>3 DEF all, sent
    <2>4. CASE kind # "connect"
      BY <1>0, <2>1, <2>2, <2>4, NumberedPrefix
    <2> QED BY <2>3, <2>4
  <1>5. CASE InLead = 1
    <2>1. kind = "connect" /\ toClient[1] = Established
      BY <1>1, <1>5 DEF InLead
    <2> DEFINE sent == UpTo(targetSent)
               all == <<Established>> \o sent
    <2>2. sent \in Seq(Nat) /\ Len(sent) = targetSent /\ \A i \in 1..targetSent : sent[i] = i
      BY <1>0, UpToIsSequence
    <2> HIDE DEF sent
    <2>3. /\ all \in Seq(Nat) /\ Len(all) = targetSent + 1 /\ all[1] = Established
          /\ \A i \in 2..(targetSent + 1) : all[i] = i - 1
      BY <1>0, <2>2 DEF Established
    <2> HIDE DEF all
    <2>4. \A i \in 1..Len(toClient) : i > 1 => toClient[i] = i - 1
      <3>1. 0 - InLead = 0 - 1
        BY <1>5
      <3> QED BY <1>0, <1>1, <1>5, <3>1 DEF Numbered
    <2>5. Len(toClient) <= Len(all)
      BY <1>0, <1>2, <1>3, <1>5, <2>3
    <2>6. \A i \in 1..Len(toClient) : toClient[i] = all[i]
      BY <1>0, <2>1, <2>3, <2>4, <2>5
    <2>7. IsPrefix(toClient, all)
      BY <1>0, <2>3, <2>5, <2>6, PrefixByElements
    <2> QED BY <2>1, <2>7 DEF all, sent
  <1>6. InLead = 0 => (kind = "connect" => toClient = <<>>)
    BY DEF InLead
  <1> QED BY <1>2, <1>4, <1>5, <1>6

\* The target and the client get what the other end sent, in its order and
\* without a gap, behind the request or the answer; only what the reader of
\* the request took in with it never arrives.
THEOREM PiecesKeepTheirOrder == Spec => []ForwardedInOrder
  <1>1. TypeOK /\ OutboundInv /\ InboundInv => ForwardedInOrder
    BY OutboundInOrder, InboundInOrder DEF ForwardedInOrder
  <1> QED
    BY <1>1, InitInOrder, OutboundStep, InboundStep, StagesInvariant, PTL DEF Spec
=============================================================================
