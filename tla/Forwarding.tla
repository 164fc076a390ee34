----------------------------- MODULE Forwarding -----------------------------
(***************************************************************************)
(* One connection through wireproxy's tunnels: a request of the HTTP proxy *)
(* (http.go, CONNECT or any other method), a connection of a TCP tunnel    *)
(* (tcpClientForward and tcpServerForward, which differ only in the side   *)
(* of WireGuard they dial to), or standard input and output                *)
(* (STDIOTcpForward), from its acceptance to its end.                      *)
(*                                                                         *)
(* conn is the accepted connection, or standard input, and peer the dialled *)
(* one.  The client of a STDIO tunnel is the command at the other end of   *)
(* the pipes; what it gets is written to stdout.  What travels             *)
(* is numbered: the client sends its request, 0 (HTTP only, with its body) *)
(* and then 1, 2, ...; the target sends 1, 2, ....  A direction is copied  *)
(* one such piece at a time; the two deferred calls that close both        *)
(* connections when a direction ends are one step.  Either end may shut    *)
(* down its sending half and go on receiving, or break off.                *)
(***************************************************************************)
EXTENDS Naturals, Sequences, SequencesExt

CONSTANTS
    Kinds,         \* "connect", "plain" (another method), "tcp", "stdio": which to look at
    MaxSent        \* pieces either end sends after the request

ASSUME ForwardingAssumption ==
    /\ Kinds \subseteq {"connect", "plain", "tcp", "stdio"}
    /\ MaxSent \in 0..100

VARIABLES
    kind,          \* of the connection
    authRequired,  \* HTTPServer.authRequired
    stage,         \* where serve, or tcpClientForward, is
    credentials,   \* what Proxy-Authorization holds
    conn, peer,    \* the proxy's ends: "none", "open", "closed"
    stdout,        \* /dev/stdout, of a STDIO tunnel
    received,      \* at conn, not yet read
    buffered,      \* read by the bufio.Reader of serve, not yet used
    answers,       \* at peer, not yet read
    toClient, toTarget,     \* what has been written to each
    clientSent, targetSent, \* how much each has sent
    clientEnd, targetEnd,   \* "open", "half" (sends no more), "gone"
    outbound, inbound       \* the two copying goroutines

givenVars == <<kind, authRequired, credentials>>
vars == <<givenVars, stage, conn, peer, stdout, received, buffered, answers, toClient,
          toTarget, clientSent, targetSent, clientEnd, targetEnd, outbound, inbound>>
wireVars == <<received, answers, clientSent, targetSent, clientEnd, targetEnd>>
pumpVars == <<outbound, inbound>>

Http == {"connect", "plain"}
Request == 0
Established == 200
Pieces == 0..MaxSent
Codes == {407, 406, 411, 401}

TypeOK ==
    /\ kind \in Kinds /\ authRequired \in BOOLEAN
    /\ stage \in {"request", "auth", "dial", "answer", "forward", "relay",
                  "returned"}
    /\ credentials \in {"none", "undecodable", "unsplit", "wrong", "right"}
    /\ conn \in {"open", "closed"}
    /\ {peer, stdout} \subseteq {"none", "open", "closed"}
    /\ received \in Seq(Pieces) /\ buffered \in Seq(Pieces)
    /\ answers \in Seq(Pieces) /\ toTarget \in Seq(Pieces)
    /\ toClient \in Seq(Pieces \cup {Established} \cup Codes)
    /\ clientSent \in 0..MaxSent /\ targetSent \in 0..MaxSent
    /\ {clientEnd, targetEnd} \subseteq {"open", "half", "gone"}
    /\ {outbound, inbound} \subseteq {"none", "copy", "done"}
    /\ stage = "relay" => peer # "none"

Init ==
    /\ kind \in Kinds /\ authRequired \in BOOLEAN
    /\ stage = IF kind \in Http THEN "request" ELSE "dial"
    /\ credentials \in {"none", "undecodable", "unsplit", "wrong", "right"}
    /\ conn = "open" /\ peer = "none" /\ stdout = "none"
    /\ received = IF kind \in Http THEN <<Request>> ELSE <<>>
    /\ buffered = <<>> /\ answers = <<>>
    /\ toClient = <<>> /\ toTarget = <<>>
    /\ clientSent = 0 /\ targetSent = 0
    /\ clientEnd = "open" /\ targetEnd = "open"
    /\ outbound = "none" /\ inbound = "none"

---------------------------------------------------------------------------
(* HTTPServer.serve. *)

(* bufio reads what is there, which may be more than the request.  One that *)
(* is malformed or cut off makes ReadRequest fail.                          *)
ReadRequest ==
    /\ stage = "request"
    /\ \/ /\ \E n \in 1..Len(received) :
                /\ buffered' = SubSeq(received, 2, n)
                /\ received' = SubSeq(received, n + 1, Len(received))
          /\ stage' = "auth"
       \/ /\ stage' = "returned"
          /\ UNCHANGED <<received, buffered>>
    /\ UNCHANGED <<givenVars, conn, peer, stdout, answers, toClient, toTarget, clientSent,
                   targetSent, clientEnd, targetEnd, pumpVars>>

(* The code of a refusal, or 0. *)
AuthenticateCode ==
    CASE ~authRequired                -> 0
      [] credentials = "none"         -> 407
      [] credentials = "undecodable"  -> 406
      [] credentials = "unsplit"      -> 411
      [] credentials = "right"        -> 0
      [] OTHER                        -> 401

(* A bug: the answer is sent, and the request is served all the same. *)
AuthenticateAndGoOn ==
    /\ stage = "auth"
    /\ stage' = "dial"
    /\ toClient' = IF AuthenticateCode = 0 THEN toClient
                                            ELSE Append(toClient, AuthenticateCode)
    /\ UNCHANGED <<givenVars, conn, peer, stdout, buffered, toTarget, wireVars, pumpVars>>

(* After a refusal serve returns, and leaves conn open. *)
Authenticate ==
    /\ stage = "auth"
    /\ IF AuthenticateCode = 0
       THEN stage' = "dial" /\ UNCHANGED toClient
       ELSE stage' = "returned" /\ toClient' = Append(toClient, AuthenticateCode)
    /\ UNCHANGED <<givenVars, conn, peer, stdout, buffered, toTarget, wireVars, pumpVars>>

Relay == outbound' = "copy" /\ inbound' = "copy"

AfterDial == CASE kind = "connect" -> "answer"
               [] kind = "plain" -> "forward"
               [] OTHER -> "relay"

(* A bug: the copying starts before the answer is written. *)
DialAndRelay ==
    /\ stage = "dial"
    /\ peer' = "open"
    /\ stdout' = IF kind = "stdio" THEN "open" ELSE stdout
    /\ stage' = AfterDial
    /\ Relay
    /\ UNCHANGED <<givenVars, conn, buffered, toClient, toTarget, wireVars>>

(* Looking up the name, opening /dev/stdout and dialling may fail.  What is *)
(* open then stays open.                                                   *)
Dial ==
    /\ stage = "dial"
    /\ \/ /\ peer' = "open"
          /\ stdout' = IF kind = "stdio" THEN "open" ELSE stdout
          /\ stage' = AfterDial
          /\ IF kind \in Http THEN UNCHANGED pumpVars ELSE Relay
       \/ /\ stage' = "returned"
          /\ stdout' \in IF kind = "stdio" THEN {"none", "open"} ELSE {stdout}
          /\ UNCHANGED <<peer, pumpVars>>
    /\ UNCHANGED <<givenVars, conn, buffered, toClient, toTarget, wireVars>>

(* A bug: peer is nil, but err is not looked at. *)
RelayRegardless ==
    /\ \/ stage = "answer" /\ clientEnd = "gone"
       \/ stage = "forward" /\ (targetEnd = "gone" \/ clientEnd # "open")
    /\ peer' = "none"
    /\ stage' = "relay" /\ Relay
    /\ UNCHANGED <<givenVars, conn, stdout, buffered, toClient, toTarget, wireVars>>

(* The answer to CONNECT, or the request to its target, cannot be written: *)
(* its writing reads the body, which breaks off if the client ends early.  *)
WriteFails ==
    /\ \/ stage = "answer" /\ clientEnd = "gone"
       \/ stage = "forward" /\ (targetEnd = "gone" \/ clientEnd # "open")
    /\ peer' = "closed"
    /\ stage' = "returned"
    /\ UNCHANGED <<givenVars, conn, stdout, buffered, toClient, toTarget, wireVars, pumpVars>>

StartRelay == stage' = "relay" /\ Relay

(* handleConn *)
WriteEstablished ==
    /\ stage = "answer" /\ clientEnd # "gone"
    /\ toClient' = Append(toClient, Established)
    /\ StartRelay
    /\ UNCHANGED <<givenVars, conn, peer, stdout, buffered, toTarget, wireVars>>

(* handle *)
WriteRequest ==
    /\ stage = "forward" /\ targetEnd # "gone"
    /\ toTarget' = Append(toTarget, Request)
    /\ StartRelay
    /\ UNCHANGED <<givenVars, conn, peer, stdout, buffered, toClient, wireVars>>

---------------------------------------------------------------------------
(* The copying, connForward. *)

(* What inbound writes to. *)
Output == IF kind = "stdio" THEN stdout ELSE conn

CopyOutbound ==
    /\ outbound = "copy" /\ conn = "open" /\ peer = "open"
    /\ received # <<>> /\ targetEnd # "gone"
    /\ received' = Tail(received)
    /\ toTarget' = Append(toTarget, Head(received))
    /\ UNCHANGED <<givenVars, stage, conn, peer, stdout, buffered, answers, toClient,
                   clientSent, targetSent, clientEnd, targetEnd, pumpVars>>

CopyInbound ==
    /\ inbound = "copy" /\ Output = "open" /\ peer = "open"
    /\ answers # <<>> /\ clientEnd # "gone"
    /\ answers' = Tail(answers)
    /\ toClient' = Append(toClient, Head(answers))
    /\ UNCHANGED <<givenVars, stage, conn, peer, stdout, received, buffered, toTarget,
                   clientSent, targetSent, clientEnd, targetEnd, pumpVars>>

(* A read ends at the end of file, at a broken connection, or because the   *)
(* other goroutine closed it; a write fails when there is something to write. *)
(* What a command wrote before it ended can still be read from its pipe.   *)
OutboundEnds ==
    \/ conn = "closed"
    \/ clientEnd # "open" /\ received = <<>>
    \/ clientEnd = "gone" /\ kind # "stdio"
    \/ received # <<>> /\ (peer = "closed" \/ targetEnd = "gone")

InboundEnds ==
    \/ peer = "closed" \/ targetEnd = "gone"
    \/ targetEnd = "half" /\ answers = <<>>
    \/ answers # <<>> /\ (Output = "closed" \/ clientEnd = "gone")

EndOutbound == outbound = "copy" /\ OutboundEnds /\ outbound' = "done" /\ UNCHANGED inbound
EndInbound == inbound = "copy" /\ InboundEnds /\ inbound' = "done" /\ UNCHANGED outbound

CloseOutput ==
    IF kind = "stdio" THEN stdout' = "closed" /\ UNCHANGED conn
                      ELSE conn' = "closed" /\ UNCHANGED stdout

(* A bug: the connection that was read from stays open. *)
CloseWrittenTo ==
    /\ \/ EndOutbound /\ peer' = "closed" /\ UNCHANGED <<conn, stdout>>
       \/ EndInbound /\ CloseOutput /\ UNCHANGED peer
    /\ UNCHANGED <<givenVars, stage, buffered, toClient, toTarget, wireVars>>

(* A bug: at the end of a file the other direction is left to itself. *)
CloseBothOnError ==
    /\ EndOutbound \/ EndInbound
    /\ IF "gone" \in {clientEnd, targetEnd}
       THEN conn' = "closed" /\ peer' = "closed" /\ UNCHANGED stdout
       ELSE UNCHANGED <<conn, peer, stdout>>
    /\ UNCHANGED <<givenVars, stage, buffered, toClient, toTarget, wireVars>>

(* A direction that ends closes what it reads and what it writes. *)
CloseBoth ==
    /\ peer' = "closed"
    /\ \/ EndOutbound /\ conn' = "closed" /\ UNCHANGED stdout
       \/ EndInbound /\ CloseOutput
    /\ UNCHANGED <<givenVars, stage, buffered, toClient, toTarget, wireVars>>

---------------------------------------------------------------------------
(* The two ends. *)

ClientSends ==
    /\ conn = "open" /\ clientEnd = "open" /\ clientSent < MaxSent
    /\ clientSent' = clientSent + 1
    /\ received' = Append(received, clientSent')
    /\ UNCHANGED <<givenVars, stage, conn, peer, stdout, buffered, answers, toClient,
                   toTarget, targetSent, clientEnd, targetEnd, pumpVars>>

TargetSends ==
    /\ peer = "open" /\ targetEnd = "open" /\ targetSent < MaxSent
    /\ targetSent' = targetSent + 1
    /\ answers' = Append(answers, targetSent')
    /\ UNCHANGED <<givenVars, stage, conn, peer, stdout, received, buffered, toClient,
                   toTarget, clientSent, clientEnd, targetEnd, pumpVars>>

ClientEnds ==
    /\ \/ clientEnd = "open" /\ clientEnd' \in {"half", "gone"}
       \/ clientEnd = "half" /\ clientEnd' = "gone"
    /\ UNCHANGED <<givenVars, stage, conn, peer, stdout, received, buffered, answers,
                   toClient, toTarget, clientSent, targetSent, targetEnd, pumpVars>>

TargetEnds ==
    /\ peer # "none"
    /\ \/ targetEnd = "open" /\ targetEnd' \in {"half", "gone"}
       \/ targetEnd = "half" /\ targetEnd' = "gone"
    /\ UNCHANGED <<givenVars, stage, conn, peer, stdout, received, buffered, answers,
                   toClient, toTarget, clientSent, targetSent, clientEnd, pumpVars>>

Serve ==
    \/ ReadRequest \/ Authenticate \/ Dial
    \/ WriteFails \/ WriteEstablished \/ WriteRequest

Ends == ClientSends \/ TargetSends \/ ClientEnds \/ TargetEnds

Next == Serve \/ CopyOutbound \/ CopyInbound \/ CloseBoth \/ Ends

Spec == Init /\ [][Next]_vars

(* Goroutines are scheduled, and a write does not block: an end that is not *)
(* gone takes what it is sent.  Nothing else is asked of the two ends.      *)
Fairness ==
    /\ WF_vars(Serve)
    /\ WF_vars(CopyOutbound) /\ WF_vars(CopyInbound) /\ WF_vars(CloseBoth)

FairSpec == Spec /\ Fairness

---------------------------------------------------------------------------
(* Properties. *)

UpTo(n) == [i \in 1..n |-> i]

(* What the target gets is the request, if it was made for one, and what    *)
(* the client sent then, in order and without a gap, but for what the       *)
(* bufio.Reader of serve took in with the request: that alone is lost.      *)
(* What the client gets is the answer to its request first and then what    *)
(* the target sent, in order.                                               *)
ForwardedInOrder ==
    /\ IF kind = "plain"
       THEN toTarget # <<>> => /\ Head(toTarget) = Request
                               /\ IsPrefix(buffered \o Tail(toTarget), UpTo(clientSent))
       ELSE IsPrefix(buffered \o toTarget, UpTo(clientSent))
    /\ \/ stage = "returned"
       \/ IsPrefix(toClient,
            IF kind = "connect" THEN <<Established>> \o UpTo(targetSent)
                                ELSE UpTo(targetSent))

(* Nothing is dialled for a client that was refused, and nothing more is    *)
(* sent to it.                                                              *)
RefusedIsNotServed ==
    (\E i \in DOMAIN toClient : toClient[i] \in Codes) =>
        /\ stage = "returned" /\ peer = "none"
        /\ toTarget = <<>> /\ Len(toClient) = 1

(* No connection to a target outlives the copying: one that serve gave up   *)
(* is closed, and when a direction ended it is, with both ends of that      *)
(* direction; but for standard input, which only its own reader closes, no  *)
(* end is then open at all.                                                 *)
NothingLeftOpen ==
    /\ stage = "returned" => peer # "open"
    /\ (outbound = "done" \/ inbound = "done") =>
          peer = "closed" /\ (conn = "closed" \/ kind = "stdio")
    /\ outbound = "done" => conn = "closed"
    /\ inbound = "done" => Output = "closed"

(* Once either end stops sending, the relay comes to its end: both          *)
(* goroutines, and with them all that is open.  When the target of a STDIO  *)
(* tunnel does, standard output is closed; the other goroutine still waits  *)
(* for its input to end.                                                    *)
RelayEnds ==
    /\ (stage = "relay" /\ (clientEnd # "open" \/ (targetEnd # "open" /\ kind # "stdio")))
          ~> (outbound = "done" /\ inbound = "done")
    /\ (stage = "relay" /\ targetEnd # "open") ~> inbound = "done"

=============================================================================
