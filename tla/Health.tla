------------------------------- MODULE Health -------------------------------
(***************************************************************************)
(* The health check of wireproxy: the loop that pings the addresses of     *)
(* CheckAlive through the tunnel (StartPingIPs, pingIPs), a goroutine per  *)
(* ping that waits for its reply and writes PingRecord, and GET /readyz    *)
(* (ServeHTTP), which reads PingRecord without the lock, address by        *)
(* address.                                                                *)
(*                                                                         *)
(* Time passes in ticks, Ticks of them a second, and only when nothing is  *)
(* due; what the code computes takes none.  PingRecord holds whole seconds: *)
(* of each record the model keeps its age, counted from the beginning of   *)
(* the second it was made in.  Ages stop where nothing depends on them any *)
(* more.                                                                   *)
(***************************************************************************)
EXTENDS Naturals, FiniteSets

CONSTANTS
    Addresses,     \* CheckAlive
    Interval,      \* CheckAliveInterval, in seconds
    Ticks,         \* of the model's clock in a second
    MaxLatency     \* ticks between a ping and its pong, through a working tunnel

ASSUME HealthAssumption ==
    /\ Interval \in Nat \ {0} /\ Ticks \in Nat \ {0}
    /\ MaxLatency \in 0..Interval * Ticks

VARIABLES
    fraction,      \* ticks since the clock's last full second
    due,           \* ticks until the loop wakes up
    pings,         \* the goroutines that wait: [to, age]
    recordAge,     \* PingRecord
    heardAge,      \* how long ago the ping was sent whose pong was recorded
    up,            \* is an address reached through the tunnel
    steady,        \* has it been since some pong
    unread,        \* addresses /readyz has yet to look at
    response,      \* of /readyz: "none", "reading", "ready" or "unavailable"
    crashed        \* the Go runtime gave up

vars == <<fraction, due, pings, recordAge, heardAge, up, steady, unread,
          response, crashed>>
requestVars == <<unread, response>>

(* A bug: the two seconds are forgotten. *)
NoLeeway == Interval * Ticks

Deadline == Interval * Ticks
Threshold == (Interval + 2) * Ticks
Oldest == Threshold + 1             \* every older record is as good
Forgotten == Threshold + Deadline + 1

TypeOK ==
    /\ fraction \in 0..Ticks - 1
    /\ due \in 0..Deadline
    /\ pings \subseteq [to : Addresses, age : 0..Deadline]
    /\ recordAge \in [Addresses -> 0..Oldest]
    /\ heardAge \in [Addresses -> 0..Forgotten]
    /\ {up, steady} \subseteq [Addresses -> BOOLEAN]
    /\ unread \subseteq Addresses
    /\ response \in {"none", "reading", "ready", "unavailable"}
    /\ crashed \in BOOLEAN

(* StartPingIPs: a record of 0, the beginning of 1970. *)
Init ==
    /\ fraction \in 0..Ticks - 1
    /\ due = 0 /\ pings = {}
    /\ recordAge = [a \in Addresses |-> Oldest]
    /\ heardAge = [a \in Addresses |-> Forgotten]
    /\ up \in [Addresses -> BOOLEAN]
    /\ steady = [a \in Addresses |-> FALSE]
    /\ unread = {} /\ response = "none" /\ crashed = FALSE

---------------------------------------------------------------------------
(* The loop. *)

(* A bug: an address that cannot be pinged ends the round. *)
PingUpToFailure ==
    /\ ~crashed /\ due = 0
    /\ due' = Deadline
    /\ \E failed \in SUBSET {a \in Addresses : ~up[a]} :
          pings' = pings \cup {[to |-> a, age |-> 0] :
                                  a \in IF failed = {} THEN Addresses ELSE {}}
    /\ UNCHANGED <<fraction, recordAge, heardAge, up, steady, requestVars, crashed>>

(* One round: Dial or Write fails for some, the others have a ping waiting. *)
PingIPs ==
    /\ ~crashed /\ due = 0
    /\ due' = Deadline
    /\ \E failed \in SUBSET {a \in Addresses : ~up[a]} :
          pings' = pings \cup {[to |-> a, age |-> 0] : a \in Addresses \ failed}
    /\ UNCHANGED <<fraction, recordAge, heardAge, up, steady, requestVars, crashed>>

(* PingRecord is written while /readyz reads it: the runtime may notice. *)
WritePingRecord(a) ==
    /\ recordAge' = [recordAge EXCEPT ![a] = fraction]
    /\ crashed' \in IF response = "reading" THEN BOOLEAN ELSE {FALSE}

Pong(p) ==
    /\ ~crashed
    /\ p \in pings /\ up[p.to]
    /\ pings' = pings \ {p}
    /\ WritePingRecord(p.to)
    /\ heardAge' = [heardAge EXCEPT ![p.to] = p.age]
    /\ steady' = [steady EXCEPT ![p.to] = TRUE]
    /\ UNCHANGED <<fraction, due, up, requestVars>>

(* A bug: the deadline of the read is never set. *)
NeverExpired(p) == FALSE

Expired(p) == p.age = Deadline

(* A bug: the record is written whatever Read or ParseMessage returned. *)
RecordWithoutReply(p) ==
    /\ ~crashed
    /\ p \in pings /\ (Expired(p) \/ ~up[p.to])
    /\ pings' = pings \ {p}
    /\ WritePingRecord(p.to)
    /\ UNCHANGED <<fraction, due, heardAge, up, steady, requestVars>>

(* No reply in time, or one that is not the reply to this ping. *)
NoReply(p) ==
    /\ ~crashed
    /\ p \in pings /\ (Expired(p) \/ ~up[p.to])
    /\ pings' = pings \ {p}
    /\ UNCHANGED <<fraction, due, recordAge, heardAge, up, steady, requestVars, crashed>>

---------------------------------------------------------------------------
(* GET /readyz. *)

Stale(a) == recordAge[a] > Threshold

ReadyRequest ==
    /\ ~crashed /\ response = "none"
    /\ response' = "reading" /\ unread' = Addresses
    /\ UNCHANGED <<fraction, due, pings, recordAge, heardAge, up, steady, crashed>>

ReadRecord(a) ==
    /\ ~crashed /\ response = "reading" /\ a \in unread
    /\ IF Stale(a) THEN response' = "unavailable" /\ unread' = {}
                   ELSE unread' = unread \ {a} /\ UNCHANGED response
    /\ UNCHANGED <<fraction, due, pings, recordAge, heardAge, up, steady, crashed>>

RespondReady ==
    /\ ~crashed /\ response = "reading" /\ unread = {}
    /\ response' = "ready"
    /\ UNCHANGED <<fraction, due, pings, recordAge, heardAge, up, steady, unread, crashed>>

---------------------------------------------------------------------------
(* The world. *)

Older(age, limit) == IF age < limit THEN age + 1 ELSE limit

(* Replies through a working tunnel are not late, deadlines are kept. *)
TimePasses ==
    /\ due > 0 /\ response # "reading"
    /\ \A p \in pings : ~Expired(p) /\ (up[p.to] => p.age < MaxLatency)
    /\ due' = due - 1
    /\ fraction' = (fraction + 1) % Ticks
    /\ pings' = {[p EXCEPT !.age = @ + 1] : p \in pings}
    /\ recordAge' = [a \in Addresses |-> Older(recordAge[a], Oldest)]
    /\ heardAge' = [a \in Addresses |-> Older(heardAge[a], Forgotten)]
    /\ response' = "none"
    /\ UNCHANGED <<up, steady, unread, crashed>>

(* What a broken tunnel swallowed stays lost. *)
TunnelChanges(a) ==
    /\ up' = [up EXCEPT ![a] = ~@]
    /\ up'[a] => \A p \in pings : p.to # a
    /\ steady' = [steady EXCEPT ![a] = FALSE]
    /\ UNCHANGED <<fraction, due, pings, recordAge, heardAge, requestVars, crashed>>

PingLoop == PingIPs \/ \E p \in pings : Pong(p) \/ NoReply(p)

Next ==
    \/ PingLoop
    \/ ReadyRequest \/ RespondReady \/ \E a \in Addresses : ReadRecord(a)
    \/ TimePasses
    \/ \E a \in Addresses : TunnelChanges(a)

Spec == Init /\ [][Next]_vars

(* Goroutines are scheduled and time passes. *)
Fairness ==
    /\ WF_vars(TimePasses) /\ WF_vars(PingIPs) /\ WF_vars(RespondReady)
    /\ WF_vars(\E p \in pings : Pong(p) \/ NoReply(p))
    /\ WF_vars(\E a \in Addresses : ReadRecord(a))

FairSpec == Spec /\ Fairness

---------------------------------------------------------------------------
(* Properties. *)

(* 200 is no stale good news: every address answered a ping that was sent   *)
(* in the time /readyz allows for, the age of a record and before it the    *)
(* wait for the reply.                                                      *)
ReadyMeansAnswered ==
    response = "ready" => \A a \in Addresses : heardAge[a] <= Threshold + Deadline

(* 503 is no false alarm: one of the addresses was not reached all the time *)
(* since a pong.  With MaxLatency a second, this is as much as the two      *)
(* seconds of leeway give: the other is lost to the rounding of records.    *)
UnavailableForCause ==
    [][(response = "reading" /\ response' = "unavailable")
          => \E a \in Addresses : ~steady[a]]_vars

(* An address that is reached for good is found alive for good, whatever    *)
(* becomes of the others, and one that is lost for good is found dead.      *)
StateIsNoticed ==
    \A a \in Addresses :
        /\ <>[]up[a] => <>(crashed \/ []~Stale(a))
        /\ <>[]~up[a] => <>(crashed \/ []Stale(a))

=============================================================================
