----------------------------- MODULE HealthProofs -----------------------------
(***************************************************************************)
(* Theorems about Health: any addresses, any interval, a clock as fine as  *)
(* one likes.                                                              *)
(***************************************************************************)
EXTENDS Health, TLAPS

-----------------------------------------------------------------------------
(* The age of a record, and of what it stands for.                         *)

\* The ping that was answered is at most one wait for a reply older than the
\* record of its pong.
HeardInv == \A a \in Addresses : heardAge[a] <= recordAge[a] + Deadline

\* /readyz has seen no stale record among those it has read: no time passes
\* while it reads, and a record that is replaced gets younger.
ReadInv ==
    /\ response = "reading" => \A a \in Addresses \ unread : ~Stale(a)
    /\ response = "ready" => \A a \in Addresses : ~Stale(a)

-----------------------------------------------------------------------------
(* The rounds of the loop.                                                 *)

\* Since the last round began.
Elapsed == Deadline - due

Waiting(a) == \E p \in pings : p.to = a

\* Every ping is of the last round, or of the one before and about to expire;
\* a tunnel that works has answered in time.
PingsOnTime ==
    \A p \in pings :
        /\ p.age = Elapsed \/ (p.age = Deadline /\ due = Deadline)
        /\ up[p.to] => p.age <= MaxLatency

\* An address reached all the time has its record from this round, or waits for
\* this round's pong and has one from the round before; the clock's fraction of
\* a second is added to it.
RecordsOnTime ==
    \A a \in Addresses :
        steady[a] => /\ up[a]
                     /\ recordAge[a] < Elapsed + Ticks + (IF Waiting(a) THEN Deadline ELSE 0)

SteadyIsFresh == \A a \in Addresses : steady[a] => ~Stale(a)

-----------------------------------------------------------------------------
(* Sizes and types.                                                        *)

\* How the limits compare.
LEMMA Sizes ==
    /\ Ticks \in Nat \ {0} /\ Deadline \in Nat \ {0} /\ Threshold \in Nat
    /\ Threshold = Deadline + Ticks + Ticks
    /\ Oldest = Threshold + 1 /\ Forgotten = Threshold + Deadline + 1
    /\ MaxLatency \in Nat /\ MaxLatency <= Deadline
<1>1. Interval \in Nat \ {0} /\ Ticks \in Nat \ {0} /\ MaxLatency \in 0..Interval * Ticks
  BY HealthAssumption
<1>2. Interval * Ticks \in Nat \ {0}
  BY <1>1
<1>3. (Interval + 2) * Ticks = Interval * Ticks + Ticks + Ticks
  BY <1>1
<1> QED BY <1>1, <1>2, <1>3 DEF Deadline, Threshold, Oldest, Forgotten

\* An age grows by a tick up to its limit.
LEMMA OlderFacts ==
    ASSUME NEW limit \in Nat, NEW age \in 0..limit
    PROVE  /\ Older(age, limit) \in 0..limit
           /\ Older(age, limit) = age + 1 \/ (Older(age, limit) = limit /\ age = limit)
  BY DEF Older

Ages ==
    /\ recordAge \in [Addresses -> 0..Oldest]
    /\ heardAge \in [Addresses -> 0..Forgotten]
Loop ==
    /\ fraction \in 0..Ticks - 1
    /\ due \in 0..Deadline
    /\ pings \subseteq [to : Addresses, age : 0..Deadline]
World ==
    /\ {up, steady} \subseteq [Addresses -> BOOLEAN]
    /\ unread \subseteq Addresses
    /\ response \in {"none", "reading", "ready", "unavailable"}
    /\ crashed \in BOOLEAN

LEMMA TypesTogether == TypeOK <=> Ages /\ Loop /\ World
  BY DEF TypeOK, Ages, Loop, World

\* A full second makes a new fraction, a tick one more.
LEMMA NextFraction ==
    ASSUME fraction \in 0..Ticks - 1
    PROVE  (fraction + 1) % Ticks \in 0..Ticks - 1
<1>1. Ticks \in Nat \ {0} /\ fraction + 1 \in Nat
  BY Sizes
<1> QED BY <1>1

\* Every step keeps the types.
LEMMA StepTypeOK == TypeOK /\ [Next]_vars => TypeOK'
<1> SUFFICES ASSUME TypeOK, [Next]_vars PROVE Ages' /\ Loop' /\ World'
  BY TypesTogether DEF TypeOK, Ages, Loop, World
<1> USE Sizes
<1>0. Ages /\ Loop /\ World
  BY TypesTogether
<1>1. CASE PingIPs
  <2>1. PICK failed \in SUBSET {a \in Addresses : ~up[a]} :
           pings' = pings \cup {[to |-> a, age |-> 0] : a \in Addresses \ failed}
    BY <1>1 DEF PingIPs
  <2>2. Loop'
    BY <1>0, <1>1, <2>1 DEF PingIPs, Loop
  <2> QED BY <1>0, <1>1, <2>2 DEF PingIPs, requestVars, Ages, World
<1>2. ASSUME NEW p \in pings, Pong(p)
      PROVE  Ages' /\ Loop' /\ World'
  <2>1. p.to \in Addresses /\ p.age \in 0..Deadline
    BY <1>0 DEF Loop
  <2>2. /\ recordAge' = [recordAge EXCEPT ![p.to] = fraction]
        /\ heardAge' = [heardAge EXCEPT ![p.to] = p.age]
        /\ steady' = [steady EXCEPT ![p.to] = TRUE]
        /\ crashed' \in BOOLEAN
        /\ pings' = pings \ {p}
        /\ UNCHANGED <<fraction, due, up, unread, response>>
    BY <1>2 DEF Pong, WritePingRecord, requestVars
  <2>3. fraction \in 0..Oldest /\ p.age \in 0..Forgotten
    BY <1>0, <2>1 DEF Loop
  <2>4. Ages'
    BY <1>0, <2>1, <2>2, <2>3 DEF Ages
  <2>5. Loop'
    BY <1>0, <2>2 DEF Loop
  <2>6. World'
    BY <1>0, <2>1, <2>2 DEF World
  <2> QED BY <2>4, <2>5, <2>6
<1>3. ASSUME NEW p \in pings, NoReply(p)
      PROVE  Ages' /\ Loop' /\ World'
  BY <1>0, <1>3 DEF NoReply, requestVars, Ages, Loop, World
<1>4. CASE ReadyRequest \/ RespondReady \/ \E a \in Addresses : ReadRecord(a)
  <2>1. UNCHANGED <<fraction, due, pings, recordAge, heardAge, up, steady, crashed>>
    BY <1>4 DEF ReadyRequest, RespondReady, ReadRecord
  <2>2. unread' \subseteq Addresses /\ response' \in {"none", "reading", "ready", "unavailable"}
    BY <1>0, <1>4 DEF ReadyRequest, RespondReady, ReadRecord, World
  <2> QED BY <1>0, <2>1, <2>2 DEF Ages, Loop, World
<1>5. CASE TimePasses
  <2>1. /\ fraction' = (fraction + 1) % Ticks /\ due > 0 /\ due' = due - 1
        /\ pings' = {[p EXCEPT !.age = @ + 1] : p \in pings}
        /\ \A p \in pings : p.age # Deadline
        /\ response' = "none" /\ UNCHANGED <<up, steady, unread, crashed>>
    BY <1>5 DEF TimePasses, Expired
  <2>2. fraction' \in 0..Ticks - 1
    BY <1>0, <2>1, NextFraction DEF Loop
  <2>3. pings' \subseteq [to : Addresses, age : 0..Deadline]
    <3>1. ASSUME NEW p \in pings
          PROVE  [p EXCEPT !.age = @ + 1] \in [to : Addresses, age : 0..Deadline]
      BY <1>0, <2>1 DEF Loop
    <3> QED BY <2>1, <3>1
  <2>4. Loop'
    BY <1>0, <2>1, <2>2, <2>3 DEF Loop
  <2>5. Ages'
    <3>1. \A a \in Addresses : Older(recordAge[a], Oldest) \in 0..Oldest
      BY <1>0, OlderFacts DEF Ages
    <3>2. \A a \in Addresses : Older(heardAge[a], Forgotten) \in 0..Forgotten
      BY <1>0, OlderFacts DEF Ages
    <3>3. /\ recordAge' = [a \in Addresses |-> Older(recordAge[a], Oldest)]
          /\ heardAge' = [a \in Addresses |-> Older(heardAge[a], Forgotten)]
      BY <1>5 DEF TimePasses
    <3> QED BY <3>1, <3>2, <3>3 DEF Ages
  <2> QED BY <1>0, <2>1, <2>4, <2>5 DEF World
<1>6. ASSUME NEW a \in Addresses, TunnelChanges(a)
      PROVE  Ages' /\ Loop' /\ World'
  <2>1. /\ up' = [up EXCEPT ![a] = ~@] /\ steady' = [steady EXCEPT ![a] = FALSE]
        /\ UNCHANGED <<fraction, due, pings, recordAge, heardAge, unread, response, crashed>>
    BY <1>6 DEF TunnelChanges, requestVars
  <2>2. up' \in [Addresses -> BOOLEAN] /\ steady' \in [Addresses -> BOOLEAN]
    BY <1>0, <2>1 DEF World
  <2> QED BY <1>0, <2>1, <2>2 DEF Ages, Loop, World
<1>7. CASE UNCHANGED vars
  BY <1>0, <1>7 DEF vars, requestVars, Ages, Loop, World
<1> QED BY <1>1, <1>2, <1>3, <1>4, <1>5, <1>6, <1>7 DEF Next, PingLoop

\* So does the start.
LEMMA InitTypeOK == Init => TypeOK
<1> SUFFICES ASSUME Init PROVE Ages /\ Loop /\ World
  BY TypesTogether
<1>1. Ages
  BY Sizes DEF Init, Ages
<1>2. Loop
  BY Sizes DEF Init, Loop
<1>3. World
  BY DEF Init, World
<1> QED BY <1>1, <1>2, <1>3

\* Every variable stays in its type (TypeOK).
THEOREM TypeCorrect == Spec => []TypeOK
  BY InitTypeOK, StepTypeOK, PTL DEF Spec

-----------------------------------------------------------------------------
(* No stale good news.                                                     *)

\* A pong is recorded with the age of its ping, and both grow together.
LEMMA StepHeard == TypeOK /\ HeardInv /\ [Next]_vars => HeardInv'
<1> SUFFICES ASSUME TypeOK, HeardInv, [Next]_vars, NEW b \in Addresses
             PROVE  heardAge'[b] <= recordAge'[b] + Deadline
  BY DEF HeardInv
<1> USE Sizes
<1>0. /\ recordAge \in [Addresses -> 0..Oldest] /\ heardAge \in [Addresses -> 0..Forgotten]
      /\ heardAge[b] <= recordAge[b] + Deadline
  BY DEF TypeOK, HeardInv
<1>1. ASSUME NEW p \in pings, Pong(p)
      PROVE  heardAge'[b] <= recordAge'[b] + Deadline
  <2>1. /\ recordAge' = [recordAge EXCEPT ![p.to] = fraction]
        /\ heardAge' = [heardAge EXCEPT ![p.to] = p.age]
    BY <1>1 DEF Pong, WritePingRecord
  <2>2. p.age \in 0..Deadline /\ fraction \in Nat
    BY DEF TypeOK
  <2> QED BY <1>0, <2>1, <2>2
<1>2. CASE TimePasses
  <2>1. /\ recordAge'[b] = Older(recordAge[b], Oldest)
        /\ heardAge'[b] = Older(heardAge[b], Forgotten)
    BY <1>2 DEF TimePasses
  <2>2. /\ recordAge'[b] = recordAge[b] + 1 \/ recordAge'[b] = Oldest
        /\ heardAge'[b] \in 0..Forgotten
        /\ heardAge'[b] = heardAge[b] + 1 \/ heardAge'[b] = Forgotten
        /\ heardAge'[b] = Forgotten => heardAge[b] + 1 >= Forgotten
        /\ recordAge[b] \in 0..Oldest /\ heardAge[b] \in 0..Forgotten
    BY <1>0, <2>1 DEF Older
  <2> QED BY <1>0, <2>2
<1>3. CASE UNCHANGED <<recordAge, heardAge>>
  BY <1>0, <1>3
<1>4. \/ UNCHANGED <<recordAge, heardAge>> \/ TimePasses
      \/ \E p \in pings : Pong(p)
  BY DEF Next, PingLoop, PingIPs, NoReply, ReadyRequest, RespondReady, ReadRecord, TunnelChanges, vars
<1> QED BY <1>1, <1>2, <1>3, <1>4

\* What /readyz has read does not become stale before it answers.
LEMMA StepRead == TypeOK /\ ReadInv /\ [Next]_vars => ReadInv'
<1> SUFFICES ASSUME TypeOK, ReadInv, [Next]_vars PROVE ReadInv'
  OBVIOUS
<1> USE Sizes
<1>1. ASSUME NEW p \in pings, Pong(p)
      PROVE  ReadInv'
  <2>1. /\ recordAge' = [recordAge EXCEPT ![p.to] = fraction]
        /\ UNCHANGED <<unread, response>>
    BY <1>1 DEF Pong, WritePingRecord, requestVars
  <2>2. fraction \in Nat /\ fraction <= Threshold /\ recordAge \in [Addresses -> 0..Oldest]
    BY DEF TypeOK
  <2>3. \A a \in Addresses : ~(recordAge[a] > Threshold) => ~(recordAge'[a] > Threshold)
    BY <2>1, <2>2
  <2> QED BY <2>1, <2>3 DEF ReadInv, Stale
<1>2. CASE TimePasses
  BY <1>2 DEF TimePasses, ReadInv
<1>3. CASE ReadyRequest \/ RespondReady
  BY <1>3 DEF ReadyRequest, RespondReady, ReadInv, Stale
<1>4. ASSUME NEW a \in Addresses, ReadRecord(a)
      PROVE  ReadInv'
  BY <1>4 DEF ReadRecord, ReadInv, Stale
<1>5. CASE UNCHANGED <<recordAge, unread, response>>
  BY <1>5 DEF ReadInv, Stale
<1>6. \/ UNCHANGED <<recordAge, unread, response>>
      \/ TimePasses \/ ReadyRequest \/ RespondReady
      \/ \E p \in pings : Pong(p)
      \/ \E a \in Addresses : ReadRecord(a)
  BY DEF Next, PingLoop, PingIPs, NoReply, TunnelChanges, vars, requestVars
<1> QED BY <1>1, <1>2, <1>3, <1>4, <1>5, <1>6

\* 200 is no stale good news: every address answered a ping that was sent in the
\* time /readyz allows for (ReadyMeansAnswered).
THEOREM ReadyIsNoOldNews == Spec => []ReadyMeansAnswered
<1> DEFINE Inv == TypeOK /\ HeardInv /\ ReadInv
<1>1. Init => Inv
  <2>1. Init => HeardInv
    BY Sizes DEF Init, HeardInv
  <2>2. Init => ReadInv
    BY DEF Init, ReadInv
  <2>3. Init => TypeOK
    BY InitTypeOK
  <2> QED BY <2>1, <2>2, <2>3
<1>2. Inv /\ [Next]_vars => Inv'
  BY StepTypeOK, StepHeard, StepRead
<1>3. Inv => ReadyMeansAnswered
  <2> SUFFICES ASSUME Inv, response = "ready", NEW a \in Addresses
               PROVE  heardAge[a] <= Threshold + Deadline
    BY DEF ReadyMeansAnswered
  <2>1. recordAge[a] \in Nat /\ heardAge[a] \in Nat /\ ~(recordAge[a] > Threshold)
    BY Sizes DEF TypeOK, ReadInv, Stale
  <2>2. heardAge[a] <= recordAge[a] + Deadline
    BY DEF HeardInv
  <2> QED BY <2>1, <2>2, Sizes
<1> QED BY <1>1, <1>2, <1>3, PTL DEF Spec

-----------------------------------------------------------------------------
(* No false alarm.                                                         *)

\* What a pong, a failed ping or a new round leaves of the pings is on time.
LEMMA StepPings ==
    ASSUME MaxLatency < Deadline
    PROVE  TypeOK /\ PingsOnTime /\ [Next]_vars => PingsOnTime'
<1> SUFFICES ASSUME TypeOK, PingsOnTime, [Next]_vars PROVE PingsOnTime'
  OBVIOUS
<1> USE Sizes
<1>0. /\ due \in 0..Deadline /\ pings \subseteq [to : Addresses, age : 0..Deadline]
      /\ up \in [Addresses -> BOOLEAN]
  BY DEF TypeOK
<1>1. CASE PingIPs
  <2>1. PICK failed \in SUBSET {a \in Addresses : ~up[a]} :
           pings' = pings \cup {[to |-> a, age |-> 0] : a \in Addresses \ failed}
    BY <1>1 DEF PingIPs
  <2>2. due = 0 /\ due' = Deadline /\ UNCHANGED up
    BY <1>1 DEF PingIPs
  <2>3. ASSUME NEW p \in pings
        PROVE  p.age = Deadline /\ (up[p.to] => p.age <= MaxLatency)
    BY <1>0, <2>2 DEF PingsOnTime, Elapsed
  <2>4. \A p \in pings' : /\ p.age = Deadline - due' \/ (p.age = Deadline /\ due' = Deadline)
                          /\ up'[p.to] => p.age <= MaxLatency
    BY <2>1, <2>2, <2>3
  <2> QED BY <2>4 DEF PingsOnTime, Elapsed
<1>2. CASE TimePasses
  <2>1. /\ due > 0 /\ due' = due - 1 /\ UNCHANGED up
        /\ pings' = {[p EXCEPT !.age = @ + 1] : p \in pings}
        /\ \A p \in pings : p.age # Deadline /\ (up[p.to] => p.age < MaxLatency)
    BY <1>2 DEF TimePasses, Expired
  <2>2. ASSUME NEW p \in pings
        PROVE  /\ p.age + 1 = Deadline - due'
               /\ up'[p.to] => p.age + 1 <= MaxLatency
    BY <1>0, <2>1 DEF PingsOnTime, Elapsed
  <2>3. ASSUME NEW r \in pings'
        PROVE  \E p \in pings : r.to = p.to /\ r.age = p.age + 1
    BY <1>0, <2>1
  <2> QED BY <2>2, <2>3 DEF PingsOnTime, Elapsed
<1>3. ASSUME NEW a \in Addresses, TunnelChanges(a)
      PROVE  PingsOnTime'
  <2>1. /\ up' = [up EXCEPT ![a] = ~@] /\ UNCHANGED <<due, pings>>
        /\ up'[a] => \A p \in pings : p.to # a
    BY <1>3 DEF TunnelChanges
  <2>2. \A p \in pings : up'[p.to] => up[p.to]
    BY <1>0, <2>1
  <2> QED BY <2>1, <2>2 DEF PingsOnTime, Elapsed
<1>4. CASE pings' \subseteq pings /\ UNCHANGED <<due, up>>
  BY <1>4 DEF PingsOnTime, Elapsed
<1>5. \/ pings' \subseteq pings /\ UNCHANGED <<due, up>>
      \/ PingIPs \/ TimePasses \/ \E a \in Addresses : TunnelChanges(a)
  BY DEF Next, PingLoop, Pong, NoReply, ReadyRequest, RespondReady, ReadRecord, vars, requestVars
<1> QED BY <1>1, <1>2, <1>3, <1>4, <1>5

\* A record of an address that is reached all the time is from this round, or
\* this round's pong is still awaited.
LEMMA StepRecords ==
    ASSUME MaxLatency < Deadline
    PROVE  TypeOK /\ PingsOnTime /\ RecordsOnTime /\ [Next]_vars => RecordsOnTime'
<1> SUFFICES ASSUME TypeOK, PingsOnTime, RecordsOnTime, [Next]_vars, NEW b \in Addresses, steady'[b]
             PROVE  /\ up'[b]
                    /\ recordAge'[b] < Elapsed' + Ticks + (IF Waiting(b)' THEN Deadline ELSE 0)
  BY DEF RecordsOnTime
<1> USE Sizes
<1>0. /\ due \in 0..Deadline /\ pings \subseteq [to : Addresses, age : 0..Deadline]
      /\ up \in [Addresses -> BOOLEAN] /\ steady \in [Addresses -> BOOLEAN]
      /\ recordAge \in [Addresses -> 0..Oldest] /\ fraction \in 0..Ticks - 1
  BY DEF TypeOK
<1>1. steady[b] => up[b] /\ recordAge[b] < Elapsed + Ticks + (IF Waiting(b) THEN Deadline ELSE 0)
  BY DEF RecordsOnTime
<1>2. CASE PingIPs
  <2>1. PICK failed \in SUBSET {a \in Addresses : ~up[a]} :
           pings' = pings \cup {[to |-> a, age |-> 0] : a \in Addresses \ failed}
    BY <1>2 DEF PingIPs
  <2>2. due = 0 /\ due' = Deadline /\ UNCHANGED <<up, steady, recordAge>>
    BY <1>2 DEF PingIPs
  <2>3. up[b] /\ recordAge[b] < Deadline + Ticks + (IF Waiting(b) THEN Deadline ELSE 0)
    BY <1>1, <2>2 DEF Elapsed
  <2>4. ~Waiting(b)
    BY <1>0, <2>2, <2>3 DEF Waiting, PingsOnTime, Elapsed
  <2>5. Waiting(b)'
    <3>1. [to |-> b, age |-> 0] \in pings'
      BY <2>1, <2>3
    <3> QED BY <3>1 DEF Waiting
  <2>6. Elapsed' = 0
    BY <2>2 DEF Elapsed
  <2> QED BY <1>0, <2>2, <2>3, <2>4, <2>5, <2>6
<1>3. ASSUME NEW p \in pings, Pong(p)
      PROVE  /\ up'[b]
             /\ recordAge'[b] < Elapsed' + Ticks + (IF Waiting(b)' THEN Deadline ELSE 0)
  <2>1. /\ recordAge' = [recordAge EXCEPT ![p.to] = fraction]
        /\ steady' = [steady EXCEPT ![p.to] = TRUE]
        /\ pings' = pings \ {p} /\ up[p.to] /\ UNCHANGED <<due, up>>
    BY <1>3 DEF Pong, WritePingRecord
  <2>2. Elapsed' = Elapsed /\ Elapsed \in Nat
    BY <1>0, <2>1 DEF Elapsed
  <2>3. CASE b = p.to
    <3>1. recordAge'[b] = fraction /\ up'[b]
      BY <1>0, <2>1, <2>3
    <3> QED BY <1>0, <2>2, <3>1
  <2>4. CASE b # p.to
    <3>1. recordAge'[b] = recordAge[b] /\ steady[b] /\ up'[b] = up[b]
      BY <1>0, <2>1, <2>4
    <3>2. Waiting(b) => Waiting(b)'
      BY <2>1, <2>4 DEF Waiting
    <3> QED BY <1>0, <1>1, <2>2, <3>1, <3>2
  <2> QED BY <2>3, <2>4
<1>4. ASSUME NEW p \in pings, NoReply(p)
      PROVE  /\ up'[b]
             /\ recordAge'[b] < Elapsed' + Ticks + (IF Waiting(b)' THEN Deadline ELSE 0)
  <2>1. /\ pings' = pings \ {p} /\ (p.age = Deadline \/ ~up[p.to])
        /\ UNCHANGED <<due, up, steady, recordAge>>
    BY <1>4 DEF NoReply, Expired
  <2>2. ~up[p.to]
    BY <1>0, <2>1 DEF PingsOnTime
  <2>3. b # p.to /\ (Waiting(b) => Waiting(b)')
    BY <1>1, <2>1, <2>2 DEF Waiting
  <2>4. Elapsed' = Elapsed /\ Elapsed \in Nat
    BY <1>0, <2>1 DEF Elapsed
  <2> QED BY <1>0, <1>1, <2>1, <2>3, <2>4
<1>5. CASE TimePasses
  <2>1. /\ due > 0 /\ due' = due - 1 /\ UNCHANGED <<up, steady>>
        /\ pings' = {[p EXCEPT !.age = @ + 1] : p \in pings}
        /\ recordAge'[b] = Older(recordAge[b], Oldest)
    BY <1>5 DEF TimePasses
  <2>2. Elapsed' = Elapsed + 1 /\ Elapsed \in Nat
    BY <1>0, <2>1 DEF Elapsed
  <2>3. recordAge'[b] <= recordAge[b] + 1 /\ recordAge'[b] \in Nat /\ recordAge[b] \in Nat
    BY <1>0, <2>1 DEF Older
  <2>4. Waiting(b) => Waiting(b)'
    <3> SUFFICES ASSUME NEW p \in pings, p.to = b PROVE Waiting(b)'
      BY DEF Waiting
    <3>1. [p EXCEPT !.age = @ + 1] \in pings' /\ [p EXCEPT !.age = @ + 1].to = b
      BY <1>0, <2>1
    <3> QED BY <3>1 DEF Waiting
  <2> QED BY <1>1, <2>1, <2>2, <2>3, <2>4
<1>6. ASSUME NEW a \in Addresses, TunnelChanges(a)
      PROVE  /\ up'[b]
             /\ recordAge'[b] < Elapsed' + Ticks + (IF Waiting(b)' THEN Deadline ELSE 0)
  <2>1. /\ up' = [up EXCEPT ![a] = ~@] /\ steady' = [steady EXCEPT ![a] = FALSE]
        /\ UNCHANGED <<due, pings, recordAge>>
    BY <1>6 DEF TunnelChanges
  <2>2. b # a /\ steady[b] /\ up'[b] = up[b]
    BY <1>0, <2>1
  <2>3. Elapsed' = Elapsed /\ (Waiting(b)' <=> Waiting(b))
    BY <2>1 DEF Elapsed, Waiting
  <2> QED BY <1>1, <2>1, <2>2, <2>3
<1>7. CASE UNCHANGED <<due, pings, recordAge, up, steady>>
  <2>1. Elapsed' = Elapsed /\ (Waiting(b)' <=> Waiting(b))
    BY <1>7 DEF Elapsed, Waiting
  <2> QED BY <1>1, <1>7, <2>1
<1>8. \/ UNCHANGED <<due, pings, recordAge, up, steady>>
      \/ PingIPs \/ TimePasses
      \/ \E p \in pings : Pong(p) \/ NoReply(p)
      \/ \E a \in Addresses : TunnelChanges(a)
  BY DEF Next, PingLoop, ReadyRequest, RespondReady, ReadRecord, vars
<1> QED BY <1>2, <1>3, <1>4, <1>5, <1>6, <1>7, <1>8

\* With replies within a second, and sooner than the next round, 503 is no false
\* alarm: one of the addresses was not reached all the time since a pong
\* (UnavailableForCause).
THEOREM AlarmsHaveACause ==
    ASSUME MaxLatency < Deadline, MaxLatency <= Ticks
    PROVE  Spec => UnavailableForCause
<1> DEFINE Inv == TypeOK /\ PingsOnTime /\ RecordsOnTime
           Cause == response = "reading" /\ response' = "unavailable" => \E a \in Addresses : ~steady[a]
<1>1. Init => Inv
  BY InitTypeOK DEF Init, PingsOnTime, RecordsOnTime
<1>2. Inv /\ [Next]_vars => Inv'
  BY StepTypeOK, StepPings, StepRecords
<1>3. Inv => SteadyIsFresh
  <2> SUFFICES ASSUME Inv, NEW a \in Addresses, steady[a] PROVE ~Stale(a)
    BY DEF SteadyIsFresh
  <2>1. /\ recordAge[a] \in Nat /\ due \in 0..Deadline
        /\ recordAge[a] < (Deadline - due) + Ticks + (IF Waiting(a) THEN Deadline ELSE 0)
        /\ up[a]
    BY DEF RecordsOnTime, TypeOK, Elapsed
  <2>2. Waiting(a) => Deadline - due <= MaxLatency
    BY <2>1, Sizes DEF Waiting, PingsOnTime, Elapsed
  <2> QED BY <2>1, <2>2, Sizes DEF Stale
<1>4. SteadyIsFresh /\ [Next]_vars => Cause
  <2> SUFFICES ASSUME SteadyIsFresh, [Next]_vars, response = "reading", response' = "unavailable"
               PROVE  \E a \in Addresses : ~steady[a]
    OBVIOUS
  <2>1. PICK a \in Addresses : ReadRecord(a)
    BY DEF Next, PingLoop, PingIPs, Pong, NoReply, ReadyRequest, RespondReady, TimePasses, TunnelChanges,
       vars, requestVars
  <2>2. Stale(a)
    BY <2>1 DEF ReadRecord
  <2> QED BY <2>2 DEF SteadyIsFresh
<1>5. Cause => [Cause]_vars
  OBVIOUS
<1> QED BY <1>1, <1>2, <1>3, <1>4, PTL DEF Spec, UnavailableForCause
=============================================================================
