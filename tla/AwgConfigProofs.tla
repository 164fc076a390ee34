-------------------------- MODULE AwgConfigProofs --------------------------
(***************************************************************************)
(* For every section and every width of a magic header: what reaches the   *)
(* device says what the section says, and its headers tell the four kinds  *)
(* of packets apart.                                                       *)
(***************************************************************************)
EXTENDS AwgConfig, TLAPS

\* What was read, checked and sent so far; enough to be inductive, since the
\* section never changes and config and request are functions of it.
ConfigInv ==
    /\ IsSection(section)
    /\ phase \in {"parse", "validate", "accepted", "sent", "refused"}
    /\ phase \in {"validate", "accepted", "sent"} =>
          Readable(section) /\ config = ParsedSection(section)
    /\ phase \in {"accepted", "sent"} => Valid
    /\ phase = "sent" => request = Lines

\* Each of the three steps keeps it.
LEMMA ConfigStep == ConfigInv /\ [Next]_vars => ConfigInv'
<1> SUFFICES ASSUME ConfigInv, [Next]_vars PROVE ConfigInv'
  OBVIOUS
<1>1. CASE ParseASecConfig
  BY <1>1 DEF ConfigInv, ParseASecConfig
<1>2. CASE ValidateASecConfig
  <2>1. UNCHANGED <<section, config, request>> /\ phase = "validate"
        /\ phase' = IF Valid THEN "accepted" ELSE "refused"
    BY <1>2 DEF ValidateASecConfig
  <2>2. Valid' = Valid
    BY <2>1 DEF Valid, Given, JunkInRange, PacketSizesDiffer, PacketSize,
                IntervalsInvalid, HasOverlappingHeaderIntervals,
                EffectiveHeaderIntervals
  <2> QED
    BY <2>1, <2>2 DEF ConfigInv
<1>3. CASE CreateIPCRequest
  <2>1. UNCHANGED <<section, config>> /\ phase = "accepted" /\ phase' = "sent"
        /\ request' = Lines
    BY <1>3 DEF CreateIPCRequest
  <2>2. Valid' = Valid /\ Lines' = Lines
    BY <2>1 DEF Valid, Given, JunkInRange, PacketSizesDiffer, PacketSize,
                IntervalsInvalid, HasOverlappingHeaderIntervals,
                EffectiveHeaderIntervals, Lines
  <2> QED
    BY <2>1, <2>2 DEF ConfigInv
<1>4. CASE UNCHANGED vars
  <2>1. UNCHANGED <<section, config, request, phase>>
    BY <1>4 DEF vars
  <2>2. Valid' = Valid /\ Lines' = Lines
    BY <2>1 DEF Valid, Given, JunkInRange, PacketSizesDiffer, PacketSize,
                IntervalsInvalid, HasOverlappingHeaderIntervals,
                EffectiveHeaderIntervals, Lines
  <2> QED
    BY <2>1, <2>2 DEF ConfigInv
<1> QED
  BY <1>1, <1>2, <1>3, <1>4 DEF Next

\* So it holds of every reachable state.
THEOREM ConfigInvariant == Spec => []ConfigInv
<1>1. Init => ConfigInv
  BY AwgAssumption DEF Init, Unread, ConfigInv
<1> QED
  BY <1>1, ConfigStep, PTL DEF Spec

---------------------------------------------------------------------------
\* A header that was read is an interval of numbers of the header's width.
LEMMA HeaderRead ==
    ASSUME IsSection(section), Readable(section), config = ParsedSection(section),
           NEW k \in HeaderKeys
    PROVE  /\ Given(k) <=> section[k] # Absent
           /\ Given(k) => /\ config[k] = HeaderInterval(section[k])
                          /\ config[k].min \in 0..MaxHeader
                          /\ config[k].max \in config[k].min..MaxHeader
<1>1. k \in Keys /\ k \notin NumberKeys
  BY DEF Keys, HeaderKeys, NumberKeys, JunkKeys, SizeKeys
<1>2. config[k] = IF section[k] # Absent THEN HeaderInterval(section[k]) ELSE section[k]
  BY <1>1 DEF ParsedSection
<1>3. CASE section[k] = Absent
  BY <1>2, <1>3 DEF Given
<1>4. CASE section[k] # Absent
  <2> DEFINE parts == section[k]
  <2>1. parts \in Seq(Nat \cup {NotANumber}) /\ IsRange(parts)
    BY <1>4 DEF IsSection, Readable
  <2>2. Len(parts) \in 1..2 /\ 1 \in DOMAIN parts /\ Len(parts) \in DOMAIN parts
    BY <2>1 DEF IsRange
  <2>3. parts[1] \in Nat /\ parts[Len(parts)] \in Nat
    BY <2>1, <2>2 DEF IsRange, IsHeader
  <2>4. parts[1] <= parts[Len(parts)] /\ parts[Len(parts)] <= MaxHeader
    BY <2>1, <2>2 DEF IsRange, IsHeader
  <2>5. config[k] = [min |-> parts[1], max |-> parts[Len(parts)]]
    BY <1>2, <1>4 DEF HeaderInterval
  <2>6. config[k] # Absent
    BY <2>3, <2>4, <2>5, AwgAssumption
  <2> QED
    BY <1>2, <1>4, <2>3, <2>4, <2>5, <2>6, AwgAssumption DEF Given
<1> QED
  BY <1>3, <1>4

\* What is in the request of a header is what was read of it.
LEMMA HeaderSent ==
    ASSUME ConfigInv, phase = "sent", NEW k \in HeaderKeys
    PROVE  Headers(k) = EffectiveHeaderIntervals[k].min..EffectiveHeaderIntervals[k].max
<1>1. /\ Given(k) <=> section[k] # Absent
      /\ Given(k) => /\ config[k].min \in 0..MaxHeader
                     /\ config[k].max \in config[k].min..MaxHeader
  BY HeaderRead DEF ConfigInv
<1>2. request = Lines /\ k \in Keys
  BY DEF ConfigInv, Keys
<1>3. CASE Given(k)
  <2>1. k \in DOMAIN request /\ request[k] = FormatMagicHeaderInterval(config[k])
    BY <1>2, <1>3 DEF Lines
  <2>2. EffectiveHeaderIntervals[k] = config[k]
    BY <1>3 DEF EffectiveHeaderIntervals
  <2>3. CASE config[k].min = config[k].max
    BY <2>1, <2>2, <2>3 DEF Headers, FormatMagicHeaderInterval
  <2>4. CASE config[k].min # config[k].max
    BY <2>1, <2>2, <2>4 DEF Headers, FormatMagicHeaderInterval
  <2> QED
    BY <2>3, <2>4
<1>4. CASE ~Given(k)
  <2>1. k \notin DOMAIN request
    BY <1>2, <1>4 DEF Lines
  <2>2. DefaultHeader[k] \in Int
    BY DEF HeaderKeys, DefaultHeader
  <2>3. EffectiveHeaderIntervals[k] = [min |-> DefaultHeader[k], max |-> DefaultHeader[k]]
    BY <1>4 DEF EffectiveHeaderIntervals
  <2> QED
    BY <2>1, <2>2, <2>3 DEF Headers
<1> QED
  BY <1>3, <1>4

\* Both ends of an interval in force are numbers, in order.
LEMMA IntervalsInOrder ==
    ASSUME ConfigInv, phase = "sent", NEW k \in HeaderKeys
    PROVE  /\ EffectiveHeaderIntervals[k].min \in Nat
           /\ EffectiveHeaderIntervals[k].max \in Nat
           /\ EffectiveHeaderIntervals[k].min <= EffectiveHeaderIntervals[k].max
<1>1. Given(k) => /\ config[k].min \in 0..MaxHeader
                  /\ config[k].max \in config[k].min..MaxHeader
  BY HeaderRead DEF ConfigInv
<1>2. DefaultHeader[k] \in Nat
  BY DEF HeaderKeys, DefaultHeader
<1>3. CASE Given(k)
  <2>1. EffectiveHeaderIntervals[k] = config[k]
    BY <1>3 DEF EffectiveHeaderIntervals
  <2> QED
    BY <1>1, <1>3, <2>1, AwgAssumption
<1>4. CASE ~Given(k)
  <2>1. EffectiveHeaderIntervals[k] = [min |-> DefaultHeader[k], max |-> DefaultHeader[k]]
    BY <1>4 DEF EffectiveHeaderIntervals
  <2> QED
    BY <1>2, <2>1
<1> QED
  BY <1>3, <1>4

\* No two intervals of an accepted configuration have a number in common;
\* with no parameter given they are the defaults.
LEMMA ValidIntervalsDisjoint ==
    ASSUME ConfigInv, phase = "sent",
           NEW k \in HeaderKeys, NEW l \in HeaderKeys, k # l
    PROVE  ~Overlap(EffectiveHeaderIntervals[k], EffectiveHeaderIntervals[l])
<1> DEFINE intervals == EffectiveHeaderIntervals
           order == [H1 |-> 1, H2 |-> 2, H3 |-> 3, H4 |-> 4]
<1>1. Valid
  BY DEF ConfigInv
<1>2. CASE \A key \in Keys : ~Given(key)
  <2>1. k \in Keys /\ l \in Keys
    BY DEF Keys
  <2>2. /\ intervals[k] = [min |-> DefaultHeader[k], max |-> DefaultHeader[k]]
        /\ intervals[l] = [min |-> DefaultHeader[l], max |-> DefaultHeader[l]]
    BY <1>2, <2>1 DEF EffectiveHeaderIntervals
  <2>3. DefaultHeader[k] \in Nat /\ DefaultHeader[l] \in Nat
        /\ DefaultHeader[k] # DefaultHeader[l]
    BY DEF HeaderKeys, DefaultHeader
  <2> QED
    BY <2>2, <2>3 DEF Overlap
<1>3. CASE ~HasOverlappingHeaderIntervals
  <2>1. DOMAIN intervals = HeaderKeys
    BY DEF EffectiveHeaderIntervals
  <2>2. \A a, b \in HeaderKeys :
            order[a] < order[b] => ~Overlap(intervals[a], intervals[b])
    BY <1>3, <2>1 DEF HasOverlappingHeaderIntervals
  <2>3. order[k] < order[l] \/ order[l] < order[k]
    BY DEF HeaderKeys
  <2>4. Overlap(intervals[k], intervals[l]) <=> Overlap(intervals[l], intervals[k])
    BY DEF Overlap
  <2> QED
    BY <2>2, <2>3, <2>4
<1> QED
  BY <1>1, <1>2, <1>3 DEF Valid

\* The paddings in a request are those that were compared.
LEMMA GivenSizesDiffer ==
    ASSUME ConfigInv, phase = "sent", NEW k \in SizeKeys \cap DOMAIN request,
           NEW l \in SizeKeys \cap DOMAIN request, k # l
    PROVE  BaseSize[k] + request[k] # BaseSize[l] + request[l]
<1>1. Valid /\ request = Lines
  BY DEF ConfigInv
<1>2. /\ k \in Keys /\ l \in Keys /\ k \notin HeaderKeys /\ l \notin HeaderKeys
  BY DEF Keys, NumberKeys, SizeKeys, HeaderKeys
<1>3. /\ Given(k) /\ request[k] = config[k]
      /\ Given(l) /\ request[l] = config[l]
  BY <1>1, <1>2 DEF Lines
<1>4. PacketSizesDiffer
  BY <1>1, <1>2, <1>3 DEF Valid
<1> QED
  BY <1>3, <1>4 DEF PacketSizesDiffer, PacketSize

\* What was read, checked and sent leaves the kinds of packets apart.
LEMMA KindsApart == ConfigInv => KindsStayApart
<1> SUFFICES ASSUME ConfigInv, phase = "sent" PROVE KindsStayApart
  BY DEF KindsStayApart
<1>1. ASSUME NEW k \in HeaderKeys PROVE Headers(k) # {}
  <2>1. EffectiveHeaderIntervals[k].min \in Headers(k)
    BY HeaderSent, IntervalsInOrder
  <2> QED
    BY <2>1
<1>2. ASSUME NEW k \in HeaderKeys, NEW l \in HeaderKeys, k # l
      PROVE  Headers(k) \cap Headers(l) = {}
  <2> DEFINE left == EffectiveHeaderIntervals[k]
             right == EffectiveHeaderIntervals[l]
  <2>1. Headers(k) = left.min..left.max /\ Headers(l) = right.min..right.max
    BY HeaderSent
  <2>2. left.min \in Nat /\ left.max \in Nat /\ right.min \in Nat /\ right.max \in Nat
    BY IntervalsInOrder
  <2>3. ~(left.min <= right.max /\ right.min <= left.max)
    BY <1>2, ValidIntervalsDisjoint DEF Overlap
  <2> HIDE DEF left, right
  <2> QED
    BY <2>1, <2>2, <2>3
<1>3. ASSUME NEW k \in SizeKeys \cap DOMAIN request,
             NEW l \in SizeKeys \cap DOMAIN request, k # l
      PROVE  BaseSize[k] + request[k] # BaseSize[l] + request[l]
  BY <1>3, GivenSizesDiffer
<1> QED
  BY <1>1, <1>2, <1>3 DEF KindsStayApart

\* What was read, checked and sent says what the section says.
LEMMA RequestTrue == ConfigInv => RequestSaysWhatSectionSays
<1> SUFFICES ASSUME ConfigInv, phase = "sent" PROVE RequestSaysWhatSectionSays
  BY DEF RequestSaysWhatSectionSays
<1>1. /\ IsSection(section) /\ Readable(section)
      /\ config = ParsedSection(section) /\ request = Lines
  BY DEF ConfigInv
<1>2. ASSUME NEW k \in Keys PROVE Given(k) <=> section[k] # Absent
  <2>1. CASE k \in HeaderKeys
    BY <1>1, <2>1, HeaderRead
  <2>2. CASE k \notin HeaderKeys
    BY <1>1, <2>2 DEF ParsedSection, Given
  <2> QED
    BY <2>1, <2>2
<1>3. DOMAIN request = {k \in Keys : section[k] # Absent}
  BY <1>1, <1>2 DEF Lines
<1>4. ASSUME NEW k \in DOMAIN request, k \in HeaderKeys
      PROVE  IsRange(request[k]) /\ HeaderInterval(request[k]) = HeaderInterval(section[k])
  <2>1. Given(k) /\ request[k] = FormatMagicHeaderInterval(config[k])
    BY <1>1, <1>2, <1>3, <1>4 DEF Lines
  <2> DEFINE interval == HeaderInterval(section[k])
  <2>2. config[k] = interval /\ interval.min \in 0..MaxHeader
        /\ interval.max \in interval.min..MaxHeader
    BY <1>1, <1>4, <2>1, HeaderRead
  <2>3. interval = [min |-> interval.min, max |-> interval.max]
    BY DEF HeaderInterval
  <2>4. interval.min # NotANumber /\ interval.max # NotANumber
    BY <2>2, AwgAssumption
  <2>5. CASE interval.min = interval.max
    <3>1. request[k] = <<interval.min>>
      BY <2>1, <2>2, <2>5 DEF FormatMagicHeaderInterval
    <3> HIDE DEF interval
    <3>2. IsRange(request[k])
      BY <3>1, <2>2, <2>4, AwgAssumption DEF IsRange, IsHeader
    <3>3. HeaderInterval(request[k]) = [min |-> interval.min, max |-> interval.max]
      BY <3>1, <2>5 DEF HeaderInterval
    <3> QED
      BY <3>2, <3>3, <2>3 DEF interval
  <2>6. CASE interval.min # interval.max
    <3>1. request[k] = <<interval.min, interval.max>>
      BY <2>1, <2>2, <2>6 DEF FormatMagicHeaderInterval
    <3> HIDE DEF interval
    <3>2. IsRange(request[k])
      BY <3>1, <2>2, <2>4, AwgAssumption DEF IsRange, IsHeader
    <3>3. HeaderInterval(request[k]) = [min |-> interval.min, max |-> interval.max]
      BY <3>1 DEF HeaderInterval
    <3> QED
      BY <3>2, <3>3, <2>3 DEF interval
  <2> QED
    BY <2>5, <2>6
<1>5. ASSUME NEW k \in DOMAIN request, k \notin HeaderKeys
      PROVE  request[k] = section[k]
  BY <1>1, <1>3, <1>5 DEF Lines, ParsedSection
<1> QED
  BY <1>3, <1>4, <1>5 DEF RequestSaysWhatSectionSays

\* What was read is well typed.
LEMMA ConfigTyped == ConfigInv => TypeOK
<1> SUFFICES ASSUME ConfigInv PROVE TypeOK
  OBVIOUS
<1>1. ASSUME phase \in {"validate", "accepted", "sent"}
      PROVE  /\ DOMAIN config = Keys
             /\ \A k \in NumberKeys : config[k] \in Int \cup {Absent}
             /\ \A k \in HeaderKeys : Given(k) =>
                   config[k].min \in 0..MaxHeader /\ config[k].max \in config[k].min..MaxHeader
  <2>1. IsSection(section) /\ Readable(section) /\ config = ParsedSection(section)
    BY <1>1 DEF ConfigInv
  <2>2. \A k \in NumberKeys : k \in Keys /\ k \notin HeaderKeys
    BY DEF Keys, NumberKeys, JunkKeys, SizeKeys, HeaderKeys
  <2>3. \A k \in NumberKeys : config[k] = section[k]
    BY <2>1, <2>2 DEF ParsedSection
  <2>4. \A k \in NumberKeys : config[k] \in Int \cup {Absent}
    BY <2>1, <2>3 DEF IsSection, Readable
  <2>5. DOMAIN config = Keys
    BY <2>1 DEF ParsedSection
  <2> QED
    BY <2>1, <2>4, <2>5, HeaderRead
<1>2. phase = "sent" => DOMAIN request \subseteq Keys
  BY DEF ConfigInv, Lines
<1> QED
  BY <1>1, <1>2 DEF ConfigInv, TypeOK

\* Every header a device may put into a packet, or accept in one, belongs to
\* one kind of packet, and so does the size of a packet of a kind whose padding
\* was given (collectEffectiveHeaderIntervals, hasOverlappingHeaderIntervals).
THEOREM KindsUnambiguous == Spec => []KindsStayApart
<1> QED
  BY KindsApart, ConfigInvariant, PTL

\* CreateIPCRequest writes down every key that was given and no other, and a
\* range that is read back is the range that was written.
THEOREM RequestFaithful == Spec => []RequestSaysWhatSectionSays
<1> QED
  BY RequestTrue, ConfigInvariant, PTL

=============================================================================
