------------------------ MODULE PendingBlocker_proofs ------------------------
(***************************************************************************)
(* PendingBlocker's safety for every number of requests, IPs, spellings,   *)
(* limit, block time and sweep interval.  The argument: a sweep and an     *)
(* expiry change no entry as far as its pending count and a running block  *)
(* are concerned (SweepKeeps, ExpireKeeps), so each call changes the view  *)
(* of one IP only, and the count of that IP moves with its set of holders. *)
(***************************************************************************)
EXTENDS PendingBlocker, FiniteSetTheorems, TLAPS

\* What the clamps in NewIPPendingBlocker establish.
LEMMA ClampedLimits == maxPerIP \in Nat \ {0} /\ blockTTL \in Nat \ {0}
BY LimitAssumption, TimeAssumption DEF maxPerIP, blockTTL

\* A lookup in a well-typed map is an entry, of a present or an absent IP.
LEMMA LookupType ==
  ASSUME NEW E, NEW D \in SUBSET IPs, E \in [D -> Entry], NEW ip
  PROVE  Lookup(E, ip) \in Entry
BY DEF Lookup, zeroEntry, Entry

\* expireEntryLocked keeps the pending count and a running block.
LEMMA ExpireKeeps ==
  ASSUME NEW e \in Entry, NEW now \in Nat
  PROVE  /\ expireEntry(now, e) \in Entry
         /\ expireEntry(now, e).pending = e.pending
         /\ blockedAt(now, expireEntry(now, e)) <=> blockedAt(now, e)
         /\ blockedAt(now, e) => expireEntry(now, e).autoBlockedUntil = e.autoBlockedUntil
         /\ ~blockedAt(now, e) => expireEntry(now, e).autoBlockedUntil = 0
BY DEF expireEntry, blockedAt, Entry

\* Writing one key of the map changes the lookups of that key only.
LEMMA PutLookup ==
  ASSUME NEW E, NEW ip, NEW e, NEW i
  PROVE  Lookup(Put(E, ip, e), i) = IF i = ip THEN e ELSE Lookup(E, i)
BY DEF Put, Lookup

\* Deleting one key makes its lookup the zero entry and changes no other.
LEMMA DeleteLookup ==
  ASSUME NEW E, NEW ip, NEW i
  PROVE  Lookup(Delete(E, ip), i) = IF i = ip THEN zeroEntry ELSE Lookup(E, i)
BY DEF Delete, Lookup

\* Both keep the map well typed.
LEMMA MapTypes ==
  ASSUME NEW E, NEW D \in SUBSET IPs, E \in [D -> Entry],
         NEW ip \in IPs, NEW e \in Entry
  PROVE  /\ \E S \in SUBSET IPs : Put(E, ip, e) \in [S -> Entry]
         /\ \E S \in SUBSET IPs : Delete(E, ip) \in [S -> Entry]
<1>1. D \union {ip} \in SUBSET IPs /\ Put(E, ip, e) \in [D \union {ip} -> Entry]
  BY DEF Put
<1>2. D \ {ip} \in SUBSET IPs /\ Delete(E, ip) \in [D \ {ip} -> Entry]
  BY DEF Delete
<1>. QED BY <1>1, <1>2

\* A sweep keeps every pending count and every running block, and what it
\* resets or drops had no time in the future.
LEMMA SweepKeeps ==
  ASSUME NEW D \in SUBSET IPs, entries \in [D -> Entry], clock \in Nat
  PROVE  /\ \E S \in SUBSET IPs : swept \in [S -> Entry]
         /\ \A i \in IPs :
              /\ Lookup(swept, i).pending = Lookup(entries, i).pending
              /\ blockedAt(clock, Lookup(swept, i)) <=> blockedAt(clock, Lookup(entries, i))
              /\ blockedAt(clock, Lookup(entries, i)) =>
                   Lookup(swept, i).autoBlockedUntil = Lookup(entries, i).autoBlockedUntil
              /\ ~blockedAt(clock, Lookup(entries, i)) =>
                   Lookup(swept, i).autoBlockedUntil <= clock
<1> DEFINE S == {i \in D : ~Dead(clock, entries[i])}
<1>1. CASE sweepDue(clock)
  <2>1. swept = [ip \in S |-> expireEntry(clock, entries[ip])]
    BY <1>1 DEF swept, sweepAll
  <2>2. swept \in [S -> Entry] /\ S \in SUBSET IPs
    BY <2>1, ExpireKeeps
  <2>3. ASSUME NEW i \in IPs, i \in S
        PROVE  Lookup(swept, i) = expireEntry(clock, Lookup(entries, i))
    BY <2>1, <2>3 DEF Lookup
  <2>4. ASSUME NEW i \in IPs, i \notin S
        PROVE  /\ Lookup(swept, i) = zeroEntry
               /\ Lookup(entries, i).pending = 0
               /\ ~blockedAt(clock, Lookup(entries, i))
    BY <2>1, <2>4 DEF Lookup, Dead, zeroEntry, blockedAt
  <2>5. \A i \in IPs : Lookup(entries, i) \in Entry
    BY LookupType
  <2>. HIDE DEF S
  <2>6. ASSUME NEW i \in IPs
        PROVE  /\ Lookup(swept, i).pending = Lookup(entries, i).pending
               /\ blockedAt(clock, Lookup(swept, i)) <=> blockedAt(clock, Lookup(entries, i))
               /\ blockedAt(clock, Lookup(entries, i)) =>
                    Lookup(swept, i).autoBlockedUntil = Lookup(entries, i).autoBlockedUntil
               /\ ~blockedAt(clock, Lookup(entries, i)) =>
                    Lookup(swept, i).autoBlockedUntil <= clock
    <3>1. CASE i \in S
      BY <3>1, <2>3, <2>5, ExpireKeeps
    <3>2. CASE i \notin S
      BY <3>2, <2>4 DEF zeroEntry, blockedAt
    <3>. QED BY <3>1, <3>2
  <2>. QED
    BY <2>2, <2>6
<1>2. CASE ~sweepDue(clock)
  <2>1. swept = entries
    BY <1>2 DEF swept
  <2>. QED
    BY <2>1, LookupType DEF blockedAt, Entry
<1>. QED BY <1>1, <1>2

\* The entry Enter decides on agrees with the map: same count, same block.
LEMMA CurrentKeeps ==
  ASSUME NEW D \in SUBSET IPs, entries \in [D -> Entry], clock \in Nat,
         NEW ip \in IPs
  PROVE  /\ current(ip) \in Entry
         /\ current(ip).pending = Lookup(entries, ip).pending
         /\ blockedAt(clock, current(ip)) <=> blockedAt(clock, Lookup(entries, ip))
         /\ blockedAt(clock, current(ip)) =>
              current(ip).autoBlockedUntil = Lookup(entries, ip).autoBlockedUntil
         /\ ~blockedAt(clock, current(ip)) => current(ip).autoBlockedUntil = 0
<1>1. PICK S \in SUBSET IPs : swept \in [S -> Entry]
  BY SweepKeeps
<1>2. Lookup(swept, ip) \in Entry
  BY <1>1, LookupType
<1>. QED
  BY <1>2, SweepKeeps, ExpireKeeps DEF current

\* Every branch of Enter that writes the map sweeps it and puts one entry:
\* the other IPs keep their counts and their blocks.
LEMMA EnterWrites ==
  ASSUME BlockerInv, ~closed, NEW ip \in IPs, NEW e \in Entry,
         entries' = Put(swept, ip, e), clock' = clock,
         NEW i \in IPs \ {ip}, overflowAt'[i] = overflowAt[i]
  PROVE  /\ Lookup(entries, i)'.pending = Lookup(entries, i).pending
         /\ IF CoolingOff(i)'
              THEN Lookup(entries, i)'.autoBlockedUntil = overflowAt'[i] + blockTTL
              ELSE Lookup(entries, i)'.autoBlockedUntil <= clock'
<1>1. PICK D \in SUBSET IPs : entries \in [D -> Entry]
  BY DEF BlockerInv, TypeOK
<1>2. PICK S \in SUBSET IPs : swept \in [S -> Entry]
  BY <1>1, SweepKeeps DEF BlockerInv, TypeOK
<1>3. Lookup(entries', i) = Lookup(swept, i)
  BY PutLookup
<1>4. Lookup(swept, i).pending = Lookup(entries, i).pending
  BY <1>1, SweepKeeps DEF BlockerInv, TypeOK
<1>5. Lookup(entries, i) \in Entry
  BY <1>1, LookupType
<1>6. IF CoolingOff(i)
        THEN Lookup(swept, i).autoBlockedUntil = overflowAt[i] + blockTTL
        ELSE Lookup(swept, i).autoBlockedUntil <= clock
  <2>1. IF CoolingOff(i)
          THEN Lookup(entries, i).autoBlockedUntil = overflowAt[i] + blockTTL
          ELSE Lookup(entries, i).autoBlockedUntil <= clock
    BY DEF BlockerInv, BlockShape
  <2>2. CoolingOff(i) <=> blockedAt(clock, Lookup(entries, i))
    BY <2>1, <1>5, ClampedLimits DEF CoolingOff, blockedAt, BlockerInv, TypeOK, Entry
  <2>. QED
    BY <2>1, <2>2, <1>1, SweepKeeps DEF BlockerInv, TypeOK
<1>7. CoolingOff(i)' <=> CoolingOff(i)
  BY DEF CoolingOff
<1>. QED
  BY <1>3, <1>4, <1>6, <1>7 DEF Lookup

\* A running block is what the map says it is.
LEMMA ShapeMeansFixed == BlockerInv => BlockIsFixed
<1> SUFFICES ASSUME BlockerInv, ~closed, NEW ip \in IPs
             PROVE  blockedAt(clock, Lookup(entries, ip)) <=> CoolingOff(ip)
  BY DEF BlockIsFixed
<1>1. Lookup(entries, ip) \in Entry
  BY LookupType DEF BlockerInv, TypeOK
<1>. QED
  BY <1>1, ClampedLimits DEF BlockerInv, BlockShape, TypeOK, CoolingOff, blockedAt, Entry

\* The holders of an IP form a finite set.
LEMMA HoldersFinite ==
  ASSUME NEW ip PROVE IsFiniteSet(Holders(ip)) /\ Cardinality(Holders(ip)) \in Nat
BY RequestsFinite, FS_Subset, FS_CardinalityType DEF Holders

\* An answer other than "admitted" to a request that holds no slot leaves
\* every set of holders alone.
LEMMA HoldersKept ==
  ASSUME BlockerInv, NEW r \in Requests, verdict[r] # "admitted",
         NEW v \in Verdicts, v # "admitted",
         NEW ip \in IPs \union {NoIP}, Answer(r, ip, v)
  PROVE  /\ verdict' \in [Requests -> Verdicts]
         /\ from' \in [Requests -> IPs \union {NoIP}]
         /\ \A q \in Requests : verdict'[q] = "admitted" => from'[q] \in IPs
         /\ \A i \in IPs : Holders(i)' = Holders(i)
BY DEF BlockerInv, TypeOK, Answer, Holders

\* An admission adds the request to the holders of its IP and no other.
LEMMA HoldersGain ==
  ASSUME BlockerInv, NEW r \in Requests, verdict[r] = "none",
         NEW ip \in IPs, Answer(r, ip, "admitted")
  PROVE  /\ verdict' \in [Requests -> Verdicts]
         /\ from' \in [Requests -> IPs \union {NoIP}]
         /\ \A q \in Requests : verdict'[q] = "admitted" => from'[q] \in IPs
         /\ \A i \in IPs \ {ip} : Holders(i)' = Holders(i)
         /\ Cardinality(Holders(ip)') = Cardinality(Holders(ip)) + 1
<1>1. Holders(ip)' = Holders(ip) \union {r} /\ r \notin Holders(ip)
  BY DEF BlockerInv, TypeOK, Answer, Holders, Verdicts
<1>2. Cardinality(Holders(ip) \union {r}) = Cardinality(Holders(ip)) + 1
  BY <1>1, HoldersFinite, FS_AddElement
<1>. QED
  BY <1>1, <1>2 DEF BlockerInv, TypeOK, Answer, Holders, Verdicts

\* A release removes the request from the holders of its IP and no other.
LEMMA HoldersLose ==
  ASSUME BlockerInv, NEW r \in Requests, verdict[r] = "admitted",
         Answer(r, NoIP, "none")
  PROVE  /\ verdict' \in [Requests -> Verdicts]
         /\ from' \in [Requests -> IPs \union {NoIP}]
         /\ \A q \in Requests : verdict'[q] = "admitted" => from'[q] \in IPs
         /\ \A i \in IPs \ {from[r]} : Holders(i)' = Holders(i)
         /\ Cardinality(Holders(from[r])) > 0
         /\ \A ip \in IPs : ip = from[r] =>
              Cardinality(Holders(ip)') = Cardinality(Holders(ip)) - 1
<1> DEFINE ip == from[r]
<1>1. {q \in Requests : verdict'[q] = "admitted" /\ from'[q] = ip} = Holders(ip) \ {r}
      /\ r \in Holders(ip)
  BY DEF BlockerInv, TypeOK, Answer, Holders, Verdicts
<1>2. Cardinality(Holders(ip) \ {r}) = Cardinality(Holders(ip)) - 1
  BY <1>1, HoldersFinite, FS_RemoveElement
<1>3. Cardinality(Holders(ip)) > 0
  BY <1>1, <1>2, HoldersFinite, FS_RemoveElement, FS_Subset, FS_CardinalityType
<1>4. \A i \in IPs : i = from[r] => Cardinality(Holders(i)') = Cardinality(Holders(i)) - 1
  BY <1>1, <1>2 DEF Holders
<1>5. \A i \in IPs \ {from[r]} : Holders(i)' = Holders(i)
  BY DEF BlockerInv, TypeOK, Answer, Holders, Verdicts
<1>. QED
  BY <1>3, <1>4, <1>5 DEF BlockerInv, TypeOK, Answer, Verdicts

\* What the writing branches of Enter share: a well-typed map, and the
\* counts and blocks of the IPs other than the caller's.
LEMMA EnterFrame ==
  ASSUME BlockerInv, ~closed, NEW ip \in IPs, NEW e \in Entry,
         entries' = Put(swept, ip, e), lastSweep' = sweepTime,
         closed' = closed, clock' = clock
  PROVE  /\ \E D \in SUBSET IPs : entries' \in [D -> Entry]
         /\ lastSweep' \in Nat
         /\ Lookup(entries', ip) = e
<1>1. PICK S \in SUBSET IPs : swept \in [S -> Entry]
  BY SweepKeeps DEF BlockerInv, TypeOK
<1>2. \E D \in SUBSET IPs : entries' \in [D -> Entry]
  BY <1>1, MapTypes
<1>. QED
  BY <1>2, PutLookup DEF BlockerInv, TypeOK, sweepTime

\* Initially there is no entry, no holder and no overflow.
LEMMA InitInv == Init => BlockerInv
<1> SUFFICES ASSUME Init PROVE BlockerInv
  OBVIOUS
<1>1. TypeOK
  <2>1. entries \in [{} -> Entry] /\ {} \in SUBSET IPs
    BY DEF Init
  <2>2. \E D \in SUBSET IPs : entries \in [D -> Entry]
    BY <2>1
  <2>3. closed \in BOOLEAN
    BY DEF Init
  <2>4. /\ lastSweep \in Nat /\ clock \in Nat \ {0}
        /\ verdict \in [Requests -> Verdicts]
        /\ from \in [Requests -> IPs \union {NoIP}]
        /\ overflowAt \in [IPs -> Nat]
    BY DEF Init, Verdicts
  <2>. QED
    BY <2>2, <2>3, <2>4 DEF TypeOK
<1>2. \A ip \in IPs : Holders(ip) = {} /\ Lookup(entries, ip) = zeroEntry
  BY NoIPAssumption DEF Init, Holders, Lookup
<1>3. PendingCountsHolders /\ LimitRespected
  BY <1>2, FS_EmptySet, ClampedLimits DEF PendingCountsHolders, LimitRespected, zeroEntry
<1>4. BlockShape
  BY <1>2 DEF BlockShape, zeroEntry, Init, CoolingOff
<1>. QED
  BY <1>1, <1>3, <1>4 DEF BlockerInv, Init

\* Every step keeps the invariant.
LEMMA StepInv == BlockerInv /\ [Next]_blockerVars => BlockerInv'
<1> SUFFICES ASSUME BlockerInv, [Next]_blockerVars PROVE BlockerInv'
  OBVIOUS
<1>1. PICK D \in SUBSET IPs : entries \in [D -> Entry]
  BY DEF BlockerInv, TypeOK
<1>2. ASSUME NEW r \in Requests, NEW a \in Addrs,
             EnterUnlimited(r, a) \/ EnterClosed(r, a)
      PROVE  BlockerInv'
  <2>1. \/ Answer(r, NoIP, "unlimited") /\ verdict[r] = "none"
        \/ /\ Answer(r, CanonicalIP[a], "blocked") /\ verdict[r] = "none"
           /\ CanonicalIP[a] \in IPs
    BY <1>2, CanonicalAssumption DEF EnterUnlimited, EnterClosed, Arrive
  <2>2. UNCHANGED <<entries, lastSweep, closed, clock, overflowAt>>
    BY <1>2 DEF EnterUnlimited, EnterClosed
  <2>3. /\ verdict' \in [Requests -> Verdicts]
        /\ from' \in [Requests -> IPs \union {NoIP}]
        /\ \A q \in Requests : verdict'[q] = "admitted" => from'[q] \in IPs
        /\ \A i \in IPs : Holders(i)' = Holders(i)
    BY <2>1, HoldersKept DEF Verdicts
  <2>. QED
    BY <2>2, <2>3
       DEF BlockerInv, TypeOK, PendingCountsHolders, LimitRespected, BlockShape, Lookup, CoolingOff
<1>3. ASSUME NEW r \in Requests, NEW a \in Addrs, EnterBlocked(r, a)
      PROVE  BlockerInv'
  <2> DEFINE ip == CanonicalIP[a]
  <2>1. /\ ip \in IPs /\ ~closed /\ verdict[r] # "admitted"
        /\ blockedAt(clock, current(ip))
        /\ entries' = Put(swept, ip, current(ip))
        /\ lastSweep' = sweepTime
        /\ Answer(r, ip, "blocked")
        /\ UNCHANGED <<closed, clock, overflowAt>>
    BY <1>3, CanonicalAssumption DEF EnterBlocked, Arrive
  <2> HIDE DEF ip
  <2>2. /\ current(ip) \in Entry
        /\ current(ip).pending = Lookup(entries, ip).pending
        /\ blockedAt(clock, Lookup(entries, ip))
        /\ current(ip).autoBlockedUntil = Lookup(entries, ip).autoBlockedUntil
    BY <1>1, <2>1, CurrentKeeps DEF BlockerInv, TypeOK
  <2>3. /\ verdict' \in [Requests -> Verdicts]
        /\ from' \in [Requests -> IPs \union {NoIP}]
        /\ \A q \in Requests : verdict'[q] = "admitted" => from'[q] \in IPs
        /\ \A i \in IPs : Holders(i)' = Holders(i)
    BY <2>1, HoldersKept DEF Verdicts
  <2>4. /\ \E S \in SUBSET IPs : entries' \in [S -> Entry]
        /\ lastSweep' \in Nat
        /\ Lookup(entries', ip) = current(ip)
    BY <2>1, <2>2, EnterFrame
  <2>5. TypeOK'
    BY <2>1, <2>3, <2>4 DEF BlockerInv, TypeOK
  <2>6. ASSUME NEW i \in IPs
        PROVE  /\ Lookup(entries', i).pending = Lookup(entries, i).pending
               /\ IF CoolingOff(i)'
                    THEN Lookup(entries', i).autoBlockedUntil = overflowAt'[i] + blockTTL
                    ELSE Lookup(entries', i).autoBlockedUntil <= clock'
    <3>1. CASE i = ip
      BY <3>1, <2>1, <2>2, <2>4 DEF BlockerInv, BlockShape, CoolingOff
    <3>2. CASE i # ip
      BY <3>2, <2>1, <2>2, EnterWrites DEF Lookup
    <3>. QED BY <3>1, <3>2
  <2>7. PendingCountsHolders' /\ LimitRespected' /\ BlockShape'
    BY <2>1, <2>3, <2>6
       DEF BlockerInv, PendingCountsHolders, LimitRespected, BlockShape, Lookup
  <2>. QED BY <2>3, <2>5, <2>7 DEF BlockerInv
<1>4. ASSUME NEW r \in Requests, NEW a \in Addrs, EnterOverflow(r, a)
      PROVE  BlockerInv'
  <2> DEFINE ip == CanonicalIP[a]
             e  == [current(ip) EXCEPT !.autoBlockedUntil = clock + blockTTL]
  <2>1. /\ ip \in IPs /\ ~closed /\ verdict[r] # "admitted"
        /\ entries' = Put(swept, ip, e)
        /\ overflowAt' = [overflowAt EXCEPT ![ip] = clock]
        /\ lastSweep' = sweepTime
        /\ Answer(r, ip, "blocked")
        /\ UNCHANGED <<closed, clock>>
    BY <1>4, CanonicalAssumption DEF EnterOverflow, Arrive
  <2>2. /\ e \in Entry
        /\ e.pending = Lookup(entries, ip).pending
        /\ e.autoBlockedUntil = clock + blockTTL
    BY <1>1, <2>1, CurrentKeeps, ClampedLimits DEF BlockerInv, TypeOK, Entry
  <2> HIDE DEF ip, e
  <2>3. /\ verdict' \in [Requests -> Verdicts]
        /\ from' \in [Requests -> IPs \union {NoIP}]
        /\ \A q \in Requests : verdict'[q] = "admitted" => from'[q] \in IPs
        /\ \A i \in IPs : Holders(i)' = Holders(i)
    BY <2>1, HoldersKept DEF Verdicts
  <2>4. /\ \E S \in SUBSET IPs : entries' \in [S -> Entry]
        /\ lastSweep' \in Nat
        /\ Lookup(entries', ip) = e
    BY <2>1, <2>2, EnterFrame
  <2>5. TypeOK'
    BY <2>1, <2>3, <2>4 DEF BlockerInv, TypeOK
  <2>6. ASSUME NEW i \in IPs
        PROVE  /\ Lookup(entries', i).pending = Lookup(entries, i).pending
               /\ IF CoolingOff(i)'
                    THEN Lookup(entries', i).autoBlockedUntil = overflowAt'[i] + blockTTL
                    ELSE Lookup(entries', i).autoBlockedUntil <= clock'
    <3>1. CASE i = ip
      BY <3>1, <2>1, <2>2, <2>4, ClampedLimits DEF BlockerInv, TypeOK, CoolingOff
    <3>2. CASE i # ip
      <4>1. overflowAt'[i] = overflowAt[i]
        BY <3>2, <2>1 DEF BlockerInv, TypeOK
      <4>. QED
        BY <3>2, <4>1, <2>1, <2>2, EnterWrites DEF Lookup
    <3>. QED BY <3>1, <3>2
  <2>7. PendingCountsHolders' /\ LimitRespected' /\ BlockShape'
    BY <2>1, <2>3, <2>6
       DEF BlockerInv, PendingCountsHolders, LimitRespected, BlockShape, Lookup
  <2>. QED BY <2>3, <2>5, <2>7 DEF BlockerInv
<1>5. ASSUME NEW r \in Requests, NEW a \in Addrs, EnterAdmitted(r, a)
      PROVE  BlockerInv'
  <2> DEFINE ip == CanonicalIP[a]
             e  == [current(ip) EXCEPT !.pending = @ + 1]
  <2>1. /\ ip \in IPs /\ ~closed /\ verdict[r] = "none"
        /\ ~blockedAt(clock, current(ip))
        /\ current(ip).pending < maxPerIP
        /\ entries' = Put(swept, ip, e)
        /\ lastSweep' = sweepTime
        /\ Answer(r, ip, "admitted")
        /\ UNCHANGED <<closed, clock, overflowAt>>
    BY <1>5, CanonicalAssumption DEF EnterAdmitted, Arrive
  <2>2. /\ e \in Entry
        /\ e.pending = Lookup(entries, ip).pending + 1
        /\ e.pending <= maxPerIP
        /\ e.autoBlockedUntil = 0
        /\ ~blockedAt(clock, Lookup(entries, ip))
    BY <1>1, <2>1, CurrentKeeps, ClampedLimits DEF BlockerInv, TypeOK, Entry
  <2> HIDE DEF ip, e
  <2>3. /\ verdict' \in [Requests -> Verdicts]
        /\ from' \in [Requests -> IPs \union {NoIP}]
        /\ \A q \in Requests : verdict'[q] = "admitted" => from'[q] \in IPs
        /\ \A i \in IPs \ {ip} : Holders(i)' = Holders(i)
        /\ Cardinality(Holders(ip)') = Cardinality(Holders(ip)) + 1
    BY <2>1, HoldersGain
  <2>4. /\ \E S \in SUBSET IPs : entries' \in [S -> Entry]
        /\ lastSweep' \in Nat
        /\ Lookup(entries', ip) = e
    BY <2>1, <2>2, EnterFrame
  <2>5. TypeOK'
    BY <2>1, <2>3, <2>4 DEF BlockerInv, TypeOK
  <2>6. e.pending = Cardinality(Holders(ip)')
    BY <2>1, <2>2, <2>3 DEF BlockerInv, PendingCountsHolders
  <2>7. ~CoolingOff(ip)
    BY <2>1, <2>2, ShapeMeansFixed DEF BlockIsFixed
  <2>8. ASSUME NEW i \in IPs, i # ip
        PROVE  /\ Lookup(entries', i).pending = Lookup(entries, i).pending
               /\ IF CoolingOff(i)'
                    THEN Lookup(entries', i).autoBlockedUntil = overflowAt'[i] + blockTTL
                    ELSE Lookup(entries', i).autoBlockedUntil <= clock'
    BY <2>8, <2>1, <2>2, EnterWrites DEF Lookup
  <2>9. PendingCountsHolders'
    <3> SUFFICES ASSUME NEW i \in IPs
                 PROVE  Lookup(entries', i).pending = Cardinality(Holders(i)')
      BY DEF PendingCountsHolders, Lookup
    <3>1. CASE i = ip
      BY <3>1, <2>4, <2>6
    <3>2. CASE i # ip
      BY <3>2, <2>1, <2>3, <2>8 DEF BlockerInv, PendingCountsHolders
    <3>. QED BY <3>1, <3>2
  <2>10. LimitRespected'
    BY <2>2, <2>3, <2>6 DEF BlockerInv, LimitRespected
  <2>11. BlockShape'
    <3> SUFFICES ASSUME NEW i \in IPs
                 PROVE  IF CoolingOff(i)'
                          THEN Lookup(entries', i).autoBlockedUntil = overflowAt'[i] + blockTTL
                          ELSE Lookup(entries', i).autoBlockedUntil <= clock'
      BY DEF BlockShape, Lookup
    <3>1. CASE i = ip
      BY <3>1, <2>1, <2>2, <2>4, <2>7 DEF BlockerInv, TypeOK, CoolingOff
    <3>2. CASE i # ip
      BY <3>2, <2>8
    <3>. QED BY <3>1, <3>2
  <2>. QED BY <2>3, <2>5, <2>9, <2>10, <2>11 DEF BlockerInv
<1>6. ASSUME NEW r \in Requests, release(r)
      PROVE  BlockerInv'
  <2> DEFINE ip  == from[r]
             old == Lookup(entries, ip)
             e   == expireEntry(clock, [old EXCEPT !.pending = IF @ > 0 THEN @ - 1 ELSE @])
  <2>1. /\ verdict[r] = "admitted" /\ Answer(r, NoIP, "none")
        /\ UNCHANGED <<lastSweep, closed, clock, overflowAt>>
        /\ ip \in IPs
    BY <1>6 DEF release, BlockerInv
  <2>2. /\ verdict' \in [Requests -> Verdicts]
        /\ from' \in [Requests -> IPs \union {NoIP}]
        /\ \A q \in Requests : verdict'[q] = "admitted" => from'[q] \in IPs
        /\ \A i \in IPs \ {ip} : Holders(i)' = Holders(i)
        /\ Cardinality(Holders(ip)) > 0
        /\ \A i \in IPs : i = ip => Cardinality(Holders(i)') = Cardinality(Holders(i)) - 1
    BY <2>1, HoldersLose
  <2>3. LimitRespected'
    <3> SUFFICES ASSUME NEW i \in IPs PROVE Cardinality(Holders(i)') <= maxPerIP
      BY DEF LimitRespected
    <3>1. Cardinality(Holders(i)) <= maxPerIP /\ Cardinality(Holders(i)) \in Nat
      BY HoldersFinite DEF BlockerInv, LimitRespected
    <3>. QED BY <3>1, <2>1, <2>2, ClampedLimits
  <2>4. CASE closed
    <3>1. entries' = entries
      BY <2>4, <1>6 DEF release
    <3>. QED
      BY <3>1, <2>1, <2>2, <2>3, <2>4
         DEF BlockerInv, TypeOK, PendingCountsHolders, BlockShape
  <2>5. CASE ~closed
    <3>1. old \in Entry /\ old.pending = Cardinality(Holders(ip)) /\ old.pending > 0
      BY <2>1, <2>2, <2>5, <1>1, LookupType DEF BlockerInv, PendingCountsHolders
    <3>2. ip \in DOMAIN entries
      BY <3>1 DEF Lookup, zeroEntry
    <3>3. entries' = IF Dead(clock, e) THEN Delete(entries, ip) ELSE Put(entries, ip, e)
      BY <2>5, <3>2, <1>6 DEF release, released
    <3>4. /\ e \in Entry
          /\ e.pending = old.pending - 1
          /\ IF blockedAt(clock, old)
               THEN e.autoBlockedUntil = old.autoBlockedUntil
               ELSE e.autoBlockedUntil = 0
          /\ blockedAt(clock, e) <=> blockedAt(clock, old)
      <4> DEFINE d == [old EXCEPT !.pending = IF @ > 0 THEN @ - 1 ELSE @]
      <4>1. /\ d \in Entry /\ d.pending = old.pending - 1
            /\ d.autoBlockedUntil = old.autoBlockedUntil
            /\ blockedAt(clock, d) <=> blockedAt(clock, old)
        BY <3>1 DEF Entry, blockedAt
      <4>2. e = expireEntry(clock, d)
        OBVIOUS
      <4> HIDE DEF d
      <4>. QED
        BY <4>1, <4>2, ExpireKeeps DEF BlockerInv, TypeOK
    <3> HIDE DEF e, old, ip
    <3>5. \E S \in SUBSET IPs : entries' \in [S -> Entry]
      BY <3>3, <3>4, <2>1, <1>1, MapTypes
    <3>6. TypeOK'
      BY <3>5, <2>1, <2>2 DEF BlockerInv, TypeOK
    <3>7. ASSUME NEW i \in IPs, i # ip
          PROVE  Lookup(entries', i) = Lookup(entries, i)
      BY <3>7, <3>3, PutLookup, DeleteLookup
    <3>8. /\ Lookup(entries', ip).pending = old.pending - 1
          /\ IF blockedAt(clock, old)
               THEN Lookup(entries', ip).autoBlockedUntil = old.autoBlockedUntil
               ELSE Lookup(entries', ip).autoBlockedUntil = 0
      <4>1. CASE Dead(clock, e)
        <5>1. Lookup(entries', ip) = zeroEntry
          BY <4>1, <3>3, DeleteLookup
        <5>. QED
          BY <5>1, <4>1, <3>1, <3>4 DEF Dead, zeroEntry, blockedAt, Entry
      <4>2. CASE ~Dead(clock, e)
        BY <4>2, <3>3, <3>4, PutLookup
      <4>. QED BY <4>1, <4>2
    <3>9. PendingCountsHolders'
      <4> SUFFICES ASSUME NEW i \in IPs
                   PROVE  Lookup(entries', i).pending = Cardinality(Holders(i)')
        BY DEF PendingCountsHolders, Lookup
      <4>1. CASE i = ip
        BY <4>1, <3>1, <3>8, <2>1, <2>2
      <4>2. CASE i # ip
        BY <4>2, <3>7, <2>2, <2>5 DEF BlockerInv, PendingCountsHolders
      <4>. QED BY <4>1, <4>2
    <3>10. BlockShape'
      <4> SUFFICES ASSUME NEW i \in IPs
                   PROVE  IF CoolingOff(i)
                            THEN Lookup(entries', i).autoBlockedUntil = overflowAt[i] + blockTTL
                            ELSE Lookup(entries', i).autoBlockedUntil <= clock
        BY <2>1 DEF BlockShape, Lookup, CoolingOff
      <4>1. IF CoolingOff(i)
              THEN Lookup(entries, i).autoBlockedUntil = overflowAt[i] + blockTTL
              ELSE Lookup(entries, i).autoBlockedUntil <= clock
        BY <2>5 DEF BlockerInv, BlockShape
      <4>2. CASE i = ip
        <5>1. blockedAt(clock, Lookup(entries, i)) <=> CoolingOff(i)
          BY <2>5, ShapeMeansFixed DEF BlockIsFixed
        <5>2. Lookup(entries, i) = old
          BY <4>2 DEF old
        <5>. QED
          BY <4>1, <4>2, <5>1, <5>2, <3>8 DEF BlockerInv, TypeOK
      <4>3. CASE i # ip
        BY <4>1, <4>3, <3>7
      <4>. QED BY <4>2, <4>3
    <3>. QED BY <3>6, <3>9, <3>10, <2>2, <2>3 DEF BlockerInv
  <2>. QED BY <2>4, <2>5 DEF BlockerInv, TypeOK
<1>7. ASSUME NEW r \in Requests, Leave(r)
      PROVE  BlockerInv'
  <2>1. /\ verdict[r] # "admitted" /\ Answer(r, NoIP, "none")
        /\ UNCHANGED <<entries, lastSweep, closed, clock, overflowAt>>
    BY <1>7 DEF Leave
  <2>2. /\ verdict' \in [Requests -> Verdicts]
        /\ from' \in [Requests -> IPs \union {NoIP}]
        /\ \A q \in Requests : verdict'[q] = "admitted" => from'[q] \in IPs
        /\ \A i \in IPs : Holders(i)' = Holders(i)
    BY <2>1, HoldersKept DEF Verdicts
  <2>. QED
    BY <2>1, <2>2
       DEF BlockerInv, TypeOK, PendingCountsHolders, LimitRespected, BlockShape, Lookup, CoolingOff
<1>8. CASE Close
  <2>1. entries' \in [{} -> Entry] /\ {} \in SUBSET IPs
    BY <1>8 DEF Close
  <2>2. \E S \in SUBSET IPs : entries' \in [S -> Entry]
    BY <2>1
  <2>. QED
    BY <1>8, <2>2
       DEF Close, BlockerInv, TypeOK, PendingCountsHolders, LimitRespected, BlockShape, Holders
<1>9. CASE Tick
  <2>1. TypeOK'
    BY <1>9 DEF Tick, BlockerInv, TypeOK
  <2>2. BlockShape'
    BY <1>9, ClampedLimits, <1>1, LookupType
       DEF Tick, BlockerInv, TypeOK, BlockShape, CoolingOff, Lookup, Entry, zeroEntry
  <2>. QED
    BY <1>9, <2>1, <2>2
       DEF Tick, BlockerInv, PendingCountsHolders, LimitRespected, Holders, Lookup
<1>10. CASE UNCHANGED blockerVars
  BY <1>10
     DEF blockerVars, BlockerInv, TypeOK, PendingCountsHolders, LimitRespected, BlockShape,
         Holders, Lookup, CoolingOff
<1>. QED
  BY <1>2, <1>3, <1>4, <1>5, <1>6, <1>7, <1>8, <1>9, <1>10 DEF Next, Enter, Terminated

\* Type correctness of the limiter's state.
THEOREM TypeCorrect == Spec => []TypeOK
<1>1. BlockerInv => TypeOK
  BY DEF BlockerInv
<1>. QED BY <1>1, InitInv, StepInv, PTL DEF Spec

\* The inductive invariant holds in every reachable state.
LEMMA BlockerCorrect == Spec => []BlockerInv
<1>. QED BY InitInv, StepInv, PTL DEF Spec

\* The pending counts are exact, whatever the interleaving of calls, sweeps,
\* ticks and Close.
THEOREM SlotsCounted == Spec => []PendingCountsHolders
<1>1. BlockerInv => PendingCountsHolders
  BY DEF BlockerInv
<1>. QED BY <1>1, BlockerCorrect, PTL

\* No client has more than maxPerIP requests in flight.
THEOREM LimiterSafe == Spec => []LimitRespected
<1>1. BlockerInv => LimitRespected
  BY DEF BlockerInv
<1>. QED BY <1>1, BlockerCorrect, PTL

\* A block lasts exactly blockTTL from its overflow.
THEOREM BlocksFixed == Spec => []BlockIsFixed
<1>1. BlockerInv => BlockIsFixed
  BY ShapeMeansFixed
<1>. QED BY <1>1, BlockerCorrect, PTL

\* A block is never restarted while it runs.
THEOREM BlocksNotExtended == Spec => BlockNotExtended
<1>1. BlockerInv /\ [Next]_blockerVars => [NotExtendedStep]_blockerVars
  <2> SUFFICES ASSUME BlockerInv, Next, NEW ip \in IPs, overflowAt'[ip] # overflowAt[ip]
               PROVE  ~CoolingOff(ip)
    BY DEF NotExtendedStep
  <2>1. PICK r \in Requests, a \in Addrs : EnterOverflow(r, a)
    BY DEF Next, Enter, EnterUnlimited, EnterClosed, EnterBlocked, EnterAdmitted,
           release, Leave, Close, Tick, Terminated, blockerVars
  <2>2. ip = CanonicalIP[a] /\ ~closed /\ ~blockedAt(clock, current(ip))
    BY <2>1 DEF EnterOverflow, BlockerInv, TypeOK
  <2>3. ~blockedAt(clock, Lookup(entries, ip))
    BY <2>2, CurrentKeeps DEF BlockerInv, TypeOK
  <2>. QED
    BY <2>2, <2>3, ShapeMeansFixed DEF BlockIsFixed
<1>. QED BY <1>1, InitInv, StepInv, PTL DEF Spec, BlockNotExtended

\* Admissions respect the cooling-off period and refusals have a cause.
THEOREM AnswersAreJustified == Spec => AnswersJustified
<1>1. BlockerInv /\ [Next]_blockerVars => [JustifiedStep]_blockerVars
  <2> SUFFICES ASSUME BlockerInv, Next, NEW r \in Requests, verdict[r] = "none"
               PROVE  /\ verdict'[r] = "admitted" => ~closed /\ ~CoolingOff(from'[r])
                      /\ verdict'[r] = "blocked" =>
                           \/ closed
                           \/ CoolingOff(from'[r])
                           \/ Cardinality(Holders(from'[r])) = maxPerIP
    BY DEF JustifiedStep
  <2>1. CASE \E q \in Requests, a \in Addrs : EnterBlocked(q, a) \/ EnterOverflow(q, a) \/ EnterAdmitted(q, a)
    <3>1. PICK q \in Requests, a \in Addrs :
            EnterBlocked(q, a) \/ EnterOverflow(q, a) \/ EnterAdmitted(q, a)
      BY <2>1
    <3>2. q # r => verdict'[r] = "none"
      BY <3>1 DEF EnterBlocked, EnterOverflow, EnterAdmitted, Answer, BlockerInv, TypeOK
    <3> DEFINE ip == CanonicalIP[a]
    <3>3. ip \in IPs /\ ~closed /\ (q = r => from'[r] = ip)
      BY <3>1, CanonicalAssumption
         DEF EnterBlocked, EnterOverflow, EnterAdmitted, Answer, BlockerInv, TypeOK
    <3>4. blockedAt(clock, current(ip)) <=> CoolingOff(ip)
      BY <3>3, CurrentKeeps, ShapeMeansFixed DEF BlockIsFixed, BlockerInv, TypeOK
    <3>5. current(ip).pending = Cardinality(Holders(ip)) /\ Cardinality(Holders(ip)) <= maxPerIP
      BY <3>3, CurrentKeeps DEF BlockerInv, TypeOK, PendingCountsHolders, LimitRespected
    <3>6. CASE EnterBlocked(q, a)
      BY <3>6, <3>2, <3>3, <3>4 DEF EnterBlocked, Answer, BlockerInv, TypeOK
    <3>7. CASE EnterOverflow(q, a)
      <4>1. Cardinality(Holders(ip)) = maxPerIP
        BY <3>7, <3>5, HoldersFinite, ClampedLimits DEF EnterOverflow
      <4>. QED
        BY <4>1, <3>7, <3>2, <3>3 DEF EnterOverflow, Answer, BlockerInv, TypeOK
    <3>8. CASE EnterAdmitted(q, a)
      BY <3>8, <3>2, <3>3, <3>4 DEF EnterAdmitted, Answer, BlockerInv, TypeOK
    <3>. QED BY <3>1, <3>6, <3>7, <3>8
  <2>2. CASE \E q \in Requests, a \in Addrs : EnterUnlimited(q, a) \/ EnterClosed(q, a)
    BY <2>2 DEF EnterUnlimited, EnterClosed, Answer, BlockerInv, TypeOK
  <2>3. CASE (\E q \in Requests : release(q) \/ Leave(q)) \/ Close \/ Tick \/ Terminated
    BY <2>3 DEF release, Leave, Close, Tick, Terminated, Answer, BlockerInv, TypeOK, blockerVars
  <2>. QED BY <2>1, <2>2, <2>3 DEF Next, Enter
<1>. QED BY <1>1, InitInv, StepInv, PTL DEF Spec, AnswersJustified

\* After a sweep only entries that count a request or block one remain.
THEOREM SweepsReclaim == Spec => SweepReclaims
<1>1. BlockerInv /\ [Next]_blockerVars => [ReclaimStep]_blockerVars
  <2> SUFFICES ASSUME BlockerInv, Next, lastSweep' # lastSweep,
                      NEW i \in DOMAIN entries'
               PROVE  ~Dead(clock, entries'[i])
    BY DEF ReclaimStep
  <2>1. PICK r \in Requests, a \in Addrs :
          EnterBlocked(r, a) \/ EnterOverflow(r, a) \/ EnterAdmitted(r, a)
    BY DEF Next, Enter, EnterUnlimited, EnterClosed, release, Leave, Close, Tick,
           Terminated, blockerVars
  <2> DEFINE ip == CanonicalIP[a]
  <2>2. ip \in IPs /\ sweepDue(clock)
    BY <2>1, CanonicalAssumption DEF EnterBlocked, EnterOverflow, EnterAdmitted, sweepTime
  <2>3. PICK e : entries' = Put(swept, ip, e) /\ ~Dead(clock, e)
    <3>1. current(ip) \in Entry
      BY <2>2, CurrentKeeps DEF BlockerInv, TypeOK
    <3>2. CASE EnterBlocked(r, a)
      BY <3>2 DEF EnterBlocked, Dead
    <3>3. CASE EnterOverflow(r, a)
      BY <3>3, <3>1, ClampedLimits DEF EnterOverflow, Dead, blockedAt, Entry, BlockerInv, TypeOK
    <3>4. CASE EnterAdmitted(r, a)
      BY <3>4, <3>1 DEF EnterAdmitted, Dead, Entry
    <3>. QED BY <2>1, <3>2, <3>3, <3>4
  <2>4. CASE i = ip
    BY <2>3, <2>4 DEF Put
  <2>5. CASE i # ip
    <3>1. i \in DOMAIN entries /\ ~Dead(clock, entries[i])
          /\ entries'[i] = expireEntry(clock, entries[i])
      BY <2>2, <2>3, <2>5 DEF Put, swept, sweepAll
    <3>2. entries[i] \in Entry
      BY <3>1 DEF BlockerInv, TypeOK
    <3>. QED
      BY <3>1, <3>2, ExpireKeeps DEF Dead, BlockerInv, TypeOK
  <2>. QED BY <2>4, <2>5
<1>. QED BY <1>1, InitInv, StepInv, PTL DEF Spec, SweepReclaims
=============================================================================
