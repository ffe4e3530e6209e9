---------------------------- MODULE ArbiterProofs ----------------------------
(***************************************************************************)
(* Theorems about Arbiter for every set of calls, every request mix and    *)
(* every limit: type correctness, the waiting queue, exclusive use of the  *)
(* card, barriers, limits, and the implementation of CardAccess.           *)
(***************************************************************************)
EXTENDS Arbiter, FiniteSetTheorems, TLAPS

\* What a queued ticket is: only calls that wait are queued.
QueuedWait == \A i \in DOMAIN queue : phase[queue[i]] \in Waiting

WaitersQueued ==
    \A c \in Calls : phase[c] \in Waiting => \E i \in DOMAIN queue : queue[i] = c

QueuedOnce == \A i, j \in DOMAIN queue : queue[i] = queue[j] => i = j

\* Whoever is on the card has a handle that has not been released.
HoldersHeld == \A c \in active \cup barriers : phase[c] = "held"

HoldersTyped == /\ \A c \in active : req[c].type \in {"session", "oneshot", "transport"}
                /\ \A b \in barriers : req[b].type = "barrier"

\* A ticket exists once the call has begun.
TicketsTyped == \A c \in Calls : phase[c] # "idle" => req[c].type # "none"

QueueInv == QueuedWait /\ WaitersQueued /\ QueuedOnce

\* What concerns the card alone, and is disturbed only by admissions and departures.
CardInv == /\ HoldersTyped /\ IsFiniteSet(active)
           /\ CardExclusive /\ WithinLimits /\ BarrierHolds

\* The inductive invariant.
IInv == TypeOK /\ QueueInv /\ HoldersHeld /\ TicketsTyped /\ CardInv

-----------------------------------------------------------------------------
\* Normalisation turns every legal request into a ticket.
LEMMA NormalizeType ==
    ASSUME NEW r \in RawRequest
    PROVE  Normalize(r) \in Ticket /\ Normalize(r).type # "none"
BY DEF RawRequest, Ticket, Normalize, NormalizeClass, NormalizeTransportScope,
       BlockedClasses, LeaseTypes, Classes, Scopes

\* removeTicketLocked: the one place of the ticket goes, the rest closes up.
LEMMA WithoutSeq ==
    ASSUME NEW q \in Seq(Calls), NEW k \in DOMAIN q,
           \A i, j \in DOMAIN q : q[i] = q[j] => i = j
    PROVE  /\ Without(q, q[k]) \in Seq(Calls)
           /\ Len(Without(q, q[k])) = Len(q) - 1
           /\ \A i \in 1 .. Len(q) - 1 :
                 Without(q, q[k])[i] = IF i < k THEN q[i] ELSE q[i + 1]
<1>1. (CHOOSE j \in DOMAIN q : q[j] = q[k]) = k
  OBVIOUS
<1>2. Without(q, q[k]) = SubSeq(q, 1, k - 1) \o SubSeq(q, k + 1, Len(q))
  BY <1>1 DEF Without
<1> DEFINE p == SubSeq(q, 1, k - 1)
           s == SubSeq(q, k + 1, Len(q))
<1>3. /\ p \in Seq(Calls) /\ Len(p) = k - 1
      /\ \A i \in 1 .. k - 1 : p[i] = q[i]
  OBVIOUS
<1>4. /\ s \in Seq(Calls) /\ Len(s) = Len(q) - k
      /\ \A i \in 1 .. Len(q) - k : s[i] = q[k + i]
  OBVIOUS
<1> HIDE DEF p, s
<1>5. p \o s \in Seq(Calls) /\ Len(p \o s) = Len(q) - 1
  BY <1>3, <1>4
<1>6. ASSUME NEW i \in 1 .. Len(q) - 1
      PROVE  (p \o s)[i] = IF i < k THEN q[i] ELSE q[i + 1]
  <2>0. i < k \/ i >= k  OBVIOUS
  <2>1. CASE i < k
    <3>1. i \in 1 .. Len(p) /\ (p \o s)[i] = p[i]  BY <1>3, <1>4, <2>1
    <3>2. QED  BY <1>3, <2>1, <3>1
  <2>2. CASE i >= k
    <3>1. (p \o s)[i] = s[i - (k - 1)]  BY <1>3, <1>4, <2>2
    <3>2. s[i - (k - 1)] = q[i + 1]  BY <1>4, <2>2
    <3>3. QED  BY <3>1, <3>2, <2>2
  <2>3. QED  BY <2>0, <2>1, <2>2
<1>7. QED
  BY <1>2, <1>5, <1>6 DEF p, s

\* What is queued after the removal of one ticket.
LEMMA WithoutElements ==
    ASSUME NEW q \in Seq(Calls), NEW c \in Calls, \E k \in DOMAIN q : q[k] = c,
           \A i, j \in DOMAIN q : q[i] = q[j] => i = j
    PROVE  /\ Without(q, c) \in Seq(Calls)
           /\ \A i \in DOMAIN Without(q, c) :
                 Without(q, c)[i] # c /\ \E j \in DOMAIN q : Without(q, c)[i] = q[j]
           /\ \A j \in DOMAIN q : q[j] # c =>
                 \E i \in DOMAIN Without(q, c) : Without(q, c)[i] = q[j]
           /\ \A i, j \in DOMAIN Without(q, c) :
                 Without(q, c)[i] = Without(q, c)[j] => i = j
<1>1. PICK k \in DOMAIN q : q[k] = c
  OBVIOUS
<1> DEFINE w == Without(q, c)
<1>2. /\ w \in Seq(Calls) /\ Len(w) = Len(q) - 1
      /\ \A i \in 1 .. Len(q) - 1 : w[i] = IF i < k THEN q[i] ELSE q[i + 1]
  BY <1>1, WithoutSeq
<1> HIDE DEF w
<1>3. \A i \in DOMAIN w : w[i] # c /\ \E j \in DOMAIN q : w[i] = q[j]
  <2> TAKE i \in DOMAIN w
  <2>1. CASE i < k  BY <1>1, <1>2, <2>1
  <2>2. CASE i >= k
    <3>1. i + 1 \in DOMAIN q /\ w[i] = q[i + 1] /\ i + 1 # k
      BY <1>1, <1>2, <2>2
    <3>2. QED  BY <1>1, <3>1
  <2>3. QED  BY <1>1, <1>2, <2>1, <2>2
<1>4. \A j \in DOMAIN q : q[j] # c => \E i \in DOMAIN w : w[i] = q[j]
  <2> TAKE j \in DOMAIN q
  <2> HAVE q[j] # c
  <2>1. CASE j < k
    <3>1. j \in DOMAIN w /\ w[j] = q[j]  BY <1>1, <1>2, <2>1
    <3>2. QED  BY <3>1
  <2>2. CASE j > k
    <3>1. j - 1 \in DOMAIN w /\ w[j - 1] = q[j]  BY <1>1, <1>2, <2>2
    <3>2. QED  BY <3>1
  <2>3. QED  BY <1>1, <2>1, <2>2
<1>5. \A i, j \in DOMAIN w : w[i] = w[j] => i = j
  <2> TAKE i, j \in DOMAIN w
  <2> HAVE w[i] = w[j]
  <2>1. i \in 1 .. Len(q) - 1 /\ j \in 1 .. Len(q) - 1  BY <1>2
  <2> DEFINE at(x) == IF x < k THEN x ELSE x + 1
  <2>2. at(i) \in DOMAIN q /\ at(j) \in DOMAIN q
    BY <1>1, <2>1
  <2>3. w[i] = q[at(i)] /\ w[j] = q[at(j)]
    BY <1>2, <2>1
  <2>4. at(i) = at(j)
    <3> HIDE DEF at
    <3>1. QED  BY <2>2, <2>3
  <2>5. QED  BY <2>1, <2>4, <1>1
<1>6. QED  BY <1>2, <1>3, <1>4, <1>5 DEF w

-----------------------------------------------------------------------------
\* Admission looks at everything it has to: a ticket it lets through may share the
\* card with each active lease, is blocked by no barrier and stays within limits.
LEMMA AdmissionSound ==
    ASSUME TypeOK, HoldersTyped, NEW c \in Calls, NEW q \in Seq(Calls),
           CanAcquireLease(c, q)
    PROVE  /\ \A d \in active : Card!MayShare(req[c], req[d])
           /\ \A b \in barriers : req[c].class \notin req[b].blocked
           /\ req[c].type = "session" => Cardinality(ActiveOf("session")) < MaxSessions
           /\ req[c].type = "transport" /\ req[c].scope = "qmi_channel"
              => Cardinality(QMITransports) < MaxQMITransports
<1>1. \A b \in barriers : req[c].class \notin req[b].blocked
  BY DEF CanAcquireLease, BlockedByActiveBarrier
<1>2. CASE req[c].type = "session"
  <2>1. \A d \in active : req[d].type = "session"
    BY <1>2 DEF CanAcquireLease, HoldersTyped, ActiveOf, Transports
  <2>2. Cardinality(ActiveOf("session")) < MaxSessions
    BY <1>2 DEF CanAcquireLease
  <2>3. QED  BY <1>1, <1>2, <2>1, <2>2 DEF Card!MayShare
<1>3. CASE req[c].type = "oneshot"
  BY <1>1, <1>3 DEF CanAcquireLease
<1>4. CASE req[c].type = "transport"
  <2>1. CanAcquireTransportNow(c)
    BY <1>4 DEF CanAcquireLease, SelectedTransport, Preferred, Eligible
  <2>2. \A d \in active : req[d].type = "transport"
    BY <1>4 DEF CanAcquireLease, HoldersTyped, ActiveOf
  <2>3. \A d \in active : d \in Transports
    BY <2>2 DEF Transports, ActiveOf
  <2>4. \A d \in active : d \in ExclusiveTransports \/ d \in QMITransports
    BY <2>3 DEF ExclusiveTransports, QMITransports, TypeOK, Ticket, Scopes
  <2>5. CASE req[c].scope = "exclusive"
    BY <1>1, <1>4, <2>1, <2>3, <2>5 DEF CanAcquireTransportNow
  <2>6. CASE req[c].scope = "qmi_channel"
    <3>1. \A d \in active : d \in QMITransports /\ req[d].channel # req[c].channel
      BY <2>1, <2>4, <2>6 DEF CanAcquireTransportNow
    <3>2. QED
      BY <1>1, <1>4, <2>1, <2>2, <2>6, <3>1
         DEF CanAcquireTransportNow, QMITransports, Card!MayShare
  <2>7. QED  BY <2>5, <2>6 DEF TypeOK, Ticket, Scopes
<1>5. QED  BY <1>2, <1>3, <1>4 DEF CanAcquireLease

\* A departure, and anything that leaves the card alone, keeps the card invariant.
LEMMA LeavingKeepsCard ==
    ASSUME CardInv, active' \subseteq active, barriers' \subseteq barriers,
           \A d \in active \cup barriers : req'[d] = req[d],
           MaxSessions \in Nat, MaxQMITransports \in Nat
    PROVE  CardInv'
<1>1. HoldersTyped' /\ CardExclusive' /\ BarrierHolds'
  BY DEF CardInv, HoldersTyped, CardExclusive, BarrierHolds, Card!MayShare
<1>2. IsFiniteSet(active')
  BY FS_Subset DEF CardInv
<1>3. ActiveOf("session")' \subseteq ActiveOf("session")
      /\ QMITransports' \subseteq QMITransports
  BY DEF ActiveOf, QMITransports, Transports
<1>4. IsFiniteSet(ActiveOf("session")) /\ IsFiniteSet(QMITransports)
  <2>1. ActiveOf("session") \subseteq active /\ QMITransports \subseteq active
    BY DEF ActiveOf, QMITransports, Transports
  <2>2. QED  BY <2>1, FS_Subset DEF CardInv
<1>5. /\ Cardinality(ActiveOf("session")') <= Cardinality(ActiveOf("session"))
      /\ Cardinality(QMITransports') <= Cardinality(QMITransports)
      /\ IsFiniteSet(ActiveOf("session")') /\ IsFiniteSet(QMITransports')
  BY <1>3, <1>4, FS_Subset
<1>6. WithinLimits'
  <2>1. /\ Cardinality(ActiveOf("session")) \in Nat
        /\ Cardinality(QMITransports) \in Nat
        /\ Cardinality(ActiveOf("session")') \in Nat
        /\ Cardinality(QMITransports') \in Nat
    BY <1>4, <1>5, FS_CardinalityType
  <2>2. QED  BY <1>5, <2>1 DEF CardInv, WithinLimits
<1>7. QED  BY <1>1, <1>2, <1>6 DEF CardInv

\* An admission keeps the card invariant.
LEMMA AcquireKeepsCard ==
    ASSUME TypeOK, CardInv, NEW c \in Calls, NEW q \in Seq(Calls), Acquire(c, q),
           req[c].type # "none", c \notin active \cup barriers, req' = req
    PROVE  CardInv'
<1>1. CASE req[c].type = "barrier"
  <2>1. active = {} /\ active' = {} /\ barriers' = barriers \cup {c}
    BY <1>1 DEF Acquire, CanAcquire, CanAcquireLease, CanAcquireBarrier
  <2>2. HoldersTyped' /\ CardExclusive' /\ BarrierHolds' /\ IsFiniteSet(active')
    BY <1>1, <2>1, FS_EmptySet DEF CardInv, HoldersTyped, CardExclusive, BarrierHolds
  <2>3. ActiveOf("session")' = ActiveOf("session") /\ QMITransports' = QMITransports
    BY <2>1 DEF ActiveOf, QMITransports, Transports
  <2>4. QED  BY <2>2, <2>3 DEF CardInv, WithinLimits
<1>2. CASE req[c].type # "barrier"
  <2>1. active' = active \cup {c} /\ barriers' = barriers /\ CanAcquireLease(c, q)
    BY <1>2 DEF Acquire, CanAcquire, CanAcquireBarrier
  <2>2. /\ \A d \in active : Card!MayShare(req[c], req[d])
        /\ \A b \in barriers : req[c].class \notin req[b].blocked
        /\ req[c].type = "session" => Cardinality(ActiveOf("session")) < MaxSessions
        /\ req[c].type = "transport" /\ req[c].scope = "qmi_channel"
           => Cardinality(QMITransports) < MaxQMITransports
    BY <2>1, AdmissionSound DEF CardInv
  <2>3. HoldersTyped'
    BY <1>2, <2>1 DEF CardInv, HoldersTyped, TypeOK, Ticket, LeaseTypes
  <2>4. CardExclusive'
    <3>1. \A d \in active : Card!MayShare(req[d], req[c])
      BY <2>2 DEF Card!MayShare
    <3>2. QED
      BY <2>1, <2>2, <3>1 DEF CardInv, CardExclusive, Card!MayShare
  <2>5. BarrierHolds'
    BY <2>1, <2>2 DEF CardInv, BarrierHolds
  <2>6. IsFiniteSet(active')
    BY <2>1, FS_AddElement DEF CardInv
  <2>7. Cardinality(ActiveOf("session")') <= MaxSessions
    <3>1. CASE req[c].type = "session"
      <4>1. ActiveOf("session")' = ActiveOf("session") \cup {c} /\ c \notin ActiveOf("session")
        BY <2>1, <3>1 DEF ActiveOf
      <4>2. IsFiniteSet(ActiveOf("session"))
        BY FS_Subset DEF CardInv, ActiveOf
      <4>3. Cardinality(ActiveOf("session")') = Cardinality(ActiveOf("session")) + 1
        BY <4>1, <4>2, FS_AddElement
      <4>4. Cardinality(ActiveOf("session")) \in Nat
        BY <4>2, FS_CardinalityType
      <4>5. QED  BY <2>2, <3>1, <4>3, <4>4, LimitsAssumption
    <3>2. CASE req[c].type # "session"
      <4>1. ActiveOf("session")' = ActiveOf("session")
        BY <2>1, <3>2 DEF ActiveOf
      <4>2. QED  BY <4>1 DEF CardInv, WithinLimits
    <3>3. QED  BY <3>1, <3>2
  <2>8. Cardinality(QMITransports') <= MaxQMITransports
    <3>1. CASE req[c].type = "transport" /\ req[c].scope = "qmi_channel"
      <4>1. QMITransports' = QMITransports \cup {c} /\ c \notin QMITransports
        BY <2>1, <3>1 DEF QMITransports, Transports, ActiveOf
      <4>2. QMITransports \subseteq active
        BY DEF QMITransports, Transports, ActiveOf
      <4>3. IsFiniteSet(QMITransports)
        BY <4>2, FS_Subset DEF CardInv
      <4>4. Cardinality(QMITransports') = Cardinality(QMITransports) + 1
        BY <4>1, <4>3, FS_AddElement
      <4>5. Cardinality(QMITransports) \in Nat
        BY <4>3, FS_CardinalityType
      <4>6. QED  BY <2>2, <3>1, <4>4, <4>5, LimitsAssumption
    <3>2. CASE ~(req[c].type = "transport" /\ req[c].scope = "qmi_channel")
      <4>1. QMITransports' = QMITransports
        BY <2>1, <3>2 DEF QMITransports, Transports, ActiveOf
      <4>2. QED  BY <4>1 DEF CardInv, WithinLimits
    <3>3. QED  BY <3>1, <3>2
  <2>9. QED
    BY <2>3, <2>4, <2>5, <2>6, <2>7, <2>8 DEF CardInv, WithinLimits
<1>3. QED  BY <1>1, <1>2

\* A step that only removes c, with its phase, from the queue keeps the queue invariant.
LEMMA RemovalKeepsQueue ==
    ASSUME TypeOK, NEW c \in Calls, NEW q \in Seq(Calls),
           \E k \in DOMAIN q : q[k] = c,
           \A i \in DOMAIN q : q[i] = c \/ phase[q[i]] \in Waiting,
           \A d \in Calls : phase[d] \in Waiting => \E i \in DOMAIN q : q[i] = d,
           \A i, j \in DOMAIN q : q[i] = q[j] => i = j,
           queue' = Without(q, c),
           phase'[c] \notin Waiting,
           \A d \in Calls \ {c} : phase'[d] \in Waiting <=> phase[d] \in Waiting
    PROVE  queue' \in Seq(Calls) /\ QueueInv'
<1>1. /\ queue' \in Seq(Calls)
      /\ \A i \in DOMAIN queue' : queue'[i] # c /\ \E j \in DOMAIN q : queue'[i] = q[j]
      /\ \A j \in DOMAIN q : q[j] # c => \E i \in DOMAIN queue' : queue'[i] = q[j]
      /\ \A i, j \in DOMAIN queue' : queue'[i] = queue'[j] => i = j
  BY WithoutElements
<1>2. \A i \in DOMAIN queue' : queue'[i] \in Calls
  BY <1>1
<1>3. QueuedWait'
  BY <1>1, <1>2 DEF QueuedWait
<1>4. WaitersQueued'
  <2> SUFFICES ASSUME NEW d \in Calls, phase'[d] \in Waiting
               PROVE  \E i \in DOMAIN queue' : queue'[i] = d
    BY DEF WaitersQueued
  <2>1. d # c /\ phase[d] \in Waiting  OBVIOUS
  <2>2. PICK j \in DOMAIN q : q[j] = d  BY <2>1
  <2>3. QED  BY <1>1, <2>1, <2>2
<1>5. QED  BY <1>1, <1>3, <1>4 DEF QueueInv, QueuedOnce

\* A step that keeps the queue and who waits keeps the queue invariant.
LEMMA SameQueue ==
    ASSUME QueueInv, queue \in Seq(Calls), queue' = queue,
           \A d \in Calls : phase'[d] \in Waiting <=> phase[d] \in Waiting
    PROVE  QueueInv'
<1>1. \A i \in DOMAIN queue : queue[i] \in Calls
  OBVIOUS
<1>2. QED
  BY <1>1 DEF QueueInv, QueuedWait, WaitersQueued, QueuedOnce

\* An admission, by a first evaluation or by a retry, keeps the whole invariant.
LEMMA AcquireKeepsIInv ==
    ASSUME IInv, NEW c \in Calls, NEW q \in Seq(Calls),
           phase[c] \in {"created", "woken"},
           \E k \in DOMAIN q : q[k] = c,
           \A i \in DOMAIN q : q[i] = c \/ phase[q[i]] \in Waiting,
           \A d \in Calls : phase[d] \in Waiting => \E i \in DOMAIN q : q[i] = d,
           \A i, j \in DOMAIN q : q[i] = q[j] => i = j,
           Acquire(c, q), UNCHANGED <<req, stamp, seq, lapsed, firing>>
    PROVE  IInv'
<1>1. c \notin active \cup barriers /\ req[c].type # "none"
  BY DEF IInv, HoldersHeld, TicketsTyped
<1>2. CardInv'
  BY <1>1, AcquireKeepsCard DEF IInv
<1>3. /\ phase' \in [Calls -> Phases] /\ phase'[c] = "held"
      /\ \A d \in Calls \ {c} :
            phase'[d] = IF phase[d] = "parked" THEN "woken" ELSE phase[d]
  BY DEF Acquire, Signalled, IInv, TypeOK, Phases
<1>4. \A d \in Calls \ {c} : phase'[d] \in Waiting <=> phase[d] \in Waiting
  BY <1>3 DEF Waiting
<1>5. queue' \in Seq(Calls) /\ QueueInv'
  BY <1>3, <1>4, RemovalKeepsQueue DEF Acquire, IInv, Waiting
<1>6. /\ active \subseteq active' /\ active' \subseteq active \cup {c}
      /\ barriers \subseteq barriers' /\ barriers' \subseteq barriers \cup {c}
      /\ aged' \subseteq aged
  BY DEF Acquire
<1>7. idler' \in [Idlers -> {"idle", "woken", "parked", "done"}]
  BY DEF Acquire, Signalled, IInv, TypeOK
<1>8. TypeOK'
  BY <1>3, <1>5, <1>6, <1>7 DEF IInv, TypeOK
<1>9. HoldersHeld'
  BY <1>3, <1>6 DEF IInv, HoldersHeld, TypeOK
<1>10. TicketsTyped'
  BY <1>1, <1>3 DEF IInv, TicketsTyped
<1>11. QED  BY <1>2, <1>5, <1>8, <1>9, <1>10 DEF IInv

-----------------------------------------------------------------------------
\* A new Arbiter has the invariant: nothing queued, nothing active.
LEMMA InitIInv == Init => IInv
<1> SUFFICES ASSUME Init PROVE IInv
  OBVIOUS
<1>1. TypeOK
  BY DEF Init, TypeOK, Phases, NoTicket, Ticket, Classes, Scopes
<1>2. QueueInv /\ HoldersHeld /\ TicketsTyped
  BY DEF Init, QueueInv, QueuedWait, WaitersQueued, QueuedOnce, HoldersHeld,
         TicketsTyped, Waiting
<1>3. ActiveOf("session") = {} /\ QMITransports = {}
  BY DEF Init, ActiveOf, QMITransports, Transports
<1>4. CardInv
  BY <1>3, FS_EmptySet, LimitsAssumption
     DEF Init, CardInv, HoldersTyped, CardExclusive, WithinLimits, BarrierHolds
<1>5. QED  BY <1>1, <1>2, <1>4 DEF IInv

\* The induction step, one step per action.
LEMMA NextIInv == IInv /\ [Next]_vars => IInv'
<1> SUFFICES ASSUME IInv, [Next]_vars PROVE IInv'
  OBVIOUS
<1> USE LimitsAssumption
<1>0. ASSUME NEW c \in Calls PROVE phase[c] \in Phases
  BY DEF IInv, TypeOK
<1>1. ASSUME NEW c \in Calls, NEW r \in Requests, NewTicket(c, r) PROVE IInv'
  <2>1. Normalize(r) \in Ticket /\ Normalize(r).type # "none"
    BY NormalizeType, RequestsAssumption
  <2>2. c \notin active \cup barriers
    BY <1>1 DEF NewTicket, IInv, HoldersHeld
  <2>3. TypeOK'
    BY <1>1, <2>1 DEF NewTicket, IInv, TypeOK, Phases
  <2>4. \A d \in Calls : phase'[d] \in Waiting <=> phase[d] \in Waiting
    BY <1>1 DEF NewTicket, IInv, TypeOK, Waiting
  <2>5. QueueInv'
    BY <1>1, <2>4, SameQueue DEF NewTicket, IInv, TypeOK
  <2>6. HoldersHeld' /\ TicketsTyped'
    BY <1>1, <2>1, <2>2 DEF NewTicket, IInv, TypeOK, HoldersHeld, TicketsTyped
  <2>7. \A d \in active \cup barriers : req'[d] = req[d]
    BY <1>1, <2>2 DEF NewTicket, IInv, TypeOK
  <2>8. CardInv'
    BY <1>1, <2>7, LeavingKeepsCard DEF NewTicket, IInv
  <2>9. QED  BY <2>3, <2>5, <2>6, <2>8 DEF IInv
<1>2. ASSUME NEW c \in Calls, Enqueue(c) PROVE IInv'
  <2> DEFINE q == Append(queue, c)
  <2>1. phase[c] = "created" /\ queue \in Seq(Calls)
    BY <1>2 DEF Enqueue, IInv, TypeOK
  <2>2. \A i \in DOMAIN queue : queue[i] \in Calls /\ queue[i] # c
    BY <2>1 DEF IInv, QueueInv, QueuedWait, Waiting
  <2>3. /\ q \in Seq(Calls) /\ Len(q) = Len(queue) + 1 /\ q[Len(q)] = c
        /\ \A i \in DOMAIN queue : i \in DOMAIN q /\ q[i] = queue[i]
        /\ \A i \in DOMAIN q : i \in DOMAIN queue \/ i = Len(q)
    BY <2>1
  <2>4. /\ \E k \in DOMAIN q : q[k] = c
        /\ \A i \in DOMAIN q : q[i] = c \/ phase[q[i]] \in Waiting
        /\ \A d \in Calls : phase[d] \in Waiting => \E i \in DOMAIN q : q[i] = d
        /\ \A i, j \in DOMAIN q : q[i] = q[j] => i = j
    <3> HIDE DEF q
    <3>1. Len(q) \in DOMAIN q  BY <2>1, <2>3
    <3>2. QED
      BY <2>2, <2>3, <3>1 DEF IInv, QueueInv, QueuedWait, WaitersQueued, QueuedOnce
  <2>5. CASE Acquire(c, q)
    <3> HIDE DEF q
    <3>1. UNCHANGED <<req, stamp, seq, lapsed, firing>>  BY <1>2 DEF Enqueue
    <3>2. QED  BY <2>1, <2>3, <2>4, <2>5, <3>1, AcquireKeepsIInv
  <2>6. CASE ~Acquire(c, q)
    <3>1. /\ queue' = q /\ phase' = [Signalled(phase) EXCEPT ![c] = "parked"]
          /\ idler' = Signalled(idler)
          /\ UNCHANGED <<aged, active, barriers, req, stamp, seq, lapsed, firing>>
      BY <1>2, <2>6 DEF Enqueue
    <3>2. /\ phase' \in [Calls -> Phases] /\ phase'[c] = "parked"
          /\ \A d \in Calls \ {c} :
                phase'[d] = IF phase[d] = "parked" THEN "woken" ELSE phase[d]
      BY <3>1 DEF Signalled, IInv, TypeOK, Phases
    <3>3. idler' \in [Idlers -> {"idle", "woken", "parked", "done"}]
      BY <3>1 DEF Signalled, IInv, TypeOK
    <3>4. TypeOK'
      BY <2>3, <3>1, <3>2, <3>3 DEF IInv, TypeOK
    <3>5. QueueInv'
      <4>1. queue' \in Seq(Calls) /\ queue' = q  BY <2>3, <3>1
      <4>2. \A i \in DOMAIN queue' : queue'[i] \in Calls  BY <4>1
      <4> HIDE DEF q
      <4>3. QueuedWait'  BY <2>4, <3>2, <4>1, <4>2 DEF QueuedWait, Waiting
      <4>4. WaitersQueued'  BY <2>4, <3>2, <4>1 DEF WaitersQueued, Waiting
      <4>5. QED  BY <2>4, <4>1, <4>3, <4>4 DEF QueueInv, QueuedOnce
    <3>6. HoldersHeld' /\ TicketsTyped'
      BY <2>1, <3>1, <3>2 DEF IInv, TypeOK, HoldersHeld, TicketsTyped
    <3>7. CardInv'
      BY <3>1, LeavingKeepsCard DEF IInv
    <3>8. QED  BY <3>4, <3>5, <3>6, <3>7 DEF IInv
  <2>7. QED  BY <2>5, <2>6
<1>3. ASSUME NEW c \in Calls, Retry(c) PROVE IInv'
  <2>1. phase[c] = "woken" /\ queue \in Seq(Calls)
    BY <1>3 DEF Retry, IInv, TypeOK
  <2>2. CASE Acquire(c, queue)
    <3>1. UNCHANGED <<req, stamp, seq, lapsed, firing>>  BY <1>3 DEF Retry
    <3>2. \E k \in DOMAIN queue : queue[k] = c
      BY <2>1 DEF IInv, QueueInv, WaitersQueued, Waiting
    <3>3. QED
      BY <2>1, <2>2, <3>1, <3>2, AcquireKeepsIInv
         DEF IInv, QueueInv, QueuedWait, WaitersQueued, QueuedOnce
  <2>3. CASE ~Acquire(c, queue)
    <3>1. /\ phase' = [phase EXCEPT ![c] = "parked"]
          /\ UNCHANGED <<queue, aged, active, barriers, idler, req, stamp, seq, lapsed, firing>>
      BY <1>3, <2>3 DEF Retry
    <3>2. TypeOK'  BY <3>1 DEF IInv, TypeOK, Phases
    <3>3. \A d \in Calls : phase'[d] \in Waiting <=> phase[d] \in Waiting
      BY <2>1, <3>1 DEF IInv, TypeOK, Waiting
    <3>4. QueueInv'  BY <2>1, <3>1, <3>3, SameQueue DEF IInv
    <3>5. HoldersHeld' /\ TicketsTyped'
      BY <2>1, <3>1 DEF IInv, TypeOK, HoldersHeld, TicketsTyped
    <3>6. CardInv'  BY <3>1, LeavingKeepsCard DEF IInv
    <3>7. QED  BY <3>2, <3>4, <3>5, <3>6 DEF IInv
  <2>4. QED  BY <2>2, <2>3
<1>4. ASSUME NEW c \in Calls, Timeout(c) PROVE IInv'
  <2>1. /\ phase[c] \in Waiting /\ queue \in Seq(Calls)
        /\ queue' = Without(queue, c) /\ aged' = aged \ {c}
        /\ idler' = Signalled(idler)
        /\ UNCHANGED <<req, stamp, seq, active, barriers, lapsed, firing>>
    BY <1>4 DEF Timeout, IInv, TypeOK
  <2>2. /\ phase' \in [Calls -> Phases] /\ phase'[c] = "busy"
        /\ \A d \in Calls \ {c} :
              phase'[d] = IF phase[d] = "parked" THEN "woken" ELSE phase[d]
    BY <1>4 DEF Timeout, Signalled, IInv, TypeOK, Phases
  <2>3. \E k \in DOMAIN queue : queue[k] = c
    BY <2>1 DEF IInv, QueueInv, WaitersQueued
  <2>4. \A d \in Calls \ {c} : phase'[d] \in Waiting <=> phase[d] \in Waiting
    BY <2>2 DEF Waiting
  <2>5. phase'[c] \notin Waiting
    BY <2>2 DEF Waiting
  <2>6. queue' \in Seq(Calls) /\ QueueInv'
    BY <2>1, <2>3, <2>4, <2>5, RemovalKeepsQueue
       DEF IInv, QueueInv, QueuedWait, WaitersQueued, QueuedOnce
  <2>7. idler' \in [Idlers -> {"idle", "woken", "parked", "done"}]
    BY <2>1 DEF Signalled, IInv, TypeOK
  <2>8. TypeOK'
    BY <2>1, <2>2, <2>6, <2>7 DEF IInv, TypeOK
  <2>9. HoldersHeld' /\ TicketsTyped'
    BY <2>1, <2>2 DEF IInv, TypeOK, HoldersHeld, TicketsTyped, Waiting
  <2>10. CardInv'
    BY <2>1, LeavingKeepsCard DEF IInv
  <2>11. QED  BY <2>6, <2>8, <2>9, <2>10 DEF IInv
<1>5. ASSUME NEW c \in Calls, Release(c) PROVE IInv'
  <2>1. /\ phase[c] = "held" /\ active' = active \ {c} /\ barriers' = barriers \ {c}
        /\ lapsed' = lapsed \ {c}
        /\ UNCHANGED <<req, stamp, seq, queue, aged, firing>>
    BY <1>5 DEF Release
  <2>2. /\ phase' \in [Calls -> Phases] /\ phase'[c] = "released"
        /\ \A d \in Calls \ {c} :
              phase'[d] = phase[d] \/ (phase[d] = "parked" /\ phase'[d] = "woken")
    BY <1>5 DEF Release, Signalled, IInv, TypeOK, Phases
  <2>3. idler' \in [Idlers -> {"idle", "woken", "parked", "done"}]
    BY <1>5 DEF Release, Signalled, IInv, TypeOK
  <2>4. TypeOK'
    BY <2>1, <2>2, <2>3 DEF IInv, TypeOK
  <2>5. \A d \in Calls : phase'[d] \in Waiting <=> phase[d] \in Waiting
    BY <2>1, <2>2 DEF Waiting
  <2>6. QueueInv'
    BY <2>1, <2>5, SameQueue DEF IInv, TypeOK
  <2>7. HoldersHeld' /\ TicketsTyped'
    BY <2>1, <2>2 DEF IInv, TypeOK, HoldersHeld, TicketsTyped
  <2>8. CardInv'
    BY <2>1, LeavingKeepsCard DEF IInv
  <2>9. QED  BY <2>4, <2>6, <2>7, <2>8 DEF IInv
<1>6. ASSUME NEW c \in Calls, ReleaseExpired(c) PROVE IInv'
  <2>1. /\ active' \subseteq active /\ lapsed' \subseteq active' /\ firing' \subseteq firing
        /\ UNCHANGED <<req, stamp, seq, queue, aged, barriers>>
    BY <1>6 DEF ReleaseExpired, IInv, TypeOK
  <2>2. /\ phase' \in [Calls -> Phases]
        /\ \A d \in Calls :
              phase'[d] = phase[d] \/ (phase[d] = "parked" /\ phase'[d] = "woken")
    BY <1>6 DEF ReleaseExpired, Signalled, IInv, TypeOK, Phases
  <2>3. idler' \in [Idlers -> {"idle", "woken", "parked", "done"}]
    BY <1>6 DEF ReleaseExpired, Signalled, IInv, TypeOK
  <2>4. TypeOK'
    BY <2>1, <2>2, <2>3 DEF IInv, TypeOK
  <2>5. \A d \in Calls : phase'[d] \in Waiting <=> phase[d] \in Waiting
    BY <2>2 DEF Waiting
  <2>6. QueueInv'
    BY <2>1, <2>5, SameQueue DEF IInv, TypeOK
  <2>7. HoldersHeld' /\ TicketsTyped'
    BY <2>1, <2>2 DEF IInv, TypeOK, HoldersHeld, TicketsTyped
  <2>8. CardInv'
    BY <2>1, LeavingKeepsCard DEF IInv
  <2>9. QED  BY <2>4, <2>6, <2>7, <2>8 DEF IInv
<1>7. ASSUME \/ \E c \in Calls : Touch(c) \/ Lapse(c) \/ Age(c)
             \/ \E w \in Idlers : WaitIdle(w)
             \/ UNCHANGED vars
      PROVE  IInv'
  <2>1. UNCHANGED <<phase, req, stamp, seq, queue, active, barriers>>
    BY <1>7 DEF Touch, Lapse, Age, WaitIdle, vars
  <2>2. /\ aged' \subseteq Calls /\ lapsed' \subseteq active /\ firing' \subseteq Calls
        /\ idler' \in [Idlers -> {"idle", "woken", "parked", "done"}]
    BY <1>7 DEF Touch, Lapse, Age, WaitIdle, vars, IInv, TypeOK
  <2>3. TypeOK'
    BY <2>1, <2>2 DEF IInv, TypeOK
  <2>4. QueueInv' /\ HoldersHeld' /\ TicketsTyped'
    BY <2>1, <2>3 DEF IInv, QueueInv, QueuedWait, WaitersQueued, QueuedOnce, HoldersHeld,
                      TicketsTyped
  <2>5. CardInv'
    BY <2>1, LeavingKeepsCard DEF IInv
  <2>6. QED  BY <2>3, <2>4, <2>5 DEF IInv
<1>8. QED
  BY <1>1, <1>2, <1>3, <1>4, <1>5, <1>6, <1>7 DEF Next

\* The inductive invariant holds of every behaviour.
THEOREM Inductive == Spec => []IInv
<1>1. QED  BY InitIInv, NextIInv, PTL DEF Spec

\* Type correctness, for any set of calls and any requests.
THEOREM TypeCorrect == Spec => []TypeOK
<1>1. IInv => TypeOK  BY DEF IInv
<1>2. QED  BY <1>1, Inductive, PTL

\* The card is never shared by leases that exclude one another.
THEOREM CardIsExclusive == Spec => []CardExclusive
<1>1. IInv => CardExclusive  BY DEF IInv, CardInv
<1>2. QED  BY <1>1, Inductive, PTL

\* MaxSessions and MaxQMITransports are never exceeded.
THEOREM LimitsHold == Spec => []WithinLimits
<1>1. IInv => WithinLimits  BY DEF IInv, CardInv
<1>2. QED  BY <1>1, Inductive, PTL

\* A barrier keeps its classes off the card for as long as it stands.
THEOREM BarriersHold == Spec => []BarrierHolds
<1>1. IInv => BarrierHolds  BY DEF IInv, CardInv
<1>2. QED  BY <1>1, Inductive, PTL

\* No ticket is lost from the queue, left behind in it or queued twice.
THEOREM QueueCorrect == Spec => []QueueIsWaiters
<1>1. IInv => QueueIsWaiters
  BY DEF IInv, QueueInv, QueuedWait, WaitersQueued, QueuedOnce, QueueIsWaiters
<1>2. QED  BY <1>1, Inductive, PTL

\* Leases end only by their owner's Release or a lapsed watchdog.
THEOREM LeaseEnds == Spec => LeaseEndsByOwnerOrWatchdog
<1>1. IInv /\ [Next]_vars =>
        [\A c \in active : c \in active' \/ phase'[c] = "released" \/ c \in lapsed]_vars
  <2> SUFFICES ASSUME IInv, Next, NEW d \in active, d \notin active'
               PROVE  phase'[d] = "released" \/ d \in lapsed
    BY DEF vars
  <2>1. ASSUME NEW c \in Calls, Release(c) PROVE phase'[d] = "released"
    <3>1. d = c  BY <2>1 DEF Release
    <3>2. QED  BY <2>1, <3>1 DEF Release, Signalled, IInv, TypeOK, Phases
  <2>2. ASSUME NEW c \in Calls, ReleaseExpired(c) PROVE d \in lapsed
    BY <2>2 DEF ReleaseExpired
  <2>3. QED
    BY <2>1, <2>2
       DEF Next, NewTicket, Enqueue, Retry, Acquire, Timeout, Touch, Lapse, Age, WaitIdle
<1>2. QED  BY <1>1, Inductive, PTL DEF Spec, LeaseEndsByOwnerOrWatchdog

-----------------------------------------------------------------------------
\* An admission is an Admit or a Raise of CardAccess.
LEMMA AcquireImplements ==
    ASSUME IInv, NEW c \in Calls, NEW q \in Seq(Calls), phase[c] # "held",
           Acquire(c, q), req' = req
    PROVE  Card!Admit(c) \/ Card!Raise(c)
<1>1. c \notin active \cup barriers
  BY DEF IInv, HoldersHeld
<1>2. CASE req[c].type = "barrier"
  BY <1>1, <1>2
     DEF Acquire, CanAcquire, CanAcquireLease, CanAcquireBarrier, Card!Raise
<1>3. CASE req[c].type # "barrier"
  <2>1. active' = active \cup {c} /\ barriers' = barriers /\ CanAcquireLease(c, q)
    BY <1>3 DEF Acquire, CanAcquire, CanAcquireBarrier
  <2>2. ActiveOf("session") = Card!SessionHolders /\ QMITransports = Card!ChannelHolders
    BY DEF ActiveOf, QMITransports, Transports, Card!SessionHolders, Card!ChannelHolders
  <2>3. /\ \A d \in active : Card!MayShare(req[c], req[d])
        /\ \A b \in barriers : req[c].class \notin req[b].blocked
        /\ req[c].type = "session" => Cardinality(ActiveOf("session")) < MaxSessions
        /\ req[c].type = "transport" /\ req[c].scope = "qmi_channel"
           => Cardinality(QMITransports) < MaxQMITransports
    BY <2>1, AdmissionSound DEF IInv, CardInv
  <2>4. \A S : Card!Cardinality(S) = Cardinality(S)
    BY DEF Card!Cardinality, Cardinality
  <2>5. Card!Admit(c)
    BY <1>1, <1>3, <2>1, <2>2, <2>3, <2>4 DEF Card!Admit
  <2>6. QED  BY <2>5
<1>4. QED  BY <1>2, <1>3

\* The arbiter implements what it promises its users.
THEOREM Refinement == Spec => ImplementsCardAccess
<1>1. Init => Card!Init
  BY InitIInv DEF Init, Card!Init, IInv, TypeOK
<1>2. IInv /\ [Next]_vars => [Card!Next]_(Card!cardVars)
  <2> SUFFICES ASSUME IInv, [Next]_vars PROVE [Card!Next]_(Card!cardVars)
    OBVIOUS
  <2> USE DEF Card!cardVars
  <2>1. ASSUME NEW c \in Calls, NEW r \in Requests, NewTicket(c, r)
        PROVE  Card!Next
    <3>1. c \notin active \cup barriers /\ Normalize(r) \in Ticket
      BY <2>1, NormalizeType, RequestsAssumption DEF NewTicket, IInv, HoldersHeld
    <3>2. Card!Ask(c)
      BY <2>1, <3>1 DEF NewTicket, IInv, TypeOK, Card!Ask
    <3>3. QED  BY <3>2 DEF Card!Next
  <2>2. ASSUME NEW c \in Calls, Enqueue(c) PROVE Card!Next \/ UNCHANGED Card!cardVars
    <3>1. Append(queue, c) \in Seq(Calls) /\ phase[c] # "held" /\ req' = req
      BY <2>2 DEF Enqueue, IInv, TypeOK
    <3>2. CASE Acquire(c, Append(queue, c))
      BY <3>1, <3>2, AcquireImplements DEF Card!Next
    <3>3. CASE ~Acquire(c, Append(queue, c))
      BY <2>2, <3>3 DEF Enqueue
    <3>4. QED  BY <3>2, <3>3
  <2>3. ASSUME NEW c \in Calls, Retry(c) PROVE Card!Next \/ UNCHANGED Card!cardVars
    <3>1. queue \in Seq(Calls) /\ phase[c] # "held" /\ req' = req
      BY <2>3 DEF Retry, IInv, TypeOK
    <3>2. CASE Acquire(c, queue)
      BY <3>1, <3>2, AcquireImplements DEF Card!Next
    <3>3. CASE ~Acquire(c, queue)
      BY <2>3, <3>3 DEF Retry
    <3>4. QED  BY <3>2, <3>3
  <2>4. ASSUME NEW c \in Calls, Release(c) PROVE Card!Next \/ UNCHANGED Card!cardVars
    <3>1. CASE c \in active \cup barriers
      BY <2>4, <3>1 DEF Release, Card!Leave, Card!Next
    <3>2. CASE c \notin active \cup barriers
      BY <2>4, <3>2 DEF Release
    <3>3. QED  BY <3>1, <3>2
  <2>5. ASSUME NEW c \in Calls, ReleaseExpired(c)
        PROVE  Card!Next \/ UNCHANGED Card!cardVars
    <3>1. CASE c \in active \cap lapsed
      <4>1. c \notin barriers
        BY <3>1 DEF IInv, CardInv, HoldersTyped
      <4>2. Card!Leave(c)
        BY <2>5, <3>1, <4>1 DEF ReleaseExpired, Card!Leave
      <4>3. QED  BY <4>2 DEF Card!Next
    <3>2. CASE c \notin active \cap lapsed
      BY <2>5, <3>2 DEF ReleaseExpired
    <3>3. QED  BY <3>1, <3>2
  <2>6. ASSUME \/ \E c \in Calls : Timeout(c) \/ Touch(c) \/ Lapse(c) \/ Age(c)
               \/ \E w \in Idlers : WaitIdle(w)
               \/ UNCHANGED vars
        PROVE  UNCHANGED Card!cardVars
    BY <2>6 DEF Timeout, Touch, Lapse, Age, WaitIdle, vars
  <2>7. QED
    BY <2>1, <2>2, <2>3, <2>4, <2>5, <2>6 DEF Next
<1>3. QED
  BY <1>1, <1>2, Inductive, PTL DEF Spec, ImplementsCardAccess, Card!Spec

-----------------------------------------------------------------------------
(* The order of admission.                                                 *)

\* A lease is admitted by an evaluation of its own ticket, on the queue as it stands or on
\* the queue with the ticket appended to it.
LEMMA AdmittedFrom ==
    ASSUME IInv, Next, NEW c \in active' \ active
    PROVE  /\ c \in Calls
           /\ \E q \in Seq(Calls) :
                 /\ CanAcquireLease(c, q)
                 /\ \A i \in DOMAIN queue : i \in DOMAIN q /\ q[i] = queue[i]
                 /\ \A i, j \in DOMAIN q : q[i] = q[j] => i = j
                 /\ q = queue \/ \A i \in DOMAIN queue : queue[i] # c
<1>1. \E d \in Calls : Enqueue(d) \/ Retry(d)
  BY DEF Next, NewTicket, Timeout, Release, Touch, Lapse, ReleaseExpired, Age, WaitIdle
<1>2. PICK d \in Calls : Enqueue(d) \/ Retry(d)  BY <1>1
<1>3. queue \in Seq(Calls) /\ \A i \in DOMAIN queue : queue[i] \in Calls
  BY DEF IInv, TypeOK
<1>4. ASSUME NEW q, Acquire(d, q) PROVE c = d /\ c \in Calls /\ CanAcquireLease(c, q)
  BY <1>4 DEF Acquire, CanAcquire, CanAcquireBarrier
<1>5. CASE Retry(d)
  <2>1. Acquire(d, queue)  BY <1>5 DEF Retry
  <2>2. QED  BY <1>3, <1>4, <2>1 DEF IInv, QueueInv, QueuedOnce
<1>6. CASE Enqueue(d)
  <2> DEFINE q == Append(queue, d)
  <2>1. Acquire(d, q)  BY <1>6 DEF Enqueue
  <2>2. \A i \in DOMAIN queue : queue[i] # d
    BY <1>3, <1>6 DEF Enqueue, IInv, QueueInv, QueuedWait, Waiting
  <2>3. /\ q \in Seq(Calls) /\ q[Len(q)] = d
        /\ \A i \in DOMAIN queue : i \in DOMAIN q /\ q[i] = queue[i]
        /\ \A i \in DOMAIN q : i \in DOMAIN queue \/ i = Len(q)
    BY <1>3
  <2>4. c = d /\ c \in Calls /\ CanAcquireLease(c, q)  BY <1>4, <2>1
  <2> HIDE DEF q
  <2>5. \A i, j \in DOMAIN q : q[i] = q[j] => i = j
    BY <2>2, <2>3 DEF IInv, QueueInv, QueuedOnce
  <2>6. QED  BY <2>2, <2>3, <2>4, <2>5
<1>7. QED  BY <1>2, <1>5, <1>6

\* Nothing overtakes a queued barrier: sessions and oneshots are admitted at the head of the
\* queue only, and the scan for a transport ends at the first ticket that is none.
THEOREM BarrierIsNotPassed == Spec => NothingPassesBarrier
<1>1. ASSUME IInv, Next, NEW c \in active' \ active, NEW i \in DOMAIN queue,
             NEW j \in DOMAIN queue, i < j, queue[j] = c
      PROVE  req[queue[i]].type # "barrier"
  <2>1. c \in Calls /\ queue \in Seq(Calls)  BY <1>1, AdmittedFrom DEF IInv, TypeOK
  <2>2. CanAcquireLease(c, queue)  BY <1>1, <2>1, AdmittedFrom
  <2>3. i \in 1 .. Len(queue) /\ j \in 1 .. Len(queue)  BY <2>1
  <2>4. Head(queue) # c
    <3>1. 1 \in DOMAIN queue /\ Head(queue) = queue[1] /\ j # 1  BY <1>1, <2>1, <2>3
    <3>2. QED  BY <1>1, <3>1 DEF IInv, QueueInv, QueuedOnce
  <2>5. PICK k \in Eligible(queue) : queue[k] = c
    BY <2>2, <2>4 DEF CanAcquireLease, SelectedTransport, Preferred
  <2>6. k = j  BY <1>1, <2>5 DEF Eligible, IInv, QueueInv, QueuedOnce
  <2>7. ~ScanStops(queue[i])  BY <1>1, <2>3, <2>5, <2>6 DEF Eligible
  <2>8. QED  BY <2>7 DEF ScanStops
<1>2. IInv /\ [Next]_vars =>
        [\A c \in (active' \ active), i, j \in DOMAIN queue :
            i < j /\ queue[j] = c => req[queue[i]].type # "barrier"]_vars
  BY <1>1
<1>3. QED  BY <1>2, Inductive, PTL DEF Spec, NothingPassesBarrier

\* A transport that is admitted is the first of those the scan prefers.
LEMMA TransportIsPreferred ==
    ASSUME NEW c, NEW q, CanAcquireLease(c, q), req[c].type = "transport"
    PROVE  \E k \in Preferred(q) : q[k] = c /\ \A j \in Preferred(q) : k <= j
BY DEF CanAcquireLease, SelectedTransport

\* What the scan would take is still what it would take when a ticket is appended.
LEMMA EligibleStays ==
    ASSUME queue \in Seq(Calls), NEW q \in Seq(Calls),
           \A i \in DOMAIN queue : i \in DOMAIN q /\ q[i] = queue[i],
           NEW i \in Eligible(queue)
    PROVE  i \in Eligible(q) /\ q[i] = queue[i]
<1>1. i \in DOMAIN queue /\ \A j \in 1 .. i : j \in DOMAIN queue
  BY DEF Eligible
<1>2. QED  BY <1>1 DEF Eligible

\* A write that has not aged is not admitted while an AKA is eligible.
THEOREM AKAGoesFirst == Spec => AKABeforeFreshWrites
<1>1. ASSUME IInv, Next, NEW c \in active' \ active, req[c].type = "transport",
             req[c].class # "USIMAKA", c \notin aged, NEW i \in Eligible(queue)
      PROVE  req[queue[i]].class # "USIMAKA"
  <2>1. c \in Calls /\ queue \in Seq(Calls)  BY <1>1, AdmittedFrom DEF IInv, TypeOK
  <2>2. PICK q \in Seq(Calls) :
           /\ CanAcquireLease(c, q)
           /\ \A j \in DOMAIN queue : j \in DOMAIN q /\ q[j] = queue[j]
    BY <1>1, <2>1, AdmittedFrom
  <2>3. PICK k \in Preferred(q) : q[k] = c  BY <1>1, <2>2, TransportIsPreferred
  <2>4. \A j \in Eligible(q) : req[q[j]].class # "USIMAKA"
    BY <1>1, <2>3 DEF Preferred
  <2>5. QED  BY <1>1, <2>1, <2>2, <2>4, EligibleStays
<1>2. IInv /\ [Next]_vars =>
        [\A c \in (active' \ active) :
            req[c].type = "transport" /\ req[c].class # "USIMAKA" /\ c \notin aged
            => \A i \in Eligible(queue) : req[queue[i]].class # "USIMAKA"]_vars
  BY <1>1
<1>3. QED  BY <1>2, Inductive, PTL DEF Spec, AKABeforeFreshWrites

\* A call that has begun has a place in the order of tickets, and what has waited longer than
\* an aged ticket has aged too: without it the scan could prefer the younger of two.
Unserved == Waiting \cup {"created"}
StampsGiven == \A c \in Calls : phase[c] # "idle" => stamp[c] \in 1 .. seq
AgedInOrder ==
    /\ \A c \in aged : phase[c] \in Unserved
    /\ \A c \in aged, d \in Calls : stamp[d] < stamp[c] /\ phase[d] \in Unserved => d \in aged

\* The phases that a step can change.
LEMMA PhaseChanges ==
    ASSUME TypeOK, Next
    PROVE  \A d \in Calls :
              \/ phase'[d] = phase[d]
              \/ phase[d] = "parked" /\ phase'[d] = "woken"
              \/ phase[d] # "idle" /\ phase'[d] = "parked" /\ phase[d] \in Unserved
              \/ phase[d] # "idle" /\ phase'[d] \in {"held", "released", "busy"}
              \/ phase[d] = "idle" /\ phase'[d] = "created" /\ \E r \in Requests : NewTicket(d, r)
<1> SUFFICES ASSUME NEW d \in Calls
             PROVE  \/ phase'[d] = phase[d]
                    \/ phase[d] = "parked" /\ phase'[d] = "woken"
                    \/ phase[d] # "idle" /\ phase'[d] = "parked" /\ phase[d] \in Unserved
                    \/ phase[d] # "idle" /\ phase'[d] \in {"held", "released", "busy"}
                    \/ /\ phase[d] = "idle" /\ phase'[d] = "created"
                       /\ \E r \in Requests : NewTicket(d, r)
  OBVIOUS
<1> USE DEF Unserved, Waiting
<1>1. phase \in [Calls -> Phases]  BY DEF TypeOK
<1>2. ASSUME NEW c \in Calls, NEW r \in Requests, NewTicket(c, r)
      PROVE  phase'[d] = phase[d] \/ (c = d /\ phase[d] = "idle" /\ phase'[d] = "created")
  BY <1>1, <1>2 DEF NewTicket
<1>3. ASSUME NEW c \in Calls, Enqueue(c) \/ Retry(c)
      PROVE  \/ phase'[d] = phase[d]
             \/ phase[d] = "parked" /\ phase'[d] = "woken"
             \/ c = d /\ phase[d] \in Unserved /\ phase'[d] \in {"held", "parked"}
  BY <1>1, <1>3 DEF Enqueue, Retry, Acquire, Signalled
<1>4. ASSUME NEW c \in Calls, Timeout(c) \/ Release(c) \/ ReleaseExpired(c)
      PROVE  \/ phase'[d] = phase[d]
             \/ phase[d] = "parked" /\ phase'[d] = "woken"
             \/ c = d /\ phase[d] # "idle" /\ phase'[d] \in {"released", "busy"}
  BY <1>1, <1>4 DEF Timeout, Release, ReleaseExpired, Signalled
<1>5. ASSUME \/ \E c \in Calls : Touch(c) \/ Lapse(c) \/ Age(c)
             \/ \E w \in Idlers : WaitIdle(w)
      PROVE  phase'[d] = phase[d]
  BY <1>5 DEF Touch, Lapse, Age, WaitIdle
<1>6. QED  BY <1>2, <1>3, <1>4, <1>5 DEF Next

\* Tickets age in their order.
LEMMA AgesInOrder ==
    IInv /\ StampsGiven /\ AgedInOrder /\ [Next]_vars => StampsGiven' /\ AgedInOrder'
<1> SUFFICES ASSUME IInv, StampsGiven, AgedInOrder, [Next]_vars
             PROVE  StampsGiven' /\ AgedInOrder'
  OBVIOUS
<1> USE DEF Unserved, Waiting
<1>0. /\ seq \in Nat /\ stamp \in [Calls -> Nat] /\ phase \in [Calls -> Phases]
      /\ aged \subseteq Calls
  BY DEF IInv, TypeOK
<1>1. ASSUME NEW c \in Calls, NEW r \in Requests, NewTicket(c, r)
      PROVE  StampsGiven' /\ AgedInOrder'
  <2>1. /\ phase[c] = "idle" /\ phase' = [phase EXCEPT ![c] = "created"]
        /\ seq' = seq + 1 /\ stamp' = [stamp EXCEPT ![c] = seq + 1] /\ aged' = aged
    BY <1>1 DEF NewTicket
  <2>2. StampsGiven'  BY <1>0, <2>1 DEF StampsGiven
  <2>3. \A a \in aged : a # c /\ stamp[a] <= seq  BY <1>0, <2>1 DEF AgedInOrder, StampsGiven
  <2>4. AgedInOrder'  BY <1>0, <2>1, <2>3 DEF AgedInOrder
  <2>5. QED  BY <2>2, <2>4
<1>2. ASSUME NEW c \in Calls, Age(c) PROVE StampsGiven' /\ AgedInOrder'
  <2>1. /\ phase[c] \in Unserved /\ aged' = aged \cup {c}
        /\ \A d \in Calls :
              stamp[d] \in 1 .. (stamp[c] - 1) => d \in aged \/ phase[d] \notin Unserved
        /\ UNCHANGED <<phase, stamp, seq>>
    BY <1>2 DEF Age
  <2>2. \A d \in Calls : stamp[d] < stamp[c] /\ phase[d] \in Unserved => d \in aged
    BY <1>0, <2>1 DEF StampsGiven
  <2>3. QED  BY <2>1, <2>2 DEF StampsGiven, AgedInOrder
<1>3. ASSUME Next, ~\E c \in Calls : Age(c) \/ \E r \in Requests : NewTicket(c, r)
      PROVE  StampsGiven' /\ AgedInOrder'
  <2>1. \A d \in Calls : /\ phase'[d] # "idle" => phase[d] # "idle"
                         /\ phase'[d] \in Unserved => phase[d] \in Unserved
    BY <1>0, <1>3, PhaseChanges DEF IInv
  <2>2. UNCHANGED <<stamp, seq>>
    BY <1>3 DEF Next, Enqueue, Retry, Timeout, Release, Touch, Lapse, ReleaseExpired, WaitIdle
  <2>3. /\ aged' \subseteq aged
        /\ \A d \in aged : phase'[d] \in Unserved <=> d \in aged'
    <3>1. ASSUME NEW c \in Calls, Enqueue(c) \/ Retry(c)
          PROVE  /\ aged' \subseteq aged
                 /\ \A d \in aged : phase'[d] \in Unserved <=> d \in aged'
      BY <1>0, <3>1 DEF Enqueue, Retry, Acquire, Signalled, AgedInOrder
    <3>2. ASSUME NEW c \in Calls, Timeout(c)
          PROVE  /\ aged' \subseteq aged
                 /\ \A d \in aged : phase'[d] \in Unserved <=> d \in aged'
      BY <1>0, <3>2 DEF Timeout, Signalled, AgedInOrder
    <3>3. ASSUME NEW c \in Calls, Release(c) \/ ReleaseExpired(c)
          PROVE  /\ aged' = aged
                 /\ \A d \in aged : phase'[d] \in Unserved
      BY <1>0, <3>3 DEF Release, ReleaseExpired, Signalled, AgedInOrder
    <3>4. ASSUME \/ \E c \in Calls : Touch(c) \/ Lapse(c)
                 \/ \E w \in Idlers : WaitIdle(w)
          PROVE  aged' = aged /\ phase' = phase
      BY <3>4 DEF Touch, Lapse, WaitIdle
    <3>5. QED  BY <1>3, <3>1, <3>2, <3>3, <3>4 DEF Next, AgedInOrder
  <2>4. StampsGiven'  BY <2>1, <2>2 DEF StampsGiven
  <2>5. AgedInOrder'  BY <1>0, <2>1, <2>2, <2>3 DEF AgedInOrder
  <2>6. QED  BY <2>4, <2>5
<1>4. CASE UNCHANGED vars  BY <1>4 DEF vars, StampsGiven, AgedInOrder
<1>5. QED  BY <1>1, <1>2, <1>3, <1>4

\* Within a class transports are admitted in the order of their tickets: what is ahead in the
\* queue and in age is preferred whenever the other is.
THEOREM ClassIsFIFO == Spec => ClassFIFO
<1> DEFINE OInv == IInv /\ StampsGiven /\ AgedInOrder
<1>1. Init => OInv  BY InitIInv DEF Init, StampsGiven, AgedInOrder
<1>2. OInv /\ [Next]_vars => OInv'  BY NextIInv, AgesInOrder
<1>3. ASSUME OInv, Next, NEW c \in active' \ active, req[c].type = "transport",
             NEW i \in Eligible(queue), NEW d, d = queue[i], d # c, req[d].class = req[c].class,
             NEW j \in DOMAIN queue, i < j, queue[j] = c, stamp[d] < stamp[c]
      PROVE  FALSE
  <2>1. c \in Calls /\ queue \in Seq(Calls) /\ i \in DOMAIN queue /\ d \in Calls
    BY <1>3, AdmittedFrom DEF IInv, TypeOK, Eligible
  <2>2. CanAcquireLease(c, queue)  BY <1>3, <2>1, AdmittedFrom
  <2>3. PICK k \in Preferred(queue) : queue[k] = c /\ \A m \in Preferred(queue) : k <= m
    BY <1>3, <2>2, TransportIsPreferred
  <2>4. k \in DOMAIN queue  BY <2>3 DEF Preferred, Eligible
  <2>5. k = j  BY <1>3, <2>3, <2>4 DEF IInv, QueueInv, QueuedOnce
  <2>6. i \notin Preferred(queue)  BY <1>3, <2>1, <2>3, <2>5
  <2>7. c \in aged => d \in aged
    <3>1. phase[d] \in Unserved
      BY <1>3, <2>1 DEF IInv, QueueInv, QueuedWait, Unserved
    <3>2. QED  BY <1>3, <2>1, <3>1 DEF AgedInOrder
  <2>8. QED  BY <1>3, <2>3, <2>5, <2>6, <2>7 DEF Preferred
<1> HIDE DEF OInv
<1>4. OInv /\ [Next]_vars =>
        [\A c \in (active' \ active) : req[c].type = "transport" =>
            \A i \in Eligible(queue) :
               LET d == queue[i] IN
               /\ d # c /\ req[d].class = req[c].class
               /\ \E j \in DOMAIN queue : queue[j] = c
               => ~(stamp[d] < stamp[c] /\ \E j \in DOMAIN queue : i < j /\ queue[j] = c)]_vars
  BY <1>3
<1>5. QED  BY <1>1, <1>2, <1>4, PTL DEF Spec, ClassFIFO

-----------------------------------------------------------------------------
(* Nobody sleeps who could go.                                             *)

\* Admission depends on the queue, on what is active and on the tickets of those concerned.
LEMMA SameAdmission ==
    ASSUME NEW d, NEW q \in Seq(Calls), queue' = q, UNCHANGED <<active, barriers, aged>>,
           \A x \in active \cup barriers : req'[x] = req[x],
           \A i \in DOMAIN q : req'[q[i]] = req[q[i]],
           req'[d] = req[d]
    PROVE  CanAcquire(d, queue)' <=> CanAcquire(d, q)
<1>1. \A type : ActiveOf(type)' = ActiveOf(type)  BY DEF ActiveOf
<1>2. /\ Transports' = Transports
      /\ ExclusiveTransports' = ExclusiveTransports /\ QMITransports' = QMITransports
      /\ \A t \in QMITransports : req'[t] = req[t]
  BY <1>1 DEF Transports, ExclusiveTransports, QMITransports, ActiveOf
<1>3. \A class : BlockedByActiveBarrier(class)' <=> BlockedByActiveBarrier(class)
  BY DEF BlockedByActiveBarrier
<1>4. \A i \in DOMAIN q : \A j \in 1 .. i : j \in DOMAIN q /\ req'[q[j]] = req[q[j]]
  OBVIOUS
<1>5. \A i \in DOMAIN q :
         /\ CanAcquireTransportNow(queue[i])' <=> CanAcquireTransportNow(q[i])
         /\ ScanStops(queue[i])' <=> ScanStops(q[i])
  BY <1>2, <1>3 DEF CanAcquireTransportNow, ScanStops, TransportWaitGatesQueue,
                    BlockedByActiveBarrier
<1>6. Eligible(queue)' = Eligible(q)
  <2>1. Eligible(queue)' =
          {i \in DOMAIN q : /\ \A j \in 1 .. i : ~ScanStops(queue[j])'
                            /\ ~BlockedByActiveBarrier(req'[q[i]].class)
                            /\ CanAcquireTransportNow(queue[i])'}
    BY DEF Eligible, BlockedByActiveBarrier
  <2>2. QED  BY <1>4, <1>5, <2>1 DEF Eligible
<1>7. Preferred(queue)' = Preferred(q)
  <2>1. \A i \in Eligible(q) : req'[q[i]] = req[q[i]]  BY DEF Eligible
  <2>2. {i \in Eligible(queue)' : req'[q[i]].class # "USIMAKA" /\ q[i] \in aged}
          = {i \in Eligible(q) : req[q[i]].class # "USIMAKA" /\ q[i] \in aged}
    BY <1>6, <2>1
  <2>3. {i \in Eligible(queue)' : req'[q[i]].class = "USIMAKA"}
          = {i \in Eligible(q) : req[q[i]].class = "USIMAKA"}
    BY <1>6, <2>1
  <2>4. QED  BY <1>6, <2>2, <2>3, Zenon DEF Preferred
<1>8. SelectedTransport(d, queue)' <=> SelectedTransport(d, q)
  BY <1>7 DEF SelectedTransport
<1>9. SelectedBarrier(d, queue)' <=> SelectedBarrier(d, q)
  <2>1. \A i \in DOMAIN q : \A j \in 1 .. (i - 1) : j \in DOMAIN q  OBVIOUS
  <2>2. QED  BY <2>1 DEF SelectedBarrier
<1>10. PendingBarrierAhead(d, queue)' <=> PendingBarrierAhead(d, q)
  BY DEF PendingBarrierAhead
<1>11. CanAcquireLease(d, queue)' <=> CanAcquireLease(d, q)
  BY <1>1, <1>2, <1>3, <1>8, <1>10 DEF CanAcquireLease
<1>12. CanAcquireBarrier(d, queue)' <=> CanAcquireBarrier(d, q)
  BY <1>9 DEF CanAcquireBarrier
<1>13. QED  BY <1>11, <1>12 DEF CanAcquire

\* A step after which nobody sleeps but those who slept before, and that leaves what they look
\* at alone, wakes enough.
LEMMA SleepersStay ==
    ASSUME IInv, NobodySleepsAdmissible, UNCHANGED <<queue, active, barriers, aged>>,
           \A d \in Calls : phase[d] # "idle" => req'[d] = req[d],
           \A d \in Calls : phase'[d] = "parked" => phase[d] = "parked",
           \A w \in Idlers : idler'[w] = "parked" => idler[w] = "parked"
    PROVE  NobodySleepsAdmissible'
<1>1. queue \in Seq(Calls) /\ \A i \in DOMAIN queue : queue[i] \in Calls
  BY DEF IInv, TypeOK
<1>2. \A x \in active \cup barriers : req'[x] = req[x]
  BY DEF IInv, TypeOK, HoldersHeld
<1>3. \A i \in DOMAIN queue : req'[queue[i]] = req[queue[i]]
  BY <1>1 DEF IInv, QueueInv, QueuedWait, Waiting
<1>4. ASSUME NEW d \in Calls, phase'[d] = "parked" PROVE ~CanAcquire(d, queue)'
  <2>1. ~CanAcquire(d, queue) /\ req'[d] = req[d]  BY <1>4 DEF NobodySleepsAdmissible
  <2>2. QED  BY <1>1, <1>2, <1>3, <2>1, SameAdmission
<1>5. IsIdle' = IsIdle  BY DEF IsIdle
<1>6. QED  BY <1>4, <1>5 DEF NobodySleepsAdmissible

\* Who sleeps has seen that it cannot go, and whatever changes that wakes everybody: if waits do
\* not age, for an age that is reached signals nobody (the stall the module describes).
THEOREM SleepersCannotGo ==
    ASSUME ~WaitsMayAge
    PROVE  Spec => []NobodySleepsAdmissible
<1> DEFINE SInv == IInv /\ NobodySleepsAdmissible /\ aged = {}
<1>1. Init => SInv  BY InitIInv DEF Init, NobodySleepsAdmissible
<1>2. ASSUME SInv, [Next]_vars PROVE NobodySleepsAdmissible' /\ aged' = {}
  <2>0. /\ phase \in [Calls -> Phases] /\ queue \in Seq(Calls)
        /\ idler \in [Idlers -> {"idle", "woken", "parked", "done"}]
    BY <1>2 DEF IInv, TypeOK
  <2>1. aged' = {}
    BY <1>2 DEF Next, vars, NewTicket, Enqueue, Retry, Acquire, Timeout, Release, Touch, Lapse,
                ReleaseExpired, Age, WaitIdle
  <2>2. ASSUME NEW c \in Calls, NEW r \in Requests, NewTicket(c, r) PROVE NobodySleepsAdmissible'
    <3>1. /\ phase[c] = "idle" /\ phase' = [phase EXCEPT ![c] = "created"]
          /\ req' = [req EXCEPT ![c] = Normalize(r)]
          /\ UNCHANGED <<queue, aged, active, barriers, idler>>
      BY <2>2 DEF NewTicket
    <3>2. \A d \in Calls : phase[d] # "idle" => req'[d] = req[d]
      BY <1>2, <3>1 DEF IInv, TypeOK
    <3>3. \A d \in Calls : phase'[d] = "parked" => phase[d] = "parked"  BY <2>0, <3>1
    <3>4. QED  BY <1>2, <3>1, <3>2, <3>3, SleepersStay
  <2>3. ASSUME NEW c \in Calls, NEW q \in Seq(Calls), Acquire(c, q)
        PROVE  NobodySleepsAdmissible'
    BY <2>0, <2>3 DEF Acquire, Signalled, NobodySleepsAdmissible
  <2>4. ASSUME NEW c \in Calls, Enqueue(c), ~Acquire(c, Append(queue, c))
        PROVE  NobodySleepsAdmissible'
    <3> DEFINE q == Append(queue, c)
    <3>1. /\ q \in Seq(Calls) /\ ~CanAcquire(c, q) /\ queue' = q
          /\ UNCHANGED <<req, aged, active, barriers>>
      BY <2>0, <2>4 DEF Enqueue
    <3>2. /\ \A d \in Calls : phase'[d] = "parked" => d = c
          /\ \A w \in Idlers : idler'[w] # "parked"
      BY <2>0, <2>4 DEF Enqueue, Signalled
    <3> HIDE DEF q
    <3>3. ~CanAcquire(c, queue)'  BY <3>1, SameAdmission
    <3>4. QED  BY <3>2, <3>3 DEF NobodySleepsAdmissible
  <2>5. ASSUME NEW c \in Calls, Retry(c), ~Acquire(c, queue) PROVE NobodySleepsAdmissible'
    <3>1. /\ ~CanAcquire(c, queue) /\ phase' = [phase EXCEPT ![c] = "parked"]
          /\ UNCHANGED <<req, queue, aged, active, barriers, idler>>
      BY <2>5 DEF Retry
    <3>2. \A d \in Calls : phase'[d] = "parked" => ~CanAcquire(d, queue)
      BY <1>2, <2>0, <3>1 DEF NobodySleepsAdmissible
    <3>3. \A d \in Calls : CanAcquire(d, queue)' <=> CanAcquire(d, queue)
      BY <2>0, <3>1, SameAdmission
    <3>4. IsIdle' = IsIdle  BY <3>1 DEF IsIdle
    <3>5. QED  BY <1>2, <3>1, <3>2, <3>3, <3>4 DEF NobodySleepsAdmissible
  <2>6. ASSUME NEW c \in Calls, Timeout(c) PROVE NobodySleepsAdmissible'
    BY <2>0, <2>6 DEF Timeout, Signalled, NobodySleepsAdmissible
  <2>7. ASSUME NEW c \in Calls, Release(c) PROVE NobodySleepsAdmissible'
    <3>1. CASE c \in active \cup barriers
      BY <2>0, <2>7, <3>1 DEF Release, Signalled, NobodySleepsAdmissible
    <3>2. CASE c \notin active \cup barriers
      <4>1. /\ phase' = [phase EXCEPT ![c] = "released"]
            /\ UNCHANGED <<req, queue, aged, active, barriers, idler>>
        BY <2>7, <3>2 DEF Release
      <4>2. \A d \in Calls : phase'[d] = "parked" => phase[d] = "parked"  BY <2>0, <4>1
      <4>3. QED  BY <1>2, <4>1, <4>2, SleepersStay
    <3>3. QED  BY <3>1, <3>2
  <2>8. ASSUME NEW c \in Calls, ReleaseExpired(c) PROVE NobodySleepsAdmissible'
    <3>1. CASE c \in active \cap lapsed
      BY <2>0, <2>8, <3>1 DEF ReleaseExpired, Signalled, NobodySleepsAdmissible
    <3>2. CASE c \notin active \cap lapsed
      BY <1>2, <2>8, <3>2, SleepersStay DEF ReleaseExpired
    <3>3. QED  BY <3>1, <3>2
  <2>9. ASSUME NEW c \in Calls, Touch(c) \/ Lapse(c) PROVE NobodySleepsAdmissible'
    BY <1>2, <2>9, SleepersStay DEF Touch, Lapse
  <2>10. ASSUME NEW w \in Idlers, WaitIdle(w) PROVE NobodySleepsAdmissible'
    <3>1. /\ UNCHANGED <<phase, req, queue, aged, active, barriers>>
          /\ idler' = [idler EXCEPT ![w] = IF IsIdle THEN "done" ELSE "parked"]
      BY <2>10 DEF WaitIdle
    <3>2. \A d \in Calls : CanAcquire(d, queue)' <=> CanAcquire(d, queue)
      BY <2>0, <3>1, SameAdmission
    <3>3. \A v \in Idlers : idler'[v] = "parked" => ~IsIdle
      BY <1>2, <2>0, <3>1 DEF NobodySleepsAdmissible
    <3>4. IsIdle' = IsIdle  BY <3>1 DEF IsIdle
    <3>5. QED  BY <1>2, <3>1, <3>2, <3>3, <3>4 DEF NobodySleepsAdmissible
  <2>11. CASE UNCHANGED vars
    BY <1>2, <2>11, SleepersStay DEF vars
  <2>12. ASSUME NEW c \in Calls, Enqueue(c) \/ Retry(c) PROVE NobodySleepsAdmissible'
    <3>1. Append(queue, c) \in Seq(Calls)  BY <2>0
    <3>2. QED  BY <2>0, <2>3, <2>4, <2>5, <2>12, <3>1
  <2>13. ~\E c \in Calls : Age(c)  BY DEF Age
  <2>14. QED
    BY <1>2, <2>1, <2>2, <2>6, <2>7, <2>8, <2>9, <2>10, <2>11, <2>12, <2>13 DEF Next
<1>3. SInv /\ [Next]_vars => SInv'  BY <1>2, NextIInv
<1>4. SInv => NobodySleepsAdmissible  OBVIOUS
<1> HIDE DEF SInv
<1>5. QED  BY <1>1, <1>3, <1>4, PTL DEF Spec
=============================================================================
