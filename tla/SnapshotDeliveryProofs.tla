----------------------- MODULE SnapshotDeliveryProofs -----------------------
(***************************************************************************)
(* Proofs about SnapshotDelivery, for a buffer of any size and any number  *)
(* of snapshots of any kinds: what the backend holds, what is on disk and  *)
(* what is in the network never disagree, and the two programs implement   *)
(* SnapshotFeed.                                                           *)
(***************************************************************************)
EXTENDS SnapshotDelivery, TLAPS

(* The bounds are numbers. *)
LEMMA Bounds == MaxPending \in Nat \ {0} /\ MaxBuilt \in Nat
  BY DeliveryAssumption

USE Bounds

Taken(s) == \E j \in DOMAIN ingested : ingested[j].id = s.id

(* Nothing is lost when s is dropped, whatever its date. *)
Settled(s) == s.kind # "good" \/ Taken(s)

IsHead(s) == disk.pending # <<>> /\ s = disk.pending[1]

(* What waits was measured in the order of its numbers. *)
PendingOrdered ==
  /\ \A i \in DOMAIN disk.pending : disk.pending[i].id <= built
  /\ \A i, j \in DOMAIN disk.pending : i < j => disk.pending[i].id < disk.pending[j].id

(* The backend is no further than the snapshot that is sent next. *)
BackendBehind ==
  /\ \A j \in DOMAIN ingested :
       /\ ingested[j].id <= built
       /\ \/ IsHead(ingested[j])
          \/ /\ ingested[j].sequence <= disk.sequence
             /\ \A i \in DOMAIN disk.pending : ingested[j].id < disk.pending[i].id
  /\ \/ lastSequence <= disk.sequence
     \/ /\ lastSequence = disk.sequence + 1
        /\ disk.pending # <<>> /\ Taken(disk.pending[1])

(* A request that is still in the network is the one sent next, or the     *)
(* collector is done with it; it was measured before all that wait, and    *)
(* after what has a lower number, in the network and at the backend.  So   *)
(* the backend may still take it, after the collector gave it up for its   *)
(* date, without taking anything out of order.                             *)
LateHarmless ==
  \A s \in late :
    /\ s.id <= built
    /\ \/ IsHead(s)
       \/ /\ s.sequence <= disk.sequence
          /\ \A i \in DOMAIN disk.pending : s.id < disk.pending[i].id
    /\ \A t \in late : t.sequence < s.sequence => t.id < s.id
    /\ \A j \in DOMAIN ingested : ingested[j].sequence < s.sequence => ingested[j].id < s.id

(* A final answer to the request means that its snapshot is settled, or    *)
(* that the date was refused.                                              *)
AnswersTrue ==
  /\ step \in {"sent", "answered"} => disk.pending # <<>>
  /\ step = "answered" /\ reply \in FinalReplies =>
       Settled(disk.pending[1]) \/ reply = "untimely"

Inv ==
  /\ TypeOK /\ BufferResumes /\ PendingOrdered
  /\ IngestedOnceInOrder /\ BackendBehind /\ LateHarmless /\ AnswersTrue

(* What Append does. *)
LEMMA AppendFacts ==
  ASSUME NEW S, NEW s \in Seq(S), NEW e \in S
  PROVE  /\ Append(s, e) \in Seq(S)
         /\ Append(s, e) # <<>>
         /\ Len(s) \in Nat /\ DOMAIN s = 1 .. Len(s)
         /\ Len(Append(s, e)) = Len(s) + 1
         /\ DOMAIN Append(s, e) = 1 .. Len(s) + 1
         /\ \A i \in 1 .. Len(s) : Append(s, e)[i] = s[i]
         /\ Append(s, e)[Len(s) + 1] = e
  OBVIOUS

(* What Head and Tail do. *)
LEMMA TailFacts ==
  ASSUME NEW S, NEW s \in Seq(S), s # <<>>
  PROVE  /\ Tail(s) \in Seq(S)
         /\ Len(s) \in Nat \ {0} /\ DOMAIN s = 1 .. Len(s)
         /\ Len(Tail(s)) = Len(s) - 1
         /\ DOMAIN Tail(s) = 1 .. Len(s) - 1
         /\ \A i \in 1 .. Len(s) - 1 : Tail(s)[i] = s[i + 1]
         /\ Head(s) = s[1] /\ s[1] \in S
  OBVIOUS

(* The two fields of the state file. *)
LEMMA DiskFields ==
  ASSUME NEW d \in [sequence : Nat, pending : Seq(Snapshots)],
         NEW p \in Seq(Snapshots)
  PROVE  LET e == [d EXCEPT !.pending = p]
         IN  /\ e \in [sequence : Nat, pending : Seq(Snapshots)]
             /\ e.sequence = d.sequence /\ e.pending = p
  OBVIOUS

(* What a snapshot consists of. *)
LEMMA SnapshotFields ==
  ASSUME NEW s \in Snapshots
  PROVE  /\ s.id \in 1 .. MaxBuilt /\ s.sequence \in Nat
         /\ s.kind \in {"malformed", "untargeted", "good"}
  BY DEF Snapshots, AllKinds

(* The next number follows all that wait. *)
LEMMA HighestIsNext ==
  ASSUME TypeOK, BufferResumes
  PROVE  Highest = disk.sequence + Len(disk.pending)
<1> DEFINE S == {disk.sequence} \cup {disk.pending[i].sequence : i \in DOMAIN disk.pending}
           top == disk.sequence + Len(disk.pending)
<1>1. /\ disk.sequence \in Nat /\ disk.pending \in Seq(Snapshots)
  BY DEF TypeOK
<1>2. DOMAIN disk.pending = 1 .. Len(disk.pending) /\ Len(disk.pending) \in Nat
  BY <1>1
<1>3. \A i \in 1 .. Len(disk.pending) : disk.pending[i].sequence = disk.sequence + i
  BY <1>2 DEF BufferResumes
<1>4. top \in S
  BY <1>1, <1>2, <1>3
<1>5. \A y \in S : y \in Nat /\ y <= top
  BY <1>1, <1>2, <1>3
<1>6. top \in Nat
  BY <1>1, <1>2
<1>7. Highest = Max(S)
  BY DEF Highest
<1> HIDE DEF S, top
<1>8. \A x \in S : (\A y \in S : x >= y) => x = top
  BY <1>4, <1>5, <1>6
<1>9. \A y \in S : top >= y
  BY <1>5, <1>6
<1>10. Max(S) = top
  BY <1>4, <1>8, <1>9 DEF Max
<1> QED
  BY <1>7, <1>10 DEF top

(* What the endpoint answers, from what it has and what it is sent. *)
LEMMA Verdicts ==
  ASSUME Inv, NEW s \in Snapshots
  PROVE  /\ Verdict(s) \in FinalReplies \cup {"unauthorized"}
         /\ Verdict(s) = "accepted" => ~Settled(s) /\ s.sequence > lastSequence
         /\ Verdict(s) \in {"duplicate", "invalid"} => Settled(s)
         /\ Verdict(s) = "replayed" => s.sequence <= lastSequence /\ ~Taken(s)
<1>1. lastSequence \in Nat /\ authorized \in BOOLEAN
  BY DEF Inv, TypeOK
<1>2. /\ s.id \in Nat /\ s.sequence \in Nat /\ s.kind \in {"malformed", "untargeted", "good"}
  BY SnapshotFields
<1> QED
  BY <1>1, <1>2 DEF Verdict, FinalReplies, Settled, Taken

(* What waits on disk is not refused as a replay: its number is beyond the *)
(* backend's, but for the first when the backend has that already.         *)
LEMMA PendingNotReplayed ==
  ASSUME Inv, NEW i \in DOMAIN disk.pending
  PROVE  Verdict(disk.pending[i]) # "replayed"
<1>1. /\ disk.sequence \in Nat /\ disk.pending \in Seq(Snapshots) /\ lastSequence \in Nat
  BY DEF Inv, TypeOK
<1>2. /\ i \in Nat \ {0} /\ disk.pending[i] \in Snapshots
      /\ disk.pending[i].sequence = disk.sequence + i
  BY <1>1 DEF Inv, BufferResumes
<1>3. CASE lastSequence <= disk.sequence
  BY <1>1, <1>2, <1>3, Verdicts
<1>4. CASE lastSequence = disk.sequence + 1 /\ Taken(disk.pending[1])
  <2>1. CASE i = 1
    BY <1>2, <1>4, <2>1, Verdicts
  <2>2. CASE i # 1
    BY <1>1, <1>2, <1>4, <2>2, Verdicts
  <2> QED
    BY <2>1, <2>2
<1> QED
  BY <1>3, <1>4 DEF Inv, BackendBehind

(* The backend accepts only what it does not have, with a number beyond    *)
(* its own: the snapshot the collector sends next, or one that the         *)
(* collector is done with and that was measured after all the backend has. *)
LEMMA AcceptedInOrder ==
  ASSUME Inv, NEW s \in Snapshots, Verdict(s) = "accepted", IsHead(s) \/ s \in late
  PROVE  /\ ~Taken(s) /\ s.sequence > lastSequence /\ s.id <= built
         /\ \A j \in DOMAIN ingested :
              ingested[j].sequence < s.sequence /\ ingested[j].id < s.id
         /\ \/ IsHead(s) /\ s.sequence = disk.sequence + 1
            \/ /\ s.sequence <= disk.sequence
               /\ \A i \in DOMAIN disk.pending : s.id < disk.pending[i].id
<1>1. ~Taken(s) /\ s.sequence > lastSequence
  BY Verdicts DEF Settled
<1>2. /\ disk.pending \in Seq(Snapshots) /\ disk.sequence \in Nat /\ lastSequence \in Nat
      /\ s.sequence \in Nat /\ s.id \in Nat
  BY SnapshotFields DEF Inv, TypeOK
<1>3. \A j \in DOMAIN ingested : ingested[j].sequence \in Nat /\ ingested[j].id \in Nat
  BY SnapshotFields DEF Inv, TypeOK
<1>4. \A j \in DOMAIN ingested : ingested[j].sequence < s.sequence
  BY <1>1, <1>2, <1>3 DEF Inv, IngestedOnceInOrder
<1>5. CASE IsHead(s)
  <2>1. 1 \in DOMAIN disk.pending /\ s = disk.pending[1]
    BY <1>2, <1>5 DEF IsHead
  <2>2. s.sequence = disk.sequence + 1 /\ s.id <= built
    BY <2>1 DEF Inv, BufferResumes, PendingOrdered
  <2>3. \A j \in DOMAIN ingested : ingested[j].id < s.id
    BY <1>1, <2>1 DEF Inv, BackendBehind, IsHead, Taken
  <2> QED
    BY <1>1, <1>4, <1>5, <2>2, <2>3
<1>6. CASE s \in late /\ ~IsHead(s)
  BY <1>1, <1>4, <1>6 DEF Inv, LateHarmless
<1> QED
  BY <1>5, <1>6

(* Nothing is measured, sent or stored yet. *)
LEMMA InitInv == Init => Inv
<1> SUFFICES ASSUME Init PROVE Inv
  OBVIOUS
<1>1. TypeOK
  BY DEF Init, TypeOK, Dates
<1>2. /\ BufferResumes /\ PendingOrdered /\ IngestedOnceInOrder
      /\ BackendBehind /\ LateHarmless /\ AnswersTrue
  BY DEF Init, BufferResumes, PendingOrdered, IngestedOnceInOrder,
         BackendBehind, LateHarmless, AnswersTrue
<1> QED
  BY <1>1, <1>2 DEF Inv

(* A step that only moves run_once on, gives a request up to the network or *)
(* changes the secret.                                                      *)
LEMMA QuietStep ==
  ASSUME Inv, UNCHANGED <<disk, built, date, backend>>,
         step' \in {"idle", "sending", "sent"}, step' = "sent" => disk.pending # <<>>,
         reply' \in {reply, "none"}, authorized' \in BOOLEAN,
         late' = late \/ (disk.pending # <<>> /\ late' = late \cup {disk.pending[1]})
  PROVE  Inv'
<1>1. UNCHANGED <<disk, built, date, ingested, lastSequence>>
  BY DEF backend
<1>2. disk.pending # <<>> => disk.pending[1] \in Snapshots
  BY DEF Inv, TypeOK
<1>3. TypeOK'
  BY <1>1, <1>2 DEF Inv, TypeOK
<1>4. BufferResumes' /\ PendingOrdered' /\ IngestedOnceInOrder'
  BY <1>1 DEF Inv, BufferResumes, PendingOrdered, IngestedOnceInOrder
<1>5. BackendBehind'
  BY <1>1 DEF Inv, BackendBehind, IsHead, Taken
<1>6. LateHarmless'
  <2>1. CASE late' = late
    BY <1>1, <2>1 DEF Inv, LateHarmless, IsHead
  <2>2. CASE disk.pending # <<>> /\ late' = late \cup {disk.pending[1]}
    <3>1. PICK h : h = disk.pending[1] /\ h \in Snapshots /\ h.id \in Nat /\ h.sequence \in Nat
      BY <1>2, <2>2, SnapshotFields
    <3>2. /\ disk.pending \in Seq(Snapshots) /\ disk.sequence \in Nat
          /\ 1 \in DOMAIN disk.pending
      BY <2>2 DEF Inv, TypeOK
    <3>3. IsHead(h) /\ h.id <= built /\ h.sequence = disk.sequence + 1
      BY <2>2, <3>1, <3>2 DEF IsHead, Inv, PendingOrdered, BufferResumes
    <3>4. ASSUME NEW s \in late, ~IsHead(s)
          PROVE  s.sequence \in Nat /\ s.sequence < h.sequence /\ s.id < h.id
      <4>1. s.sequence \in Nat
        BY SnapshotFields DEF Inv, TypeOK
      <4> QED
        BY <3>1, <3>2, <3>3, <3>4, <4>1 DEF Inv, LateHarmless
    <3>5. \A j \in DOMAIN ingested : ingested[j].sequence < h.sequence => ingested[j].id < h.id
      <4>1. \A j \in DOMAIN ingested : IsHead(ingested[j]) => ingested[j] = h
        BY <3>1 DEF IsHead
      <4> QED
        BY <3>1, <3>2, <4>1 DEF Inv, BackendBehind
    <3>6. \A s \in late : IsHead(s) => s = h
      BY <3>1 DEF IsHead
    <3>7. ASSUME NEW s \in late', NEW u \in late', u.sequence < s.sequence
          PROVE  u.id < s.id
      <4>1. CASE s \in late /\ u \in late
        BY <3>7, <4>1 DEF Inv, LateHarmless
      <4>2. CASE s = h
        BY <2>2, <3>1, <3>4, <3>6, <3>7, <4>2
      <4>3. CASE u = h /\ s \in late
        <5>1. ~IsHead(s)
          BY <3>1, <3>6, <3>7, <4>3
        <5> QED
          BY <3>1, <3>4, <3>7, <4>3, <5>1
      <4> QED
        BY <2>2, <3>1, <4>1, <4>2, <4>3
    <3>8. ASSUME NEW s \in late'
          PROVE  /\ s.id <= built
                 /\ \/ IsHead(s)
                    \/ /\ s.sequence <= disk.sequence
                       /\ \A i \in DOMAIN disk.pending : s.id < disk.pending[i].id
                 /\ \A j \in DOMAIN ingested :
                      ingested[j].sequence < s.sequence => ingested[j].id < s.id
      BY <2>2, <3>1, <3>3, <3>5, <3>8 DEF Inv, LateHarmless
    <3> QED
      BY <1>1, <3>7, <3>8 DEF LateHarmless, IsHead
  <2> QED
    BY <2>1, <2>2
<1>7. AnswersTrue'
  BY <1>1 DEF Inv, AnswersTrue
<1> QED
  BY <1>3, <1>4, <1>5, <1>6, <1>7 DEF Inv

(* A snapshot that is accepted is put behind all the backend has. *)
LEMMA IngestStep ==
  ASSUME Inv, NEW s \in Snapshots, IsHead(s) \/ s \in late, Ingest(s),
         UNCHANGED <<disk, built, date, authorized>>, late' \subseteq late
  PROVE  /\ ingested' \in Seq(Snapshots) /\ lastSequence' \in Nat
         /\ IngestedOnceInOrder' /\ BackendBehind' /\ LateHarmless'
         /\ \A r : Settled(r) => Settled(r)'
         /\ Verdict(s) = "accepted" => Settled(s)'
<1>1. CASE Verdict(s) # "accepted"
  <2>1. UNCHANGED <<ingested, lastSequence, disk, built, date>>
    BY <1>1 DEF Ingest, backend
  <2>2. LateHarmless'
    BY <2>1 DEF Inv, LateHarmless, IsHead
  <2> QED
    BY <1>1, <2>1, <2>2
       DEF Inv, TypeOK, IngestedOnceInOrder, BackendBehind, IsHead, Settled, Taken
<1>2. CASE Verdict(s) = "accepted"
  <2>1. /\ s.sequence > lastSequence /\ s.id <= built
        /\ \A j \in DOMAIN ingested :
             ingested[j].sequence < s.sequence /\ ingested[j].id < s.id
    BY <1>2, AcceptedInOrder
  <2>2. \/ IsHead(s) /\ s.sequence = disk.sequence + 1
        \/ /\ s.sequence <= disk.sequence
           /\ \A i \in DOMAIN disk.pending : s.id < disk.pending[i].id
    BY <1>2, AcceptedInOrder
  <2>3. ingested' = Append(ingested, s) /\ lastSequence' = s.sequence
    BY <1>2 DEF Ingest
  <2>4. /\ ingested \in Seq(Snapshots) /\ disk.sequence \in Nat /\ lastSequence \in Nat
        /\ disk.pending \in Seq(Snapshots) /\ built \in Nat
        /\ s.id \in Nat /\ s.sequence \in Nat
    BY SnapshotFields DEF Inv, TypeOK
  <2>5. /\ ingested' \in Seq(Snapshots)
        /\ DOMAIN ingested = 1 .. Len(ingested) /\ Len(ingested) \in Nat
        /\ DOMAIN ingested' = 1 .. Len(ingested) + 1
        /\ \A i \in 1 .. Len(ingested) : ingested'[i] = ingested[i]
        /\ ingested'[Len(ingested) + 1] = s
    BY <2>3, <2>4, AppendFacts
  <2>6. IngestedOnceInOrder'
    <3>1. ASSUME NEW i \in DOMAIN ingested', NEW j \in DOMAIN ingested', i < j
          PROVE  /\ ingested'[i].id < ingested'[j].id
                 /\ ingested'[i].sequence < ingested'[j].sequence
      <4>1. CASE j = Len(ingested) + 1
        BY <2>1, <2>5, <3>1, <4>1
      <4>2. CASE j # Len(ingested) + 1
        BY <2>5, <3>1, <4>2 DEF Inv, IngestedOnceInOrder
      <4> QED
        BY <4>1, <4>2
    <3>2. ASSUME NEW i \in DOMAIN ingested'
          PROVE  ingested'[i].sequence <= lastSequence'
      <4>1. CASE i = Len(ingested) + 1
        BY <2>3, <2>4, <2>5, <4>1
      <4>2. CASE i \in DOMAIN ingested
        <5>1. ingested[i].sequence \in Nat
          BY <2>4, <4>2, SnapshotFields
        <5> QED
          BY <2>1, <2>3, <2>4, <2>5, <4>2, <5>1
      <4> QED
        BY <2>5, <3>2, <4>1, <4>2
    <3> QED
      BY <3>1, <3>2 DEF IngestedOnceInOrder
  <2>7. BackendBehind'
    <3>1. ASSUME NEW j \in DOMAIN ingested'
          PROVE  /\ ingested'[j].id <= built
                 /\ \/ IsHead(ingested'[j])
                    \/ /\ ingested'[j].sequence <= disk.sequence
                       /\ \A i \in DOMAIN disk.pending : ingested'[j].id < disk.pending[i].id
      BY <2>1, <2>2, <2>5, <3>1 DEF Inv, BackendBehind
    <3>2. IsHead(s) => Taken(disk.pending[1])' /\ disk.pending # <<>>
      BY <2>5 DEF IsHead, Taken
    <3>3. \/ lastSequence' <= disk.sequence
          \/ /\ lastSequence' = disk.sequence + 1
             /\ disk.pending # <<>> /\ Taken(disk.pending[1])'
      BY <2>2, <2>3, <3>2
    <3> QED
      BY <3>1, <3>3 DEF BackendBehind, IsHead, Taken
  <2>8. LateHarmless'
    <3>1. ASSUME NEW r \in late', NEW j \in DOMAIN ingested', ingested'[j].sequence < r.sequence
          PROVE  ingested'[j].id < r.id
      <4>1. CASE j # Len(ingested) + 1
        BY <2>5, <3>1, <4>1 DEF Inv, LateHarmless
      <4>2. CASE j = Len(ingested) + 1
        <5>1. s.sequence < r.sequence /\ r \in late /\ r.sequence \in Nat
          BY <2>5, <3>1, <4>2, SnapshotFields DEF Inv, TypeOK
        <5>2. CASE s \in late
          BY <2>5, <4>2, <5>1, <5>2 DEF Inv, LateHarmless
        <5>3. CASE IsHead(s)
          <6>1. s.sequence = disk.sequence + 1 /\ ~IsHead(r)
            <7>1. 1 \in DOMAIN disk.pending
              BY <2>4, <5>3 DEF IsHead
            <7> QED
              BY <2>4, <5>1, <5>3, <7>1 DEF Inv, BufferResumes, IsHead
          <6>2. r.sequence <= disk.sequence
            BY <5>1, <6>1 DEF Inv, LateHarmless
          <6> QED
            BY <2>4, <5>1, <6>1, <6>2
        <5> QED
          BY <5>2, <5>3
      <4> QED
        BY <4>1, <4>2
    <3> QED
      BY <3>1 DEF Inv, LateHarmless, IsHead
  <2>9. \A r : Taken(r) => Taken(r)'
    BY <2>5 DEF Taken
  <2>10. Taken(s)'
    BY <2>5 DEF Taken
  <2> QED
    BY <2>3, <2>4, <2>5, <2>6, <2>7, <2>8, <2>9, <2>10 DEF Settled
<1> QED
  BY <1>1, <1>2

(* The endpoint answers the request the collector waits for. *)
LEMMA ServeStep == Inv /\ Serve => Inv'
<1> SUFFICES ASSUME Inv, Serve PROVE Inv'
  OBVIOUS
<1>1. /\ step = "sent" /\ disk.pending # <<>> /\ disk.pending \in Seq(Snapshots)
      /\ step' = "answered" /\ UNCHANGED <<disk, late, built, date, authorized>>
  BY DEF Serve, Inv, AnswersTrue, TypeOK
<1>2. PICK s : /\ s = Head(disk.pending) /\ s = disk.pending[1] /\ s \in Snapshots
  BY <1>1, TailFacts
<1>3. Ingest(s) /\ reply' = Verdict(s)
  BY <1>2 DEF Serve
<1>4. IsHead(s)
  BY <1>1, <1>2 DEF IsHead
<1>5. /\ ingested' \in Seq(Snapshots) /\ lastSequence' \in Nat
      /\ IngestedOnceInOrder' /\ BackendBehind' /\ LateHarmless'
      /\ \A r : Settled(r) => Settled(r)'
      /\ Verdict(s) = "accepted" => Settled(s)'
  BY <1>1, <1>2, <1>3, <1>4, IngestStep
<1>6. TypeOK'
  BY <1>1, <1>2, <1>3, <1>5, Verdicts DEF Inv, TypeOK
<1>7. BufferResumes' /\ PendingOrdered'
  BY <1>1 DEF Inv, BufferResumes, PendingOrdered
<1>8. Verdict(s) \in FinalReplies => Settled(s)' \/ Verdict(s) = "untimely"
  <2>1. 1 \in DOMAIN disk.pending
    BY <1>1
  <2>2. Verdict(s) # "replayed"
    BY <1>2, <2>1, PendingNotReplayed
  <2> QED
    BY <1>2, <1>5, <2>2, Verdicts DEF FinalReplies
<1>9. AnswersTrue'
  BY <1>1, <1>2, <1>3, <1>8 DEF AnswersTrue, Settled, Taken
<1> QED
  BY <1>5, <1>6, <1>7, <1>9 DEF Inv

(* The endpoint handles a request the collector gave up on. *)
LEMMA ServeLateStep == Inv /\ ServeLate => Inv'
<1> SUFFICES ASSUME Inv, ServeLate PROVE Inv'
  OBVIOUS
<1>1. PICK s \in late : Ingest(s) /\ late' = late \ {s}
  BY DEF ServeLate
<1>2. UNCHANGED <<disk, step, reply, built, date, authorized>>
  BY DEF ServeLate, collector
<1>3. s \in Snapshots
  BY DEF Inv, TypeOK
<1>4. /\ ingested' \in Seq(Snapshots) /\ lastSequence' \in Nat
      /\ IngestedOnceInOrder' /\ BackendBehind' /\ LateHarmless'
      /\ \A r : Settled(r) => Settled(r)'
  BY <1>1, <1>2, <1>3, IngestStep
<1>5. TypeOK'
  BY <1>1, <1>2, <1>4 DEF Inv, TypeOK
<1>6. BufferResumes' /\ PendingOrdered'
  BY <1>2 DEF Inv, BufferResumes, PendingOrdered
<1>7. AnswersTrue'
  <2>1. Settled(disk.pending[1]) => Settled(disk.pending[1])'
    BY <1>2, <1>4 DEF Settled, Taken
  <2> QED
    BY <1>2, <2>1 DEF Inv, AnswersTrue
<1> QED
  BY <1>4, <1>5, <1>6, <1>7 DEF Inv

(* A date that passes changes nothing but the next answers. *)
LEMMA AgeStep == Inv /\ Age => Inv'
<1> SUFFICES ASSUME Inv, Age PROVE Inv'
  OBVIOUS
<1>1. UNCHANGED <<disk, step, reply, late, built, authorized, ingested, lastSequence>>
  BY DEF Age, collector, backend
<1>2. date' \in [1 .. MaxBuilt -> Dates]
  BY DEF Age, Inv, TypeOK, Dates
<1>3. TypeOK'
  BY <1>1, <1>2 DEF Inv, TypeOK
<1>4. BufferResumes' /\ PendingOrdered' /\ IngestedOnceInOrder' /\ BackendBehind'
  BY <1>1 DEF Inv, BufferResumes, PendingOrdered, IngestedOnceInOrder, BackendBehind,
              IsHead, Taken
<1>5. LateHarmless' /\ AnswersTrue'
  BY <1>1 DEF Inv, LateHarmless, AnswersTrue, IsHead, Settled, Taken
<1> QED
  BY <1>3, <1>4, <1>5 DEF Inv

(* The first snapshot leaves the buffer: what follows moves up. *)
LEMMA SettleStep == Inv /\ Settle => Inv'
<1> SUFFICES ASSUME Inv, Settle PROVE Inv'
  OBVIOUS
<1>1. /\ UNCHANGED <<late, built, date, authorized, ingested, lastSequence>>
      /\ step' = "sending" /\ reply' = "none"
  BY DEF Settle, backend
<1>2. disk.pending # <<>> /\ disk.pending \in Seq(Snapshots) /\ disk.sequence \in Nat
  BY DEF Settle, Inv, AnswersTrue, TypeOK
<1>3. /\ disk' \in [sequence : Nat, pending : Seq(Snapshots)]
      /\ disk'.sequence = disk.pending[1].sequence
      /\ disk'.pending = Tail(disk.pending)
  BY <1>2, TailFacts, SnapshotFields DEF Settle
<1>4. disk'.sequence = disk.sequence + 1
  BY <1>2, <1>3 DEF Inv, BufferResumes
<1>5. /\ Len(disk.pending) \in Nat \ {0} /\ DOMAIN disk.pending = 1 .. Len(disk.pending)
      /\ Len(disk'.pending) = Len(disk.pending) - 1
      /\ DOMAIN disk'.pending = 1 .. Len(disk.pending) - 1
      /\ \A i \in 1 .. Len(disk.pending) - 1 : disk'.pending[i] = disk.pending[i + 1]
  BY <1>2, <1>3, TailFacts
<1>6. TypeOK'
  BY <1>1, <1>3 DEF Inv, TypeOK
<1>7. PICK p, q, r : p = disk.pending /\ q = disk.sequence /\ r = disk'.pending
  OBVIOUS
<1>8. /\ q \in Nat /\ DOMAIN p \subseteq Nat /\ DOMAIN r \subseteq Nat
      /\ 1 \in DOMAIN p
      /\ \A i \in DOMAIN r : i + 1 \in DOMAIN p /\ i + 1 > 1 /\ r[i] = p[i + 1]
  <2>1. PICK n \in Nat \ {0} : /\ DOMAIN p = 1 .. n /\ DOMAIN r = 1 .. n - 1
                              /\ \A i \in 1 .. n - 1 : r[i] = p[i + 1]
    BY <1>5, <1>7
  <2>2. q \in Nat
    BY <1>2, <1>7
  <2> QED
    BY <2>1, <2>2
<1>9. BufferResumes'
  <2>1. \A i \in DOMAIN p : p[i].sequence = q + i
    BY <1>7 DEF Inv, BufferResumes
  <2>2. \A i \in DOMAIN r : r[i].sequence = (q + 1) + i
    BY <1>8, <2>1
  <2>3. Len(r) <= MaxPending
    BY <1>5, <1>7 DEF Inv, BufferResumes
  <2> QED
    BY <1>4, <1>7, <2>2, <2>3 DEF BufferResumes
<1>10. PendingOrdered'
  <2>1. /\ \A i \in DOMAIN p : p[i].id <= built
        /\ \A i, j \in DOMAIN p : i < j => p[i].id < p[j].id
    BY <1>7 DEF Inv, PendingOrdered
  <2>2. \A i \in DOMAIN r : r[i].id <= built
    BY <1>8, <2>1
  <2>3. ASSUME NEW i \in DOMAIN r, NEW j \in DOMAIN r, i < j PROVE r[i].id < r[j].id
    <3>1. i + 1 < j + 1
      BY <1>8, <2>3
    <3> QED
      BY <1>8, <2>1, <3>1
  <2> QED
    BY <1>1, <1>7, <2>2, <2>3 DEF PendingOrdered
<1>11. IngestedOnceInOrder'
  BY <1>1 DEF Inv, IngestedOnceInOrder
<1>12. BackendBehind'
  <2>1. ASSUME NEW j \in DOMAIN ingested
        PROVE  /\ ingested[j].id <= built
               /\ ingested[j].sequence <= q + 1
               /\ \A i \in DOMAIN r : ingested[j].id < r[i].id
    <3>1. ingested[j].id <= built /\ ingested[j].sequence \in Nat
      BY SnapshotFields DEF Inv, BackendBehind, TypeOK
    <3>2. CASE IsHead(ingested[j])
      <4>1. ingested[j] = p[1] /\ p[1].sequence = q + 1
        BY <1>3, <1>4, <1>7, <3>2 DEF IsHead
      <4>2. \A i \in DOMAIN p : 1 < i => p[1].id < p[i].id
        BY <1>7, <1>8 DEF Inv, PendingOrdered
      <4>3. \A i \in DOMAIN r : 1 < i + 1
        BY <1>8
      <4> QED
        BY <1>8, <3>1, <4>1, <4>2, <4>3
    <3>3. CASE ingested[j].sequence <= q /\ \A i \in DOMAIN p : ingested[j].id < p[i].id
      BY <1>8, <3>1, <3>3
    <3> QED
      BY <1>7, <3>2, <3>3 DEF Inv, BackendBehind
  <2>2. lastSequence \in Nat /\ lastSequence <= q + 1
    BY <1>7, <1>8 DEF Inv, TypeOK, BackendBehind
  <2> QED
    BY <1>1, <1>4, <1>7, <2>1, <2>2 DEF BackendBehind
<1>13. LateHarmless'
  <2>1. ASSUME NEW s \in late
        PROVE  s.sequence <= q + 1 /\ \A i \in DOMAIN r : s.id < r[i].id
    <3>1. s.sequence \in Nat
      BY SnapshotFields DEF Inv, TypeOK
    <3>2. CASE IsHead(s)
      <4>1. s = p[1] /\ p[1].sequence = q + 1
        BY <1>3, <1>4, <1>7, <3>2 DEF IsHead
      <4>2. \A i \in DOMAIN p : 1 < i => p[1].id < p[i].id
        BY <1>7, <1>8 DEF Inv, PendingOrdered
      <4>3. \A i \in DOMAIN r : 1 < i + 1
        BY <1>8
      <4> QED
        BY <1>8, <3>1, <4>1, <4>2, <4>3
    <3>3. CASE s.sequence <= q /\ \A i \in DOMAIN p : s.id < p[i].id
      BY <1>8, <3>1, <3>3
    <3> QED
      BY <1>7, <3>2, <3>3 DEF Inv, LateHarmless
  <2>2. \A s \in late :
          /\ s.id <= built
          /\ \A u \in late : u.sequence < s.sequence => u.id < s.id
          /\ \A j \in DOMAIN ingested :
               ingested[j].sequence < s.sequence => ingested[j].id < s.id
    BY DEF Inv, LateHarmless
  <2> QED
    BY <1>1, <1>4, <1>7, <2>1, <2>2 DEF LateHarmless
<1>14. AnswersTrue'
  BY <1>1 DEF AnswersTrue
<1> QED
  BY <1>6, <1>9, <1>10, <1>11, <1>12, <1>13, <1>14 DEF Inv

(* A snapshot joins the buffer with the next number, or a full buffer drops *)
(* it.                                                                      *)
LEMMA PollStep == Inv /\ Poll => Inv'
<1> SUFFICES ASSUME Inv, Poll PROVE Inv'
  OBVIOUS
<1>1. /\ UNCHANGED <<reply, late, authorized, ingested, lastSequence>>
      /\ step' = "sending"
  BY DEF Poll, backend
<1>2. /\ disk \in [sequence : Nat, pending : Seq(Snapshots)]
      /\ disk.pending \in Seq(Snapshots) /\ disk.sequence \in Nat
      /\ built \in 0 .. MaxBuilt /\ date \in [1 .. MaxBuilt -> Dates]
  BY DEF Inv, TypeOK
<1>3. CASE UNCHANGED <<disk, built, date>>
  <2>1. TypeOK'
    BY <1>1, <1>3 DEF Inv, TypeOK
  <2>2. BufferResumes' /\ PendingOrdered' /\ IngestedOnceInOrder' /\ BackendBehind'
    BY <1>1, <1>3 DEF Inv, BufferResumes, PendingOrdered, IngestedOnceInOrder,
                      BackendBehind, IsHead, Taken
  <2>3. LateHarmless' /\ AnswersTrue'
    BY <1>1, <1>3 DEF Inv, LateHarmless, AnswersTrue, IsHead, Settled, Taken
  <2> QED
    BY <2>1, <2>2, <2>3 DEF Inv
<1>4. CASE /\ built < MaxBuilt /\ built' = built + 1
           /\ \E kind \in Kinds[built + 1] :
                disk' = [disk EXCEPT !.pending =
                  Buffered([id |-> built + 1, sequence |-> Highest + 1, kind |-> kind])]
           /\ \E clock \in Clocks[built + 1] : date' = [date EXCEPT ![built + 1] = clock]
  <2>0. date' \in [1 .. MaxBuilt -> Dates] /\ Kinds[built + 1] \subseteq AllKinds
    <3>1. built + 1 \in 1 .. MaxBuilt
      BY <1>2, <1>4
    <3> QED
      BY <1>2, <1>4, <3>1, DeliveryAssumption
  <2>1. PICK s : /\ s \in Snapshots /\ s.id = built + 1
                 /\ s.sequence = disk.sequence + Len(disk.pending) + 1
                 /\ disk' = [disk EXCEPT !.pending = Buffered(s)]
    <3>1. PICK kind \in Kinds[built + 1] :
            disk' = [disk EXCEPT !.pending =
              Buffered([id |-> built + 1, sequence |-> Highest + 1, kind |-> kind])]
      BY <1>4
    <3>2. PICK s : s = [id |-> built + 1, sequence |-> Highest + 1, kind |-> kind]
      OBVIOUS
    <3>3. Highest = disk.sequence + Len(disk.pending)
      BY HighestIsNext DEF Inv
    <3>4. Highest + 1 \in Nat /\ built + 1 \in 1 .. MaxBuilt
      BY <1>2, <1>4, <3>3
    <3>5. s \in Snapshots
      BY <2>0, <3>2, <3>4 DEF Snapshots
    <3> QED
      BY <3>1, <3>2, <3>3, <3>5
  <2>2. CASE Len(disk.pending) < MaxPending
    <3>1. PICK p, q, r, n : /\ p = disk.pending /\ q = disk.sequence /\ r = Append(p, s)
                            /\ n = Len(p)
      OBVIOUS
    <3>2. /\ r \in Seq(Snapshots) /\ r # <<>>
          /\ n \in Nat /\ DOMAIN p = 1 .. n /\ Len(r) = n + 1 /\ DOMAIN r = 1 .. n + 1
          /\ \A i \in 1 .. n : r[i] = p[i]
          /\ r[n + 1] = s
      BY <1>2, <2>1, <3>1, AppendFacts
    <3>3. Buffered(s) = r
      BY <2>2, <3>1 DEF Buffered
    <3>4. /\ disk' \in [sequence : Nat, pending : Seq(Snapshots)]
          /\ disk'.sequence = q /\ disk'.pending = r
      BY <1>2, <2>1, <3>1, <3>2, <3>3, DiskFields
    <3>5. q \in Nat /\ n < MaxPending /\ s.id = built + 1 /\ s.sequence = q + n + 1
      BY <1>2, <2>1, <2>2, <3>1
    <3>6. TypeOK'
      BY <1>1, <1>2, <1>4, <2>0, <3>4 DEF Inv, TypeOK
    <3>7. BufferResumes'
      <4>1. \A i \in 1 .. n : p[i].sequence = q + i
        BY <3>1, <3>2 DEF Inv, BufferResumes
      <4>2. \A i \in 1 .. n + 1 : r[i].sequence = q + i
        BY <3>2, <3>5, <4>1
      <4> QED
        BY <3>2, <3>4, <3>5, <4>2 DEF BufferResumes
    <3>8. ASSUME NEW i \in 1 .. n PROVE p[i].id \in Nat /\ p[i].id <= built
      <4>1. p[i] \in Snapshots
        BY <1>2, <3>1, <3>2
      <4> QED
        BY <3>1, <3>2, <4>1, SnapshotFields DEF Inv, PendingOrdered
    <3>9. PendingOrdered'
      <4>1. \A i, j \in 1 .. n : i < j => p[i].id < p[j].id
        BY <3>1, <3>2 DEF Inv, PendingOrdered
      <4>2. ASSUME NEW i \in 1 .. n + 1 PROVE r[i].id <= built + 1
        <5>1. CASE i = n + 1
          BY <1>2, <3>2, <3>5, <5>1
        <5>2. CASE i # n + 1
          BY <1>2, <3>2, <3>8, <5>2
        <5> QED
          BY <5>1, <5>2
      <4>3. ASSUME NEW i \in 1 .. n + 1, NEW j \in 1 .. n + 1, i < j PROVE r[i].id < r[j].id
        <5>1. CASE j = n + 1
          BY <1>2, <3>2, <3>5, <3>8, <4>3, <5>1
        <5>2. CASE j # n + 1
          BY <3>2, <4>1, <4>3, <5>2
        <5> QED
          BY <5>1, <5>2
      <4> QED
        BY <1>4, <3>2, <3>4, <4>2, <4>3 DEF PendingOrdered
    <3>10. IngestedOnceInOrder'
      BY <1>1 DEF Inv, IngestedOnceInOrder
    <3>11. p # <<>> => n >= 1 /\ r[1] = p[1]
      BY <1>2, <3>1, <3>2
    <3>12. \A e : IsHead(e) => IsHead(e)'
      BY <3>1, <3>2, <3>4, <3>11 DEF IsHead
    <3>13. BackendBehind'
      <4>1. ASSUME NEW j \in DOMAIN ingested
            PROVE  /\ ingested[j].id <= built + 1
                   /\ \/ IsHead(ingested[j])'
                      \/ /\ ingested[j].sequence <= q
                         /\ \A i \in 1 .. n + 1 : ingested[j].id < r[i].id
        <5>1. ingested[j].id \in Nat /\ ingested[j].id <= built
          BY SnapshotFields DEF Inv, TypeOK, BackendBehind
        <5>2. CASE IsHead(ingested[j])
          <6>1. IsHead(ingested[j])'
            BY <1>1, <3>1, <3>2, <3>4, <3>11, <5>2 DEF IsHead
          <6> QED
            BY <1>2, <5>1, <6>1
        <5>3. CASE ingested[j].sequence <= q /\ \A i \in 1 .. n : ingested[j].id < p[i].id
          <6>1. ASSUME NEW i \in 1 .. n + 1 PROVE ingested[j].id < r[i].id
            <7>1. CASE i = n + 1
              BY <1>2, <3>2, <3>5, <5>1, <7>1
            <7>2. CASE i # n + 1
              BY <3>2, <5>3, <7>2
            <7> QED
              BY <7>1, <7>2
          <6>2. ingested[j].id <= built + 1
            BY <1>2, <5>1
          <6> QED
            BY <5>3, <6>1, <6>2
        <5> QED
          BY <3>1, <3>2, <5>2, <5>3 DEF Inv, BackendBehind
      <4>2. CASE lastSequence <= q
        BY <1>1, <1>4, <3>2, <3>4, <4>1, <4>2 DEF BackendBehind, IsHead
      <4>3. CASE lastSequence = q + 1 /\ p # <<>> /\ Taken(p[1])
        BY <1>1, <1>4, <3>2, <3>4, <3>11, <4>1, <4>3 DEF BackendBehind, IsHead, Taken
      <4> QED
        BY <3>1, <4>2, <4>3 DEF Inv, BackendBehind
    <3>14. LateHarmless'
      <4>1. ASSUME NEW e \in late
            PROVE  /\ e.id <= built + 1
                   /\ \/ IsHead(e)'
                      \/ /\ e.sequence <= q
                         /\ \A i \in 1 .. n + 1 : e.id < r[i].id
        <5>1. e.id \in Nat /\ e.id <= built
          BY SnapshotFields DEF Inv, TypeOK, LateHarmless
        <5>2. CASE IsHead(e)
          BY <1>2, <3>12, <5>1, <5>2
        <5>3. CASE e.sequence <= q /\ \A i \in 1 .. n : e.id < p[i].id
          <6>1. ASSUME NEW i \in 1 .. n + 1 PROVE e.id < r[i].id
            <7>1. CASE i = n + 1
              BY <1>2, <3>2, <3>5, <5>1, <7>1
            <7>2. CASE i # n + 1
              BY <3>2, <5>3, <7>2
            <7> QED
              BY <7>1, <7>2
          <6> QED
            BY <1>2, <5>1, <5>3, <6>1
        <5> QED
          BY <3>1, <3>2, <5>2, <5>3 DEF Inv, LateHarmless
      <4> QED
        BY <1>1, <1>4, <3>2, <3>4, <4>1 DEF Inv, LateHarmless
    <3>15. AnswersTrue'
      BY <1>1 DEF AnswersTrue
    <3> QED
      BY <3>6, <3>7, <3>9, <3>10, <3>13, <3>14, <3>15 DEF Inv
  <2>3. CASE ~(Len(disk.pending) < MaxPending)
    <3>1. /\ disk' \in [sequence : Nat, pending : Seq(Snapshots)]
          /\ disk'.sequence = disk.sequence /\ disk'.pending = disk.pending
      BY <1>2, <2>1, <2>3, DiskFields DEF Buffered
    <3>2. TypeOK'
      BY <1>1, <1>2, <1>4, <2>0, <3>1 DEF Inv, TypeOK
    <3>3. BufferResumes' /\ IngestedOnceInOrder'
      BY <1>1, <3>1 DEF Inv, BufferResumes, IngestedOnceInOrder
    <3>4. PendingOrdered'
      <4>1. \A i \in DOMAIN disk.pending : disk.pending[i].id \in Nat
        BY <1>2, SnapshotFields
      <4> QED
        BY <1>2, <1>4, <3>1, <4>1 DEF Inv, PendingOrdered
    <3>5. BackendBehind'
      <4>1. \A j \in DOMAIN ingested : ingested[j].id \in Nat
        BY SnapshotFields DEF Inv, TypeOK
      <4> QED
        BY <1>1, <1>2, <1>4, <3>1, <4>1 DEF Inv, BackendBehind, IsHead, Taken
    <3>6. LateHarmless'
      <4>1. \A e \in late : e.id \in Nat
        BY SnapshotFields DEF Inv, TypeOK
      <4>2. \A e \in late : e.id <= built + 1
        BY <1>2, <4>1 DEF Inv, LateHarmless
      <4> QED
        BY <1>1, <1>4, <3>1, <4>2 DEF Inv, LateHarmless, IsHead
    <3>7. AnswersTrue'
      BY <1>1, <3>1 DEF Inv, AnswersTrue, Settled, Taken
    <3> QED
      BY <3>2, <3>3, <3>4, <3>5, <3>6, <3>7 DEF Inv
  <2> QED
    BY <2>2, <2>3
<1> QED
  BY <1>3, <1>4 DEF Poll

(* Every step of the collector, the network and the endpoint. *)
LEMMA StepInv == Inv /\ [Next]_vars => Inv'
<1> SUFFICES ASSUME Inv, [Next]_vars PROVE Inv'
  OBVIOUS
<1> USE DEF collector, backend
<1>0. disk.pending \in Seq(Snapshots) /\ authorized \in BOOLEAN
      /\ step \in {"idle", "sending", "sent", "answered"}
  BY DEF Inv, TypeOK
<1>1. CASE Poll
  BY <1>1, PollStep
<1>2. CASE Send
  BY <1>0, <1>2, QuietStep DEF Send
<1>3. CASE Settle
  BY <1>3, SettleStep
<1>4. CASE Refuse
  BY <1>0, <1>4, QuietStep DEF Refuse
<1>5. CASE Finish
  BY <1>0, <1>5, QuietStep DEF Finish
<1>6. CASE Abandon
  <2>1. step = "sent" => disk.pending # <<>> /\ Head(disk.pending) = disk.pending[1]
    BY <1>0, TailFacts DEF Inv, AnswersTrue
  <2>2. \/ late' = late
        \/ disk.pending # <<>> /\ late' = late \cup {disk.pending[1]}
    BY <1>6, <2>1 DEF Abandon
  <2> QED
    BY <1>0, <1>6, <2>2, QuietStep DEF Abandon
<1>7. CASE Serve
  BY <1>7, ServeStep
<1>8. CASE ServeLate
  BY <1>8, ServeLateStep
<1>9. CASE Age
  BY <1>9, AgeStep
<1>10. CASE Rotate
  <2>1. UNCHANGED <<disk, step, reply, late, built, date, ingested, lastSequence>>
    BY <1>10 DEF Rotate
  <2>2. authorized' \in BOOLEAN
    BY <1>10 DEF Rotate
  <2>3. TypeOK'
    BY <2>1, <2>2 DEF Inv, TypeOK
  <2>4. BufferResumes' /\ PendingOrdered' /\ IngestedOnceInOrder' /\ BackendBehind'
    BY <2>1 DEF Inv, BufferResumes, PendingOrdered, IngestedOnceInOrder, BackendBehind,
                IsHead, Taken
  <2>5. LateHarmless' /\ AnswersTrue'
    BY <2>1 DEF Inv, LateHarmless, AnswersTrue, IsHead, Settled, Taken
  <2> QED
    BY <2>3, <2>4, <2>5 DEF Inv
<1>11. CASE UNCHANGED vars
  <2>1. UNCHANGED <<disk, step, reply, late, built, date, authorized, ingested, lastSequence>>
    BY <1>11 DEF vars
  <2>2. TypeOK'
    BY <2>1 DEF Inv, TypeOK
  <2>3. BufferResumes' /\ PendingOrdered' /\ IngestedOnceInOrder' /\ BackendBehind'
    BY <2>1 DEF Inv, BufferResumes, PendingOrdered, IngestedOnceInOrder, BackendBehind,
                IsHead, Taken
  <2>4. LateHarmless' /\ AnswersTrue'
    BY <2>1 DEF Inv, LateHarmless, AnswersTrue, IsHead, Settled, Taken
  <2> QED
    BY <2>2, <2>3, <2>4 DEF Inv
<1> QED
  BY <1>1, <1>2, <1>3, <1>4, <1>5, <1>6, <1>7, <1>8, <1>9, <1>10, <1>11
     DEF Next, TimeOut, Crash

(* The invariant of the specification. *)
LEMMA Invariant == Spec => []Inv
  BY InitInv, StepInv, PTL DEF Spec

(* Every variable keeps its type. *)
THEOREM TypeCorrect == Spec => []TypeOK
<1>1. Inv => TypeOK
  BY DEF Inv
<1> QED
  BY <1>1, Invariant, PTL

(* ingest_snapshots holds no snapshot and no sequence number twice, in the *)
(* order they were measured, whatever was resent, delayed or lost.         *)
THEOREM OnceInOrder == Spec => []IngestedOnceInOrder
<1>1. Inv => IngestedOnceInOrder
  BY DEF Inv
<1> QED
  BY <1>1, Invariant, PTL

(* The state file always continues with the number after the last settled *)
(* one, and holds no more than MAX_PENDING snapshots.                     *)
THEOREM FileResumes == Spec => []BufferResumes
<1>1. Inv => BufferResumes
  BY DEF Inv
<1> QED
  BY <1>1, Invariant, PTL

(* The replay protection of the endpoint never hits what waits on disk,    *)
(* whatever numbers were used again and whatever requests arrive late.     *)
THEOREM OwnNeverReplayed == Spec => []NeverReplayed
<1>1. Inv => NeverReplayed
  BY PendingNotReplayed DEF NeverReplayed
<1> QED
  BY <1>1, Invariant, PTL

(* A snapshot leaves the buffer only when the backend has it, when it is   *)
(* not a good one, or when the backend has just refused the date of this   *)
(* very snapshot: whatever timed out, crashed, was refused or arrived late.*)
THEOREM DroppedWhenSettled == Spec => OnlySettledDropped
<1> DEFINE Gone(i) ==
      \/ \E j \in DOMAIN disk'.pending : disk'.pending[j] = disk.pending[i]
      \/ \E j \in DOMAIN ingested : ingested[j] = disk.pending[i]
      \/ disk.pending[i].kind # "good"
      \/ i = 1 /\ reply = "untimely"
<1>1. ASSUME Inv, [Next]_vars, NEW i \in DOMAIN disk.pending PROVE Gone(i)
  <2>1. CASE disk'.pending = disk.pending
    BY <2>1
  <2>2. CASE Settle
    <3>1. /\ disk.pending # <<>> /\ disk.pending \in Seq(Snapshots)
          /\ Settled(disk.pending[1]) \/ reply = "untimely"
      BY <1>1, <2>2 DEF Settle, Inv, AnswersTrue, TypeOK
    <3>2. disk'.pending = Tail(disk.pending)
      BY <2>2 DEF Settle
    <3>3. PICK n, r :
            /\ n \in Nat \ {0}
            /\ DOMAIN disk.pending = 1 .. n /\ r = disk'.pending /\ DOMAIN r = 1 .. n - 1
            /\ \A k \in 1 .. n - 1 : r[k] = disk.pending[k + 1]
      <4>1. PICK n, r : n = Len(disk.pending) /\ r = disk'.pending
        OBVIOUS
      <4>2. /\ n \in Nat \ {0} /\ DOMAIN disk.pending = 1 .. n /\ DOMAIN r = 1 .. n - 1
            /\ \A k \in 1 .. n - 1 : r[k] = disk.pending[k + 1]
        BY <3>1, <3>2, <4>1, TailFacts
      <4> QED
        BY <4>1, <4>2
    <3>4. CASE i = 1
      <4>1. ASSUME NEW j \in DOMAIN ingested, ingested[j].id = disk.pending[1].id
            PROVE  ingested[j] = disk.pending[1]
        <5>1. ingested[j].id \in Nat
          BY <1>1, SnapshotFields DEF Inv, TypeOK
        <5>2. 1 \in DOMAIN disk.pending
          BY <3>3
        <5>3. IsHead(ingested[j]) \/ ingested[j].id < disk.pending[1].id
          BY <1>1, <5>2 DEF Inv, BackendBehind
        <5> QED
          BY <4>1, <5>1, <5>3 DEF IsHead
      <4> QED
        BY <3>1, <3>4, <4>1 DEF Settled, Taken
    <3>5. CASE i # 1
      <4>1. i - 1 \in 1 .. n - 1 /\ (i - 1) + 1 = i
        BY <3>3, <3>5
      <4>2. r[i - 1] = disk.pending[i]
        BY <3>3, <4>1
      <4> QED
        BY <3>3, <4>1, <4>2
    <3> QED
      BY <3>4, <3>5
  <2>3. CASE Poll
    <3>1. /\ disk \in [sequence : Nat, pending : Seq(Snapshots)]
          /\ disk.pending \in Seq(Snapshots)
      BY <1>1 DEF Inv, TypeOK
    <3>2. CASE disk' = disk
      BY <2>1, <3>2
    <3>3. CASE built < MaxBuilt /\ disk' # disk
      <4>1. PICK kind, s :
              /\ kind \in AllKinds
              /\ s = [id |-> built + 1, sequence |-> Highest + 1, kind |-> kind]
              /\ disk' = [disk EXCEPT !.pending = Buffered(s)]
        <5>1. Kinds[built + 1] \subseteq AllKinds
          <6>1. built + 1 \in 1 .. MaxBuilt
            BY <1>1, <3>3 DEF Inv, TypeOK
          <6> QED
            BY <6>1, DeliveryAssumption
        <5> QED
          BY <2>3, <3>3, <5>1 DEF Poll
      <4>2. Highest + 1 \in Nat /\ built + 1 \in 1 .. MaxBuilt
        <5>1. /\ Highest = disk.sequence + Len(disk.pending)
              /\ disk.sequence \in Nat /\ built \in 0 .. MaxBuilt
          BY <1>1, HighestIsNext DEF Inv, TypeOK
        <5> QED
          BY <3>1, <3>3, <5>1
      <4>3. s \in Snapshots
        BY <4>1, <4>2 DEF Snapshots
      <4>4. /\ Append(disk.pending, s) \in Seq(Snapshots)
            /\ i \in DOMAIN Append(disk.pending, s)
            /\ Append(disk.pending, s)[i] = disk.pending[i]
        BY <3>1, <4>3, AppendFacts
      <4>5. Buffered(s) \in Seq(Snapshots)
        BY <3>1, <4>4 DEF Buffered
      <4>6. disk'.pending = Buffered(s)
        BY <3>1, <4>1, <4>5, DiskFields
      <4>7. i \in DOMAIN disk'.pending /\ disk'.pending[i] = disk.pending[i]
        BY <4>4, <4>6 DEF Buffered
      <4> QED
        BY <4>7
    <3> QED
      BY <2>3, <3>2, <3>3 DEF Poll
  <2> QED
    BY <1>1, <2>1, <2>2, <2>3
       DEF Next, Send, Refuse, Finish, TimeOut, Crash, Abandon, Serve, ServeLate, Age,
           Rotate, collector, vars
<1>2. ASSUME Inv, [Next]_vars
      PROVE  [\A i \in DOMAIN disk.pending : Gone(i)]_vars
  BY <1>1, <1>2
<1>3. Inv /\ [Next]_vars => [\A i \in DOMAIN disk.pending : Gone(i)]_vars
  BY <1>2
<1> QED
  BY <1>3, Invariant, PTL DEF Spec, OnlySettledDropped

-----------------------------------------------------------------------------
(* The refinement of SnapshotFeed *)

Numbers == [i \in DOMAIN ingested |-> ingested[i].sequence]

(* The numbers of the snapshots after one more was accepted. *)
LEMMA NumbersGrow ==
  ASSUME NEW t \in Seq(Snapshots), NEW s \in Snapshots
  PROVE  [i \in DOMAIN Append(t, s) |-> Append(t, s)[i].sequence]
           = Append([i \in DOMAIN t |-> t[i].sequence], s.sequence)
<1> DEFINE u == [i \in 1 .. Len(t) |-> t[i].sequence]
           v == [i \in 1 .. Len(t) + 1 |-> Append(t, s)[i].sequence]
<1>1. /\ DOMAIN t = 1 .. Len(t) /\ Len(t) \in Nat
      /\ DOMAIN Append(t, s) = 1 .. Len(t) + 1
      /\ \A i \in 1 .. Len(t) : Append(t, s)[i] = t[i]
      /\ Append(t, s)[Len(t) + 1] = s
  BY AppendFacts
<1>2. u \in Seq(Nat) /\ Len(u) = Len(t)
  BY <1>1, SnapshotFields
<1>3. v \in Seq(Nat) /\ Len(v) = Len(t) + 1
  <2>1. \A i \in 1 .. Len(t) + 1 : Append(t, s)[i].sequence \in Nat
    BY <1>1, SnapshotFields
  <2> QED
    BY <1>1, <2>1
<1>4. s.sequence \in Nat
  BY SnapshotFields
<1>5. /\ Append(u, s.sequence) \in Seq(Nat) /\ Len(Append(u, s.sequence)) = Len(t) + 1
      /\ \A i \in 1 .. Len(t) : Append(u, s.sequence)[i] = u[i]
      /\ Append(u, s.sequence)[Len(t) + 1] = s.sequence
  BY <1>2, <1>4, AppendFacts
<1>6. \A i \in 1 .. Len(t) + 1 : v[i] = Append(u, s.sequence)[i]
  BY <1>1, <1>5
<1>7. v = Append(u, s.sequence)
  BY <1>1, <1>3, <1>5, <1>6
<1> QED
  BY <1>1, <1>7

(* An accepted snapshot is no further than the next number to settle, and  *)
(* beyond all that were delivered.                                         *)
LEMMA IngestDelivers ==
  ASSUME Inv, NEW s \in Snapshots, IsHead(s) \/ s \in late, Ingest(s),
         disk' = disk
  PROVE  Feed!Deliver \/ UNCHANGED <<Numbers, disk.sequence>>
<1>1. CASE Verdict(s) # "accepted"
  BY <1>1 DEF Ingest, backend, Numbers
<1>2. CASE Verdict(s) = "accepted"
  <2>1. /\ s.sequence > lastSequence
        /\ s.sequence = disk.sequence + 1 \/ s.sequence <= disk.sequence
        /\ \A j \in DOMAIN ingested : ingested[j].sequence < s.sequence
    BY <1>2, AcceptedInOrder
  <2>2. ingested \in Seq(Snapshots) /\ ingested' = Append(ingested, s)
    BY <1>2 DEF Ingest, Inv, TypeOK
  <2>3. Numbers' = Append(Numbers, s.sequence)
    BY <2>2, NumbersGrow DEF Numbers
  <2>4. s.sequence \in 1 .. disk.sequence + 1
    <3>1. lastSequence \in Nat /\ disk.sequence \in Nat /\ s.sequence \in Nat
      BY SnapshotFields DEF Inv, TypeOK
    <3> QED
      BY <2>1, <3>1
  <2>5. \A j \in DOMAIN Numbers : Numbers[j] < s.sequence
    BY <2>1 DEF Numbers
  <2>6. UNCHANGED disk.sequence
    OBVIOUS
  <2> QED
    BY <2>3, <2>4, <2>5, <2>6 DEF Feed!Deliver, Numbers
<1> QED
  BY <1>1, <1>2

(* Every step of the collector and the endpoint is a step of the feed. *)
LEMMA StepImplements ==
  Inv /\ [Next]_vars => [Feed!Next]_<<Numbers, disk.sequence>>
<1> SUFFICES ASSUME Inv, [Next]_vars
             PROVE  Feed!Next \/ UNCHANGED <<Numbers, disk.sequence>>
  OBVIOUS
<1>0. disk \in [sequence : Nat, pending : Seq(Snapshots)] /\ disk.pending \in Seq(Snapshots)
  BY DEF Inv, TypeOK
<1>1. CASE Settle
  <2>1. disk.pending # <<>> /\ Head(disk.pending) = disk.pending[1] /\ 1 \in DOMAIN disk.pending
    BY <1>0, <1>1, TailFacts DEF Settle, Inv, AnswersTrue
  <2>2. disk'.sequence = disk.sequence + 1
    BY <1>1, <2>1 DEF Settle, Inv, BufferResumes
  <2>3. Numbers' = Numbers
    BY <1>1 DEF Settle, backend, Numbers
  <2> QED
    BY <2>2, <2>3 DEF Feed!Next, Feed!Settle, Numbers
<1>2. CASE Serve
  <2>1. disk.pending # <<>> /\ Head(disk.pending) = disk.pending[1]
        /\ disk.pending[1] \in Snapshots
    BY <1>0, <1>2, TailFacts DEF Serve, Inv, AnswersTrue
  <2> QED
    BY <1>2, <2>1, IngestDelivers DEF Serve, IsHead, Feed!Next
<1>3. CASE ServeLate
  <2>1. PICK s \in late : Ingest(s)
    BY <1>3 DEF ServeLate
  <2>2. s \in Snapshots /\ disk' = disk
    BY <1>3 DEF Inv, TypeOK, ServeLate, collector
  <2> QED
    BY <2>1, <2>2, IngestDelivers DEF Feed!Next
<1>4. CASE Poll
  <2>1. UNCHANGED ingested
    BY <1>4 DEF Poll, backend
  <2>2. disk'.sequence = disk.sequence
    BY <1>0, <1>4 DEF Poll
  <2> QED
    BY <2>1, <2>2 DEF Numbers
<1>5. CASE UNCHANGED <<disk, ingested>>
  BY <1>5 DEF Numbers
<1> QED
  BY <1>1, <1>2, <1>3, <1>4, <1>5
     DEF Next, Send, Refuse, Finish, TimeOut, Crash, Abandon, Age, Rotate, backend,
         collector, vars

(* The collector and the endpoint implement SnapshotFeed: whatever is lost, *)
(* late, refused or repeated, numbers are settled one by one, and delivered *)
(* at most once, in order, none before it is the next to settle.            *)
THEOREM FeedImplemented == Spec => ImplementsFeed
<1>1. Init => Feed!Init
  BY DEF Init, Feed!Init
<1>2. Inv /\ [Next]_vars => [Feed!Next]_<<Numbers, disk.sequence>>
  BY StepImplements
<1> QED
  BY <1>1, <1>2, Invariant, PTL DEF Spec, ImplementsFeed, Feed!Spec, Numbers

=============================================================================
