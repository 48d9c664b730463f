-------------------------- MODULE ImageUpdateProofs -------------------------
(***************************************************************************)
(* Proofs about module ImageUpdate, for any sizes, bounds and rooms for    *)
(* images. That the board can always boot rests on the partition that      *)
(* flashFsKernelImage takes for the current one being the one that runs,   *)
(* up to the first tag that is written (BootInv), on the image that goes   *)
(* on into the second partition being there alone (AloneInv), and on the   *)
(* other partition keeping its image while one is written (WriteInv).      *)
(***************************************************************************)
EXTENDS ImageUpdate, TLAPS

\* The call's record is that of no call when there is none.
CallInv ==
  /\ call.at = "idle" => call = Idle
  /\ running = 0 => call = Idle /\ asked = 0
  /\ call.at = "seq" => NextSeq <= MaxSeq /\ (call.part # 0 => Valid(call.part))

AloneInv == Bootable(1) /\ Reaches(part[1].size) => ~Valid(2)

WriteInv ==
  call.at = "write" =>
    /\ call.part \in Partitions /\ Valid(call.part) /\ moved /\ asked = 0 /\ running # 0
    /\ risk \/ (Bootable(Other(call.part)) /\ ~Reaches(part[call.part].size))

BootInv ==
  ~moved /\ running # 0 /\ call.at \in {"idle", "seq"} =>
    /\ CurPartition = running /\ Bootable(running)
    /\ imgid \in {"new", "old"} => Valid(1) /\ Valid(2)
    /\ imgid = "only" => ~Valid(Other(running))

AskedInv ==
  asked # 0 =>
    /\ state \in {"new", "new_once"}
    /\ \/ unranked
       \/ call.at = "seq" /\ call.part = asked
       \/ call = Idle /\ Selected = asked

IInv == ImageTypeOK /\ SeqDistinct /\ CallInv /\ AloneInv /\ WriteInv /\ BootableAlways
        /\ BootInv /\ AskedInv

-----------------------------------------------------------------------------
(* Types.                                                                  *)

States == {"new", "old", "new_once", "none"}
Imgids == {"new", "old", "only"}
Calls  == [at : {"idle", "write", "seq", "reboot"}, part : 0 .. 2, noReboot : BOOLEAN]

LEMMA TypeFacts ==
  ASSUME ImageTypeOK
  PROVE  /\ part \in [Partitions -> Image] /\ state \in States /\ imgid \in Imgids
         /\ running \in 0 .. 2 /\ bootedPartition \in 0 .. 2 /\ asked \in 0 .. 2
         /\ call \in Calls /\ moved \in BOOLEAN /\ risk \in BOOLEAN /\ unranked \in BOOLEAN
         /\ faults \in 0 .. MaxFaults
BY DEF ImageTypeOK, States, Imgids, Calls

LEMMA TypeNext ==
  ASSUME part' \in [Partitions -> Image], state' \in States, imgid' \in Imgids,
         running' \in 0 .. 2, bootedPartition' \in 0 .. 2, asked' \in 0 .. 2,
         call' \in Calls, moved' \in BOOLEAN, risk' \in BOOLEAN, unranked' \in BOOLEAN,
         faults' \in 0 .. MaxFaults
  PROVE  ImageTypeOK'
BY DEF ImageTypeOK, States, Imgids, Calls

LEMMA IdleIsCall == Idle \in Calls /\ [Idle EXCEPT !.at = "reboot"] \in Calls
<1>1. FALSE \in BOOLEAN /\ 0 \in 0 .. 2
  OBVIOUS
<1>2. Idle \in Calls
  BY <1>1 DEF Idle, Calls
<1>3. [Idle EXCEPT !.at = "reboot"] \in Calls
  BY <1>2 DEF Calls
<1> QED
  BY <1>2, <1>3

-----------------------------------------------------------------------------
(* Tags.                                                                   *)

LEMMA PartFacts ==
  ASSUME ImageTypeOK, NEW k \in Partitions
  PROVE  /\ part[k] \in Image /\ Seq(k) \in Int /\ (Valid(k) <=> Seq(k) >= 1)
         /\ ~Valid(k) => Seq(k) = -1
         /\ Seq(k) <= MaxSeq /\ part[k].size \in Nat /\ part[k].size \in Sizes
         /\ part[k].whole \in BOOLEAN
         /\ Other(k) \in Partitions /\ Other(k) # k
<1>1. part[k] \in Image
  BY DEF ImageTypeOK
<1>2. MaxSeq \in Nat /\ MaxSeq >= 1 /\ Sizes \subseteq Nat
  BY ImageUpdateAssumption
<1>3. part[k].seq \in {NoTag} \cup 1 .. MaxSeq /\ part[k].size \in Sizes
  BY <1>1 DEF Image
<1>4. part[k].whole \in BOOLEAN
  BY <1>1 DEF Image
<1>5. Other(k) \in Partitions /\ Other(k) # k
  BY DEF Other, Partitions
<1>6. Seq(k) \in Int /\ (Valid(k) <=> Seq(k) >= 1) /\ (~Valid(k) => Seq(k) = -1) /\ Seq(k) <= MaxSeq
  BY <1>2, <1>3 DEF NoTag, Seq, Valid
<1>7. part[k].size \in Nat /\ part[k].size \in Sizes
  BY <1>2, <1>3
<1> QED
  BY <1>1, <1>4, <1>5, <1>6, <1>7

LEMMA Two == Partitions = {1, 2} /\ Other(1) = 2 /\ Other(2) = 1
BY DEF Partitions, Other

\* The next number is higher than any.
LEMMA NextSeqFacts ==
  ASSUME ImageTypeOK
  PROVE  NextSeq \in Nat \ {0} /\ NextSeq > Seq(1) /\ NextSeq > Seq(2)
<1>1. /\ Seq(1) \in Int /\ (Valid(1) <=> Seq(1) >= 1) /\ (~Valid(1) => Seq(1) = -1)
      /\ Seq(2) \in Int /\ (Valid(2) <=> Seq(2) >= 1) /\ (~Valid(2) => Seq(2) = -1)
  BY PartFacts, Two
<1>2. Seq(Highest) \in Int /\ Seq(1) <= Seq(Highest) /\ Seq(2) <= Seq(Highest)
  BY <1>1 DEF Highest
<1> QED
  BY <1>1, <1>2 DEF NextSeq

LEMMA CurFacts ==
  ASSUME ImageTypeOK
  PROVE  /\ CurPartition \in 0 .. 2
         /\ CurPartition = 0 <=> ~Valid(1) /\ ~Valid(2)
         /\ CurPartition # 0 => Valid(CurPartition)
BY Two DEF CurPartition, Lowest, Highest, Valid

\* What the boot loader starts is complete; the other image decides what it says.
LEMMA BootsFacts ==
  /\ Boots \in 0 .. 2
  /\ Boots # 0 => Boots \in Partitions /\ Bootable(Boots)
  /\ Boots = 0 => ~Bootable(1) /\ ~Bootable(2)
<1>1. Selected \in Partitions
  BY Two DEF Selected, Lowest, Highest
<1> QED
  BY <1>1, Two DEF Boots

LEMMA FactoryFacts ==
  /\ FactorySize \in Sizes
  /\ Factory \in [Partitions -> Image]
  /\ Factory[1].seq = 1 /\ Factory[1].whole /\ Factory[2].seq = NoTag
<1>1. FactorySize \in Sizes
  BY ImageUpdateAssumption DEF FactorySize
<1>2. 1 \in 1 .. MaxSeq
  BY ImageUpdateAssumption
<1>3. \A k \in Partitions : (k = 1) \in BOOLEAN
  OBVIOUS
<1>4. \A k \in Partitions :
        [seq |-> IF k = 1 THEN 1 ELSE NoTag, size |-> FactorySize, whole |-> k = 1] \in Image
  BY <1>1, <1>2, <1>3 DEF Image
<1>5. Factory \in [Partitions -> Image]
  BY <1>4 DEF Factory
<1>6. Factory[1].seq = 1 /\ Factory[2].seq = NoTag
  BY DEF Factory, Partitions
<1>7. Factory[1].whole
  BY DEF Factory, Partitions
<1> QED
  BY <1>1, <1>5, <1>6, <1>7

-----------------------------------------------------------------------------
(* Steps that leave the tags alone.                                        *)

\* What is said of the tags only.
LEMMA SameTags ==
  ASSUME part' = part
  PROVE  /\ \A k \in Partitions : Seq(k)' = Seq(k) /\ (Valid(k)' <=> Valid(k))
                                  /\ (Bootable(k)' <=> Bootable(k))
         /\ NextSeq' = NextSeq /\ Highest' = Highest /\ Lowest' = Lowest
         /\ SeqDistinct' <=> SeqDistinct
         /\ AloneInv' <=> AloneInv
BY Two DEF Seq, Valid, Bootable, NextSeq, Highest, Lowest, SeqDistinct, AloneInv, Reaches

LEMMA InitInv == Init => IInv
<1> SUFFICES ASSUME Init PROVE IInv
  OBVIOUS
<1>1. /\ part \in [Partitions -> Image] /\ Seq(1) = 1 /\ Seq(2) = NoTag /\ part[1].whole
      /\ Valid(1) /\ ~Valid(2) /\ Bootable(1)
  BY FactoryFacts DEF Init, Seq, Valid, Bootable, NoTag
<1>2. ImageTypeOK
  <2>1. state \in States /\ imgid \in Imgids /\ running \in 0 .. 2 /\ bootedPartition \in 0 .. 2
        /\ asked \in 0 .. 2 /\ faults \in 0 .. MaxFaults
    BY ImageUpdateAssumption DEF Init, States, Imgids
  <2>2. call \in Calls /\ moved \in BOOLEAN /\ risk \in BOOLEAN /\ unranked \in BOOLEAN
    BY IdleIsCall DEF Init
  <2> QED BY <1>1, <2>1, <2>2 DEF ImageTypeOK, States, Imgids, Calls
<1>3. CurPartition = 1
  BY <1>1 DEF CurPartition
<1>4. SeqDistinct /\ WriteInv /\ BootableAlways /\ AskedInv /\ CallInv /\ AloneInv
  BY <1>1, Two DEF Init, Idle, SeqDistinct, WriteInv, BootableAlways, AskedInv, CallInv, AloneInv
<1>5. BootInv
  BY <1>1, <1>3, Two DEF Init, BootInv
<1> QED
  BY <1>2, <1>4, <1>5 DEF IInv

LEMMA RestartInv == IInv /\ Restart => IInv'
<1> SUFFICES ASSUME IInv, Restart PROVE IInv'
  OBVIOUS
<1>1. /\ running' = Boots /\ part' = part /\ call' = Idle /\ moved' = FALSE /\ asked' = 0
      /\ unranked' = FALSE /\ bootedPartition' = 0 /\ faults' = faults /\ risk' = (Boots = 0)
      /\ imgid' = IF Boots = 0 THEN imgid ELSE IF ~Valid(Other(Boots)) THEN "only"
                  ELSE IF Boots = Highest THEN "new" ELSE "old"
      /\ state' = IF state = "new_once" /\ Boots # 0 THEN "old" ELSE state
  BY DEF Restart
<1>2. ImageTypeOK /\ SeqDistinct /\ AloneInv
  BY DEF IInv
<1>3. Boots \in 0 .. 2 /\ (Boots # 0 => Boots \in Partitions /\ Bootable(Boots))
  BY BootsFacts
<1>4. imgid' \in Imgids /\ state' \in States
  BY <1>1, <1>2, TypeFacts DEF Imgids, States
<1>5. risk' \in BOOLEAN
  BY <1>1
<1>6. ImageTypeOK'
  <2>1. /\ part' \in [Partitions -> Image] /\ running' \in 0 .. 2 /\ bootedPartition' \in 0 .. 2
        /\ asked' \in 0 .. 2 /\ faults' \in 0 .. MaxFaults
    BY <1>1, <1>2, <1>3, TypeFacts
  <2>2. call' \in Calls /\ moved' \in BOOLEAN /\ unranked' \in BOOLEAN
    BY <1>1, IdleIsCall
  <2> QED BY <1>4, <1>5, <2>1, <2>2, TypeNext
<1>7. SeqDistinct' /\ AloneInv' /\ \A k \in Partitions : Seq(k)' = Seq(k) /\ (Valid(k)' <=> Valid(k))
                                  /\ (Bootable(k)' <=> Bootable(k))
  BY <1>1, <1>2, SameTags
<1>8. Highest' = Highest /\ Lowest' = Lowest
  BY <1>1, SameTags
<1>9. CallInv' /\ WriteInv' /\ AskedInv'
  BY <1>1 DEF CallInv, WriteInv, AskedInv, Idle
<1>10. BootableAlways'
  BY <1>1, <1>3, <1>7 DEF BootableAlways
<1>11. ASSUME Boots # 0
       PROVE  /\ CurPartition' = Boots
              /\ imgid' \in {"new", "old"} => Valid(1) /\ Valid(2)
              /\ imgid' = "only" => ~Valid(Other(Boots))
  <2>1. Boots \in Partitions /\ Valid(Boots)
    BY <1>3, <1>11 DEF Bootable
  <2>2. CurPartition' = IF Valid(1) /\ Valid(2) THEN IF imgid' = "old" THEN Lowest ELSE Highest
                        ELSE IF Valid(2) THEN 2 ELSE IF Valid(1) THEN 1 ELSE 0
    BY <1>7, <1>8, Two DEF CurPartition
  <2>3. CASE ~Valid(Other(Boots))
    BY <1>1, <1>11, <2>1, <2>2, <2>3, Two
  <2>4. CASE Valid(Other(Boots))
    <3>1. Valid(1) /\ Valid(2)
      BY <2>1, <2>4, Two
    <3>2. Seq(1) # Seq(2) /\ Seq(1) \in Int /\ Seq(2) \in Int
      BY <1>2, <3>1, PartFacts, Two DEF SeqDistinct
    <3>3. Boots # Highest => Boots = Lowest
      BY <2>1, <3>2, Two DEF Highest, Lowest
    <3> QED BY <1>1, <1>11, <2>2, <2>4, <3>1, <3>3
  <2> QED BY <2>3, <2>4
<1>12. BootInv'
  BY <1>1, <1>3, <1>7, <1>11, Two DEF BootInv
<1> QED
  BY <1>6, <1>7, <1>9, <1>10, <1>12 DEF IInv

LEMMA RecoverInv == IInv /\ Recover => IInv'
<1> SUFFICES ASSUME IInv, Recover PROVE IInv'
  OBVIOUS
<1>1. /\ part' = Factory /\ running = 0 /\ running' = 1 /\ imgid' = "only" /\ risk' = FALSE
      /\ UNCHANGED <<state, bootedPartition, call, moved, asked, unranked, faults>>
  BY DEF Recover, granted
<1>2. call = Idle /\ asked = 0 /\ ImageTypeOK
  BY <1>1 DEF IInv, CallInv
<1>3. /\ part' \in [Partitions -> Image] /\ Seq(1)' = 1 /\ Seq(2)' = NoTag /\ part'[1].whole
      /\ Valid(1)' /\ ~Valid(2)' /\ Bootable(1)'
  BY <1>1, FactoryFacts DEF Seq, Valid, Bootable, NoTag
<1>4. ImageTypeOK'
  <2>1. /\ state' \in States /\ running' \in 0 .. 2 /\ bootedPartition' \in 0 .. 2
        /\ asked' \in 0 .. 2 /\ faults' \in 0 .. MaxFaults /\ imgid' \in Imgids
    BY <1>1, <1>2, TypeFacts DEF Imgids
  <2>2. call' \in Calls /\ moved' \in BOOLEAN /\ risk' \in BOOLEAN /\ unranked' \in BOOLEAN
    BY <1>1, <1>2, TypeFacts
  <2> QED BY <1>3, <2>1, <2>2, TypeNext
<1>5. CurPartition' = 1
  BY <1>3 DEF CurPartition
<1>6. SeqDistinct' /\ WriteInv' /\ BootableAlways' /\ AskedInv' /\ CallInv' /\ AloneInv'
  BY <1>1, <1>2, <1>3, Two
  DEF Idle, SeqDistinct, WriteInv, BootableAlways, AskedInv, CallInv, AloneInv
<1>7. BootInv'
  BY <1>1, <1>3, <1>5, Two DEF BootInv
<1> QED
  BY <1>4, <1>6, <1>7 DEF IInv

-----------------------------------------------------------------------------
(* Writing an image.                                                       *)

\* With room for two images, the image that is not written is the one that is to
\* be left alone.
LEMMA TargetFacts ==
  ASSUME ImageTypeOK, NEW request \in {0} \cup Partitions, NEW size \in Sizes
  PROVE  /\ Target(request, size) \in Partitions
         /\ TwoFit(size) /\ CurPartition # 0 => Left(request) = Other(Target(request, size))
BY CurFacts, Two DEF Target, FlashPartition, Left

\* That image is whole: before any tag is written, as the one that runs.
LEMMA LeftFacts ==
  ASSUME ImageTypeOK, BootInv, call = Idle, running # 0, NEW request \in {0} \cup Partitions,
         request # running, ~Misled(request)
  PROVE  Left(request) \in Partitions /\ Bootable(Left(request)) /\ CurPartition # 0
<1>1. CASE moved
  <2>1. PICK k \in Partitions : k = Left(request) /\ Bootable(k)
    BY <1>1 DEF Misled
  <2> QED BY <2>1, CurFacts, Two DEF Bootable
<1>2. CASE ~moved
  <2>1. CurPartition = running /\ Bootable(running) /\ running \in Partitions
    BY <1>2, TypeFacts, Two DEF BootInv, Idle
  <2>2. Left(request) = running
    BY <2>1, Two DEF Left
  <2> QED BY <2>1, <2>2
<1> QED
  BY <1>1, <1>2

\* An image that is to be left alone in the first partition ends there.
LEMMA LeftEnds ==
  ASSUME ImageTypeOK, AloneInv, Bootable(1), NEW size \in Sizes, TwoFit(size)
  PROVE  ~Reaches(part[1].size)
<1> SUFFICES ASSUME Reaches(part[1].size) PROVE FALSE
  OBVIOUS
<1>1. Valid(1) /\ ~Valid(2)
  BY DEF AloneInv, Bootable
<1>2. CurPartition = 1
  BY <1>1 DEF CurPartition
<1>3. part[1].size <= AvailableTwo
  BY <1>2 DEF TwoFit, CurSize
<1>4. part[1].size \in Nat /\ AvailableTwo \in Nat /\ FirstHalf \in Nat /\ AvailableTwo <= FirstHalf
  BY PartFacts, Two, ImageUpdateAssumption
<1> QED
  BY <1>3, <1>4 DEF Reaches

LEMMA FlashInv ==
  ASSUME IInv, NEW request \in {0} \cup Partitions, NEW size \in Sizes, NEW noReboot \in BOOLEAN,
         Flash(request, size, noReboot)
  PROVE  IInv'
<1>1. ImageTypeOK /\ SeqDistinct /\ BootInv /\ BootableAlways /\ AloneInv
  BY DEF IInv
<1>2. PICK t \in Partitions : t = Target(request, size)
  BY <1>1, TargetFacts
<1>3. PICK o \in Partitions : o = Other(t) /\ o # t /\ \A k \in Partitions : k = t \/ k = o
  BY Two
<1> DEFINE end == [part[o] EXCEPT !.whole = @ /\ ~(o = 1 /\ Reaches(part[o].size))]
<1>4. /\ call = Idle /\ running # 0 /\ NextSeq <= MaxSeq
      /\ part' = [k \in Partitions |->
                IF k = t THEN [seq |-> NextSeq, size |-> size, whole |-> FALSE]
                ELSE [part[k] EXCEPT !.whole = @ /\ ~(k = 1 /\ Reaches(part[k].size))]]
      /\ call' = [at |-> "write", part |-> t, noReboot |-> noReboot /\ NumPartitions(request, size) = 2]
      /\ moved' = TRUE /\ asked' = 0 /\ unranked' = FALSE
      /\ risk' = (risk \/ ~TwoFit(size) \/ request = running \/ Misled(request))
      /\ state' = state /\ faults' = faults
      /\ running' = running /\ imgid' = imgid /\ bootedPartition' = bootedPartition
  BY <1>2 DEF Flash, booted
<1>5. part'[t] = [seq |-> NextSeq, size |-> size, whole |-> FALSE] /\ part'[o] = end
  BY <1>3, <1>4
<1>6. part[o] \in Image /\ part[o].whole \in BOOLEAN
  BY <1>1, PartFacts
<1>7. NextSeq \in 1 .. MaxSeq
  BY <1>1, <1>4, NextSeqFacts, ImageUpdateAssumption
<1>8. part'[t] \in Image /\ part'[t].seq = NextSeq /\ part'[t].size = size
  <2>1. FALSE \in BOOLEAN
    OBVIOUS
  <2> QED BY <1>5, <1>7, <2>1 DEF Image
<1>9. end \in Image /\ end.seq = part[o].seq /\ end.size = part[o].size
      /\ end.whole = (part[o].whole /\ ~(o = 1 /\ Reaches(part[o].size)))
  <2>1. (part[o].whole /\ ~(o = 1 /\ Reaches(part[o].size))) \in BOOLEAN
    BY Zenon
  <2> QED BY <1>6, <2>1 DEF Image
<1>10. /\ part'[o].seq = part[o].seq
       /\ part'[o].whole = (part[o].whole /\ ~(o = 1 /\ Reaches(part[o].size)))
       /\ part'[o] \in Image
  BY <1>5, <1>9, Zenon
<1> HIDE DEF end
<1>11. part' \in [Partitions -> Image]
  <2>1. \A k \in Partitions : part'[k] \in Image
    BY <1>3, <1>8, <1>10
  <2>2. part' = [k \in Partitions |-> part'[k]]
    BY <1>4
  <2> QED BY <2>1, <2>2
<1>12. ImageTypeOK'
  <2>1. /\ state' \in States /\ imgid' \in Imgids /\ running' \in 0 .. 2
        /\ bootedPartition' \in 0 .. 2 /\ asked' \in 0 .. 2 /\ faults' \in 0 .. MaxFaults
    BY <1>1, <1>4, TypeFacts
  <2>2. (noReboot /\ NumPartitions(request, size) = 2) \in BOOLEAN
    BY Zenon
  <2>3. t \in 0 .. 2
    BY Two
  <2>4. call' \in Calls
    BY <1>4, <2>2, <2>3 DEF Calls
  <2>5. moved' \in BOOLEAN /\ risk' \in BOOLEAN /\ unranked' \in BOOLEAN
    BY <1>4, Zenon
  <2> QED BY <1>11, <2>1, <2>4, <2>5, TypeNext
<1>13. SeqDistinct'
  <2>1. part[o].seq # NextSeq
    BY <1>1, NextSeqFacts, PartFacts, Two DEF Seq
  <2>2. part'[t].seq # part'[o].seq
    BY <1>8, <1>10, <2>1
  <2> QED BY <1>3, <2>2, Two DEF SeqDistinct, Seq
<1>14. CallInv'
  BY <1>4 DEF CallInv
<1>15. ASSUME ~risk'
       PROVE  part'[o].seq # NoTag /\ part'[o].whole /\ ~Reaches(size)
  <2>1. TwoFit(size) /\ request # running /\ ~Misled(request)
    BY <1>4, <1>15, Zenon
  <2>2. Left(request) \in Partitions /\ Bootable(Left(request)) /\ CurPartition # 0
    BY <1>1, <1>4, <2>1, LeftFacts
  <2>3. Left(request) = o
    BY <1>1, <1>2, <1>3, <2>1, <2>2, TargetFacts
  <2>4. o = 1 => ~Reaches(part[o].size)
    BY <1>1, <2>1, <2>2, <2>3, LeftEnds
  <2>5. ~Reaches(size)
    BY <2>1, ImageUpdateAssumption DEF TwoFit, Reaches
  <2>6. part[o].whole /\ part[o].seq # NoTag
    BY <2>2, <2>3 DEF Bootable, Valid
  <2> QED BY <1>10, <2>4, <2>5, <2>6, Zenon
<1>16. WriteInv'
  <2>1. call'.part = t /\ moved' /\ asked' = 0 /\ running' # 0 /\ part'[t].size = size
    BY <1>4, <1>8
  <2>2. Other(t)' = o /\ part'[t].seq # NoTag
    BY <1>3, <1>7, <1>8 DEF Other, NoTag
  <2>3. risk' \/ (part'[o].seq # NoTag /\ part'[o].whole /\ ~Reaches(size))
    BY <1>15
  <2> QED BY <2>1, <2>2, <2>3 DEF WriteInv, Valid, Bootable, Reaches
<1>17. BootableAlways'
  BY <1>15 DEF BootableAlways, Bootable, Valid
<1>18. BootInv' /\ AskedInv'
  BY <1>4 DEF BootInv, AskedInv
<1>19. AloneInv'
  <2>1. CASE t = 1
    <3>1. part'[1] = [seq |-> NextSeq, size |-> size, whole |-> FALSE]
      BY <1>5, <2>1
    <3>2. ~part'[1].whole
      BY <3>1
    <3> QED BY <3>2 DEF AloneInv, Bootable
  <2>2. CASE t = 2
    <3>1. o = 1 /\ part'[1].whole = (part[1].whole /\ ~Reaches(part[1].size))
      BY <1>3, <1>10, <2>2, Two
    <3>2. part'[1].size = part[1].size
      BY <1>5, <1>9, <3>1 DEF end
    <3> QED BY <3>1, <3>2, Zenon DEF AloneInv, Bootable, Reaches
  <2> QED BY <2>1, <2>2, Two
<1> QED
  BY <1>12, <1>13, <1>14, <1>16, <1>17, <1>18, <1>19 DEF IInv

\* A tag that is torn takes nothing from the other partition.
LEMMA TornFacts ==
  ASSUME ImageTypeOK, SeqDistinct, NEW k \in Partitions,
         part' = [part EXCEPT ![k].seq = NoTag, ![k].whole = FALSE]
  PROVE  /\ part' \in [Partitions -> Image]
         /\ SeqDistinct' /\ Seq(Other(k))' = Seq(Other(k)) /\ part'[Other(k)] = part[Other(k)]
         /\ Bootable(Other(k))' <=> Bootable(Other(k))
         /\ ~Valid(k)' /\ (AloneInv => AloneInv')
<1>1. Other(k) \in Partitions /\ Other(k) # k /\ part[k] \in Image /\ part \in [Partitions -> Image]
  BY PartFacts DEF ImageTypeOK
<1>2. part' = [part EXCEPT ![k] = [part[k] EXCEPT !.seq = NoTag, !.whole = FALSE]]
  BY <1>1 DEF Image
<1>3. [part[k] EXCEPT !.seq = NoTag, !.whole = FALSE] \in Image
      /\ [part[k] EXCEPT !.seq = NoTag, !.whole = FALSE].seq = NoTag
  BY <1>1 DEF Image
<1>4. part' \in [Partitions -> Image] /\ part'[Other(k)] = part[Other(k)] /\ part'[k].seq = NoTag
  BY <1>1, <1>2, <1>3
<1>5. ~Valid(k)' /\ Seq(Other(k))' = Seq(Other(k)) /\ (Bootable(Other(k))' <=> Bootable(Other(k)))
  BY <1>4 DEF Valid, Seq, Bootable
<1>6. SeqDistinct'
  BY <1>5, Two DEF SeqDistinct
<1>7. AloneInv => AloneInv'
  BY <1>4, <1>5, Two DEF AloneInv, Bootable, Valid, Reaches
<1> QED
  BY <1>4, <1>5, <1>6, <1>7

LEMMA OverrunInv == IInv /\ Overrun => IInv'
<1> SUFFICES ASSUME IInv, Overrun PROVE IInv'
  OBVIOUS
<1>1. /\ call.at = "write" /\ call.part = 1 /\ Reaches(part[1].size)
      /\ part' = [part EXCEPT ![2].seq = NoTag, ![2].whole = FALSE]
      /\ UNCHANGED <<state, running, imgid, bootedPartition, call, moved, risk, asked, unranked,
                     faults>>
  BY DEF Overrun, Overruns, booted, granted
<1>2. ImageTypeOK /\ SeqDistinct /\ AloneInv /\ risk /\ Valid(1) /\ moved /\ asked = 0 /\ running # 0
  BY <1>1 DEF IInv, WriteInv
<1>3. part' \in [Partitions -> Image] /\ SeqDistinct' /\ AloneInv' /\ part'[1] = part[1]
  BY <1>1, <1>2, TornFacts, Two
<1>4. ImageTypeOK'
  BY <1>1, <1>2, <1>3, TypeFacts, TypeNext
<1>5. WriteInv' /\ BootableAlways'
  BY <1>1, <1>2, <1>3, Two DEF WriteInv, BootableAlways, Valid
<1>6. CallInv' /\ BootInv' /\ AskedInv'
  BY <1>1, <1>2 DEF CallInv, BootInv, AskedInv, Idle
<1> QED
  BY <1>3, <1>4, <1>5, <1>6 DEF IInv

\* The rest of an image is there now.
LEMMA WholeFacts ==
  ASSUME ImageTypeOK, SeqDistinct, NEW k \in Partitions, Valid(k),
         part' = [part EXCEPT ![k].whole = TRUE]
  PROVE  /\ part' \in [Partitions -> Image] /\ SeqDistinct'
         /\ part'[k].seq # NoTag /\ part'[k].whole
         /\ AloneInv /\ (k = 1 => ~(Reaches(part[1].size) /\ Valid(2))) => AloneInv'
<1>1. part[k] \in Image /\ part \in [Partitions -> Image]
  BY PartFacts DEF ImageTypeOK
<1>2. TRUE \in BOOLEAN
  OBVIOUS
<1>3. [part[k] EXCEPT !.whole = TRUE] \in Image /\ [part[k] EXCEPT !.whole = TRUE].seq = part[k].seq
      /\ [part[k] EXCEPT !.whole = TRUE].size = part[k].size
      /\ [part[k] EXCEPT !.whole = TRUE].whole = TRUE
  BY <1>1, <1>2 DEF Image
<1>4. part' \in [Partitions -> Image]
  BY <1>1, <1>3
<1>5. part'[k].whole = TRUE /\ part'[k].seq = part[k].seq
      /\ \A j \in Partitions : part'[j].seq = part[j].seq /\ part'[j].size = part[j].size
      /\ \A i \in Partitions : i # k => part'[i] = part[i]
  BY <1>1, <1>3
<1>6. SeqDistinct'
  BY <1>5, Two DEF SeqDistinct, Valid, Seq
<1>7. AloneInv /\ (k = 1 => ~(Reaches(part[1].size) /\ Valid(2))) => AloneInv'
  BY <1>5, Two DEF AloneInv, Bootable, Valid, Reaches
<1> QED
  BY <1>4, <1>5, <1>6, <1>7 DEF Valid

LEMMA WrittenInv == IInv /\ Written => IInv'
<1> SUFFICES ASSUME IInv, Written PROVE IInv'
  OBVIOUS
<1>1. /\ call.at = "write" /\ ~Overruns
      /\ part' = [part EXCEPT ![call.part].whole = TRUE]
      /\ call' = Idle \/ call' = [Idle EXCEPT !.at = "reboot"]
      /\ risk' = FALSE
      /\ UNCHANGED <<state, running, imgid, bootedPartition, moved, asked, unranked, faults>>
  BY DEF Written, booted, granted
<1>2. /\ ImageTypeOK /\ SeqDistinct /\ AloneInv /\ call.part \in Partitions /\ Valid(call.part)
      /\ moved /\ asked = 0 /\ running # 0
  BY <1>1 DEF IInv, WriteInv
<1>3. /\ part' \in [Partitions -> Image] /\ SeqDistinct' /\ AloneInv'
      /\ part'[call.part].seq # NoTag /\ part'[call.part].whole
  BY <1>1, <1>2, WholeFacts DEF Overruns
<1>4. ImageTypeOK'
  <2>1. call' \in Calls /\ risk' \in BOOLEAN
    BY <1>1, IdleIsCall
  <2> QED BY <1>1, <1>2, <1>3, <2>1, TypeFacts, TypeNext
<1>5. BootableAlways'
  BY <1>2, <1>3 DEF BootableAlways, Bootable, Valid
<1>6. CallInv' /\ WriteInv' /\ BootInv' /\ AskedInv'
  BY <1>1, <1>2 DEF CallInv, WriteInv, BootInv, AskedInv, Idle
<1> QED
  BY <1>3, <1>4, <1>5, <1>6 DEF IInv

\* What is left of the tags and images after a fault while an image is written.
LEMMA TornWrite ==
  ASSUME IInv, call.at = "write", UNCHANGED part \/ TagTorn, risk' = risk
  PROVE  part' \in [Partitions -> Image] /\ SeqDistinct' /\ AloneInv' /\ BootableAlways'
<1>1. /\ ImageTypeOK /\ SeqDistinct /\ AloneInv /\ BootableAlways /\ call.part \in Partitions
      /\ risk \/ Bootable(Other(call.part))
  BY DEF IInv, WriteInv
<1>2. CASE UNCHANGED part
  BY <1>1, <1>2, SameTags DEF ImageTypeOK, BootableAlways
<1>3. CASE TagTorn
  <2>1. PICK k \in Partitions : k = call.part
    BY <1>1
  <2>2. part' = [part EXCEPT ![k].seq = NoTag, ![k].whole = FALSE]
    BY <1>3, <2>1 DEF TagTorn
  <2>3. part' \in [Partitions -> Image] /\ SeqDistinct' /\ AloneInv' /\ (Bootable(Other(k))' <=> Bootable(Other(k)))
    BY <1>1, <2>2, TornFacts
  <2>4. PICK o \in Partitions : o = Other(k)
    BY Two
  <2>5. risk' \/ Bootable(o)'
    BY <1>1, <2>1, <2>3, <2>4
  <2> QED BY <2>3, <2>5 DEF BootableAlways
<1> QED
  BY <1>2, <1>3

LEMMA WriteFailsInv == IInv /\ WriteFails => IInv'
<1> SUFFICES ASSUME IInv, WriteFails PROVE IInv'
  OBVIOUS
<1>1. /\ call.at = "write" /\ faults < MaxFaults /\ (UNCHANGED part \/ TagTorn)
      /\ call' = Idle /\ faults' = faults + 1
      /\ UNCHANGED <<state, running, imgid, bootedPartition, moved, risk, asked, unranked>>
  BY DEF WriteFails, booted, granted
<1>2. ImageTypeOK /\ moved /\ asked = 0 /\ running # 0
  BY <1>1 DEF IInv, WriteInv
<1>3. part' \in [Partitions -> Image] /\ SeqDistinct' /\ AloneInv' /\ BootableAlways'
  BY <1>1, TornWrite
<1>4. ImageTypeOK'
  <2>1. call' \in Calls /\ faults' \in 0 .. MaxFaults
    BY <1>1, <1>2, IdleIsCall, TypeFacts, ImageUpdateAssumption
  <2> QED BY <1>1, <1>2, <1>3, <2>1, TypeFacts, TypeNext
<1>5. CallInv' /\ WriteInv' /\ BootInv' /\ AskedInv'
  BY <1>1, <1>2 DEF CallInv, WriteInv, BootInv, AskedInv, Idle
<1> QED
  BY <1>3, <1>4, <1>5 DEF IInv

-----------------------------------------------------------------------------
(* The boot image state.                                                   *)

LEMMA UpdateSeqInv == IInv /\ UpdateSeq => IInv'
<1> SUFFICES ASSUME IInv, UpdateSeq PROVE IInv'
  OBVIOUS
<1>1. /\ call.at = "seq" /\ call.part # 0
      /\ part' = [part EXCEPT ![call.part].seq = NextSeq]
      /\ call' = Idle /\ moved' = TRUE
      /\ UNCHANGED <<state, running, imgid, bootedPartition, risk, asked, unranked, faults>>
  BY DEF UpdateSeq, booted, granted
<1>2. /\ ImageTypeOK /\ SeqDistinct /\ AloneInv /\ BootableAlways /\ NextSeq <= MaxSeq /\ running # 0
      /\ Valid(call.part)
      /\ asked # 0 => state \in {"new", "new_once"} /\ (unranked \/ call.part = asked)
  BY <1>1 DEF IInv, CallInv, AskedInv, Idle
<1>3. call.part \in Partitions
  BY <1>1, <1>2, TypeFacts, Two DEF Calls
<1>4. PICK k \in Partitions : k = call.part
  BY <1>3
<1>5. PICK o \in Partitions : o = Other(k) /\ o # k /\ \A j \in Partitions : j = k \/ j = o
  BY Two
<1>6. part[k] \in Image /\ part \in [Partitions -> Image]
  BY <1>2, PartFacts DEF ImageTypeOK
<1>7. NextSeq \in 1 .. MaxSeq /\ NextSeq > Seq(1) /\ NextSeq > Seq(2)
  BY <1>2, NextSeqFacts, ImageUpdateAssumption
<1>8. [part[k] EXCEPT !.seq = NextSeq] \in Image /\ [part[k] EXCEPT !.seq = NextSeq].seq = NextSeq
      /\ [part[k] EXCEPT !.seq = NextSeq].whole = part[k].whole
      /\ [part[k] EXCEPT !.seq = NextSeq].size = part[k].size
  BY <1>6, <1>7 DEF Image
<1>9. /\ part' \in [Partitions -> Image] /\ part'[k].seq = NextSeq /\ part'[o] = part[o]
      /\ part'[k].whole = part[k].whole /\ part'[k].size = part[k].size
  BY <1>1, <1>4, <1>5, <1>6, <1>8
<1>10. ImageTypeOK'
  <2>1. call' \in Calls /\ moved' \in BOOLEAN
    BY <1>1, IdleIsCall
  <2> QED BY <1>1, <1>2, <1>9, <2>1, TypeFacts, TypeNext
<1>11. /\ part'[k].seq >= 1 /\ part'[o].seq \in Int /\ part'[k].seq \in Int
       /\ part'[k].seq > part'[o].seq /\ part'[k].seq # NoTag
  <2>1. NextSeq > part[o].seq /\ part[o].seq \in Int
    BY <1>2, <1>7, PartFacts, Two DEF Seq
  <2> QED BY <1>7, <1>9, <2>1 DEF NoTag
<1>12. SeqDistinct'
  BY <1>5, <1>11, Two DEF SeqDistinct, Seq
<1>13. BootableAlways'
  <2>1. CASE risk
    BY <1>1, <2>1 DEF BootableAlways
  <2>2. CASE \E j \in Partitions : Bootable(j)
    BY <1>5, <1>9, <1>11, <2>2 DEF BootableAlways, Bootable, Valid
  <2> QED BY <1>2, <2>1, <2>2 DEF BootableAlways
<1>14. CallInv' /\ WriteInv' /\ BootInv'
  BY <1>1, <1>2 DEF CallInv, WriteInv, BootInv, Idle
<1>15. ASSUME asked # 0, ~unranked
       PROVE  Selected' = k /\ k = asked
  <2>1. k = asked /\ state \in {"new", "new_once"} /\ state' = state
    BY <1>1, <1>2, <1>4, <1>15
  <2>2. CASE k = 1
    <3>1. o = 2
      BY <1>5, <2>2, Two
    <3> QED BY <1>11, <2>1, <2>2, <3>1 DEF Selected, Valid, Seq, Highest
  <2>3. CASE k = 2
    <3>1. o = 1
      BY <1>5, <2>3, Two
    <3> QED BY <1>11, <2>1, <2>3, <3>1 DEF Selected, Valid, Seq, Highest
  <2> QED BY <2>1, <2>2, <2>3, Two
<1>16. AskedInv'
  BY <1>1, <1>2, <1>15 DEF AskedInv
<1>17. AloneInv'
  <2>1. \A j \in Partitions : /\ part'[j].whole = part[j].whole /\ part'[j].size = part[j].size
                              /\ Valid(j)' <=> Valid(j)
    BY <1>2, <1>4, <1>5, <1>9, <1>11 DEF Valid
  <2> QED BY <1>2, <2>1, Two DEF AloneInv, Bootable, Reaches
<1> QED
  BY <1>10, <1>12, <1>13, <1>14, <1>16, <1>17 DEF IInv

\* What is left after a fault while a sequence number is written.
LEMMA TornSeq ==
  ASSUME IInv, call.at = "seq", call.part # 0, SeqTorn
  PROVE  /\ part' \in [Partitions -> Image] /\ SeqDistinct' /\ AloneInv' /\ BootableAlways'
         /\ moved' \in BOOLEAN /\ risk' \in BOOLEAN
<1>1. ImageTypeOK /\ SeqDistinct /\ AloneInv /\ BootableAlways
  BY DEF IInv
<1>2. call.part \in Partitions
  BY <1>1, TypeFacts, Two DEF Calls
<1>3. PICK k \in Partitions : k = call.part
  BY <1>2
<1>4. part' = [part EXCEPT ![k].seq = NoTag, ![k].whole = FALSE]
  BY <1>3 DEF TagTorn, SeqTorn
<1>5. PICK o \in Partitions : o = Other(k)
  BY Two
<1>6. part' \in [Partitions -> Image] /\ SeqDistinct' /\ AloneInv' /\ part'[o] = part[o]
  BY <1>1, <1>4, <1>5, TornFacts
<1>7. risk' \/ Bootable(o)
  BY <1>3, <1>5, Zenon DEF SeqTorn
<1>8. risk' \/ Bootable(o)'
  BY <1>6, <1>7 DEF Bootable, Valid
<1>9. moved' \in BOOLEAN /\ risk' \in BOOLEAN
  BY Zenon DEF SeqTorn
<1> QED
  BY <1>6, <1>8, <1>9 DEF BootableAlways

\* Steps that write no tag, before which there is no call.
LEMMA KeepsBootInv ==
  ASSUME BootInv, UNCHANGED <<part, running, imgid, moved>>, call.at \in {"idle", "seq"}
  PROVE  BootInv'
<1>1. /\ Valid(1)' = Valid(1) /\ Valid(2)' = Valid(2)
      /\ Highest' = Highest /\ Lowest' = Lowest
  BY DEF Valid, Highest, Lowest, Seq
<1>2. CurPartition' = CurPartition
  BY <1>1 DEF CurPartition
<1> QED
  BY <1>1, <1>2 DEF BootInv, Bootable, Valid, Other

LEMMA UpdateSeqFailsInv == IInv /\ UpdateSeqFails => IInv'
<1> SUFFICES ASSUME IInv, UpdateSeqFails PROVE IInv'
  OBVIOUS
<1>1. /\ call.at = "seq" /\ call.part # 0 /\ faults < MaxFaults
      /\ UNCHANGED <<part, moved, risk>> \/ SeqTorn
      /\ call' = Idle /\ unranked' = TRUE /\ faults' = faults + 1
      /\ UNCHANGED <<state, running, imgid, bootedPartition, asked>>
  BY DEF UpdateSeqFails, booted
<1>2. ImageTypeOK /\ SeqDistinct /\ AloneInv /\ BootableAlways /\ running # 0
      /\ (asked # 0 => state \in {"new", "new_once"})
  BY <1>1 DEF IInv, CallInv, AskedInv, Idle
<1>3. /\ part' \in [Partitions -> Image] /\ SeqDistinct' /\ AloneInv' /\ BootableAlways'
      /\ moved' \in BOOLEAN /\ risk' \in BOOLEAN
  <2>1. CASE UNCHANGED <<part, moved, risk>>
    BY <1>2, <2>1, SameTags, TypeFacts DEF BootableAlways
  <2>2. CASE SeqTorn
    BY <1>1, <2>2, TornSeq
  <2> QED BY <1>1, <2>1, <2>2
<1>4. ImageTypeOK'
  <2>1. call' \in Calls /\ faults' \in 0 .. MaxFaults /\ unranked' \in BOOLEAN
    BY <1>1, <1>2, IdleIsCall, TypeFacts, ImageUpdateAssumption
  <2> QED BY <1>1, <1>2, <1>3, <2>1, TypeFacts, TypeNext
<1>5. CallInv' /\ WriteInv' /\ AskedInv'
  BY <1>1, <1>2 DEF CallInv, WriteInv, AskedInv, Idle
<1>6. BootInv'
  <2>1. CASE UNCHANGED <<part, moved, risk>>
    <3>1. BootInv
      BY DEF IInv
    <3>2. UNCHANGED <<part, running, imgid, moved>> /\ call.at \in {"idle", "seq"}
      BY <1>1, <2>1
    <3> QED BY <3>1, <3>2, KeepsBootInv
  <2>2. CASE SeqTorn
    BY <2>2 DEF SeqTorn, BootInv
  <2> QED BY <1>1, <2>1, <2>2
<1> QED
  BY <1>3, <1>4, <1>5, <1>6 DEF IInv

LEMMA PowerCutInv == IInv /\ PowerCut => IInv'
<1> SUFFICES ASSUME IInv, PowerCut PROVE IInv'
  OBVIOUS
<1>1. /\ call.at \in {"write", "seq"} /\ call.part # 0 /\ faults < MaxFaults
      /\ \/ UNCHANGED <<part, moved, risk>>
         \/ call.at = "write" /\ TagTorn /\ UNCHANGED <<moved, risk>>
         \/ call.at = "seq" /\ SeqTorn
      /\ call' = [Idle EXCEPT !.at = "reboot"] /\ asked' = 0 /\ unranked' = FALSE
      /\ faults' = faults + 1
      /\ UNCHANGED <<state, running, imgid, bootedPartition>>
  BY DEF PowerCut, booted
<1>2. ImageTypeOK /\ SeqDistinct /\ AloneInv /\ BootableAlways /\ running # 0 /\ call'.at = "reboot"
  BY <1>1 DEF IInv, CallInv, WriteInv, Idle
<1>3. /\ part' \in [Partitions -> Image] /\ SeqDistinct' /\ AloneInv' /\ BootableAlways'
      /\ moved' \in BOOLEAN /\ risk' \in BOOLEAN
  <2>1. CASE UNCHANGED <<part, moved, risk>>
    BY <1>2, <2>1, SameTags, TypeFacts DEF BootableAlways
  <2>2. CASE call.at = "write" /\ TagTorn /\ UNCHANGED <<moved, risk>>
    BY <1>2, <2>2, TypeFacts, TornWrite
  <2>3. CASE call.at = "seq" /\ SeqTorn
    BY <1>1, <2>3, TornSeq
  <2> QED BY <1>1, <2>1, <2>2, <2>3
<1>4. ImageTypeOK'
  <2>1. call' \in Calls /\ faults' \in 0 .. MaxFaults /\ asked' \in 0 .. 2
    BY <1>1, <1>2, IdleIsCall, TypeFacts, ImageUpdateAssumption
  <2>2. unranked' \in BOOLEAN
    BY <1>1
  <2> QED BY <1>1, <1>2, <1>3, <2>1, <2>2, TypeFacts, TypeNext
<1>5. CallInv' /\ WriteInv' /\ BootInv' /\ AskedInv'
  BY <1>1, <1>2 DEF CallInv, WriteInv, BootInv, AskedInv, Idle
<1> QED
  BY <1>3, <1>4, <1>5 DEF IInv

\* What a request leaves to be done is the number of a tag that is there.
LEMMA ThenSeqFacts ==
  ASSUME IInv, call = Idle, NextSeq <= MaxSeq, UNCHANGED part, NEW req \in Requests, NEW curr,
         ~NothingToDo(req, curr), call' = ThenSeq(req, curr), running' # 0
  PROVE  /\ PartOf(req) \in 0 .. 2 /\ IncSeqNumPart(req) \in 0 .. 2
         /\ call' \in Calls /\ call'.at \in {"idle", "seq"}
         /\ ~IncSeqNum(req, curr) => call' = Idle
         /\ IncSeqNum(req, curr) => call'.at = "seq" /\ call'.part = IncSeqNumPart(req)
         /\ CallInv' /\ WriteInv'
<1>1. ImageTypeOK
  BY DEF IInv
<1>2. PartOf(req) \in 0 .. 2 /\ IncSeqNumPart(req) \in 0 .. 2
  BY <1>1, CurFacts DEF PartOf, IncSeqNumPart
<1>3. [Idle EXCEPT !.at = "seq", !.part = IncSeqNumPart(req)] \in Calls
      /\ [Idle EXCEPT !.at = "seq", !.part = IncSeqNumPart(req)].at = "seq"
      /\ [Idle EXCEPT !.at = "seq", !.part = IncSeqNumPart(req)].part = IncSeqNumPart(req)
  <2>1. FALSE \in BOOLEAN
    OBVIOUS
  <2> QED BY <1>2, <2>1 DEF Idle, Calls
<1>4. /\ call' \in Calls /\ call'.at \in {"idle", "seq"}
      /\ ~IncSeqNum(req, curr) => call' = Idle
      /\ IncSeqNum(req, curr) => call'.at = "seq" /\ call'.part = IncSeqNumPart(req)
  BY <1>3, IdleIsCall DEF Idle, ThenSeq
<1>5. IncSeqNum(req, curr) /\ IncSeqNumPart(req) # 0 => Valid(IncSeqNumPart(req))
  <2>1. CASE req = "new"
    BY <1>1, <2>1, CurFacts DEF IncSeqNumPart
  <2>2. CASE req # "new"
    BY <2>2 DEF IncSeqNumPart, NothingToDo
  <2> QED BY <2>1, <2>2
<1>6. NextSeq' = NextSeq /\ \A k \in Partitions : Valid(k)' <=> Valid(k)
  BY SameTags
<1>7. call'.at = "seq" => IncSeqNum(req, curr)
  BY <1>4 DEF Idle
<1>8. call'.at = "seq" /\ call'.part # 0 => Valid(call.part)'
  <2> SUFFICES ASSUME call'.at = "seq", call'.part # 0 PROVE Valid(call.part)'
    OBVIOUS
  <2>1. PICK k \in Partitions : k = call'.part
    BY <1>2, <1>4, <1>7, Two
  <2>2. Valid(k)
    BY <1>4, <1>5, <1>7, <2>1
  <2> QED BY <2>1, <2>2 DEF Valid
<1>9. CallInv'
  BY <1>4, <1>6, <1>7, <1>8 DEF CallInv, Idle
<1>10. WriteInv'
  BY <1>4 DEF WriteInv
<1> QED
  BY <1>2, <1>4, <1>9, <1>10

\* A request that is granted leaves the next start with the partition asked for,
\* or the sequence number still to be written for it.
LEMMA SetBootImageStateInv ==
  ASSUME IInv, NEW req \in Requests, NEW curr \in {state, "none"}, SetBootImageState(req, curr)
  PROVE  IInv'
<1>1. /\ call = Idle /\ running # 0 /\ ~NothingToDo(req, curr) /\ NextSeq <= MaxSeq
      /\ ReadBootImageState(curr)
      /\ state' = IF state = "none" THEN "none" ELSE StateOf(req)
      /\ call' = ThenSeq(req, curr)
      /\ asked' = IF state = "none" THEN 0
                  ELSE IF IncSeqNum(req, curr) THEN IncSeqNumPart(req) ELSE PartOf(req)
      /\ unranked' = FALSE /\ faults' = IF curr = state THEN faults ELSE faults + 1
      /\ UNCHANGED <<part, running, imgid, bootedPartition, moved, risk>>
  BY DEF SetBootImageState, booted
<1>2. ImageTypeOK /\ SeqDistinct /\ AloneInv /\ BootableAlways /\ BootInv
  BY DEF IInv
<1>3. /\ PartOf(req) \in 0 .. 2 /\ IncSeqNumPart(req) \in 0 .. 2
      /\ call' \in Calls /\ call'.at \in {"idle", "seq"}
      /\ ~IncSeqNum(req, curr) => call' = Idle
      /\ IncSeqNum(req, curr) => call'.at = "seq" /\ call'.part = IncSeqNumPart(req)
      /\ CallInv' /\ WriteInv'
  BY <1>1, ThenSeqFacts
<1>4. StateOf(req) \in States
  BY DEF Requests, StateOf, States
<1>5. ImageTypeOK'
  <2>1. state' \in States /\ asked' \in 0 .. 2
    BY <1>1, <1>3, <1>4 DEF States
  <2>3. unranked' \in BOOLEAN
    BY <1>1
  <2>2. faults' \in 0 .. MaxFaults
    BY <1>1, <1>2, TypeFacts, ImageUpdateAssumption DEF ReadBootImageState
  <2> QED BY <1>1, <1>2, <1>3, <2>1, <2>2, <2>3, TypeFacts, TypeNext
<1>6. SeqDistinct' /\ AloneInv' /\ Highest' = Highest
      /\ \A k \in Partitions : Bootable(k)' <=> Bootable(k)
  BY <1>1, <1>2, SameTags
<1>7. BootableAlways'
  BY <1>1, <1>2, <1>6 DEF BootableAlways
<1>8. BootInv'
  BY <1>1, <1>2, KeepsBootInv DEF Idle
<1>9. ASSUME asked' # 0
      PROVE  /\ state' \in {"new", "new_once"}
             /\ \/ call' = Idle /\ Selected' = asked'
                \/ call'.at = "seq" /\ call'.part = asked'
  <2>1. state # "none" /\ state' = StateOf(req)
    BY <1>1, <1>9
  <2>2. CASE IncSeqNum(req, curr)
    <3>1. call'.at = "seq" /\ call'.part = asked'
      BY <1>1, <1>3, <2>1, <2>2
    <3>2. state' \in {"new", "new_once"}
      BY <2>1, <2>2 DEF IncSeqNum, Requests, PartOf, StateOf
    <3> QED BY <3>1, <3>2
  <2>3. CASE ~IncSeqNum(req, curr)
    <3>1. call' = Idle /\ asked' = PartOf(req) /\ PartOf(req) \in Partitions
      BY <1>1, <1>3, <1>9, <2>1, <2>3, Two
    <3>2. Valid(PartOf(req)) /\ ~(Seq(PartOf(req)) < Seq(Other(PartOf(req))))
      BY <1>1, <2>3, <3>1, Two DEF NothingToDo, IncSeqNum
    <3>3. state' \in {"new", "new_once"}
      BY <2>1, <3>1, Two DEF PartOf, StateOf
    <3>4. /\ Seq(1) \in Int /\ Seq(2) \in Int
          /\ (Valid(1) /\ Valid(2) => Seq(1) # Seq(2))
      BY <1>2, PartFacts, Two DEF SeqDistinct
    <3>5. Valid(1)' = Valid(1) /\ Valid(2)' = Valid(2)
      BY <1>1 DEF Valid
    <3>6. CASE PartOf(req) = 1
      <4>1. Valid(1) /\ Highest = 1
        BY <3>2, <3>4, <3>6, Two DEF Highest
      <4>2. Selected' = 1
        BY <1>6, <3>3, <3>5, <4>1 DEF Selected
      <4> QED BY <3>1, <3>3, <3>6, <4>2
    <3>7. CASE PartOf(req) = 2
      <4>1. Valid(2) /\ (Valid(1) => Highest = 2)
        BY <3>2, <3>4, <3>7, Two DEF Highest
      <4>2. Selected' = 2
        BY <1>6, <3>3, <3>5, <4>1 DEF Selected
      <4> QED BY <3>1, <3>3, <3>7, <4>2
    <3> QED BY <3>1, <3>6, <3>7, Two
  <2> QED BY <2>2, <2>3
<1>10. AskedInv'
  BY <1>9 DEF AskedInv
<1> QED
  BY <1>3, <1>5, <1>6, <1>7, <1>8, <1>10 DEF IInv

LEMMA SetBootImageStateFailsInv ==
  ASSUME IInv, NEW req \in Requests, SetBootImageStateFails(req)
  PROVE  IInv'
<1>1. /\ call = Idle /\ running # 0 /\ ~NothingToDo(req, state) /\ NextSeq <= MaxSeq
      /\ faults < MaxFaults
      /\ state' \in {state, "none", StateOf(req)}
      /\ call' = ThenSeq(req, state)
      /\ asked' = 0 /\ unranked' = FALSE /\ faults' = faults + 1
      /\ UNCHANGED <<part, running, imgid, bootedPartition, moved, risk>>
  BY DEF SetBootImageStateFails, booted
<1>2. ImageTypeOK /\ SeqDistinct /\ AloneInv /\ BootableAlways /\ BootInv
  BY DEF IInv
<1>3. call' \in Calls /\ CallInv' /\ WriteInv'
  BY <1>1, ThenSeqFacts
<1>4. StateOf(req) \in States
  BY DEF Requests, StateOf, States
<1>5. ImageTypeOK'
  <2>1. state' \in States /\ asked' \in 0 .. 2
    BY <1>1, <1>2, <1>4, TypeFacts DEF States
  <2>3. unranked' \in BOOLEAN
    BY <1>1
  <2>2. faults' \in 0 .. MaxFaults
    BY <1>1, <1>2, TypeFacts, ImageUpdateAssumption
  <2> QED BY <1>1, <1>2, <1>3, <2>1, <2>2, <2>3, TypeFacts, TypeNext
<1>6. SeqDistinct' /\ AloneInv' /\ \A k \in Partitions : Bootable(k)' <=> Bootable(k)
  BY <1>1, <1>2, SameTags
<1>7. BootableAlways'
  BY <1>1, <1>2, <1>6 DEF BootableAlways
<1>8. BootInv'
  BY <1>1, <1>2, KeepsBootInv DEF Idle
<1>9. AskedInv'
  BY <1>1 DEF AskedInv
<1> QED
  BY <1>3, <1>5, <1>6, <1>7, <1>8, <1>9 DEF IInv

LEMMA ScratchPadClearAllInv == IInv /\ ScratchPadClearAll => IInv'
<1> SUFFICES ASSUME IInv, ScratchPadClearAll PROVE IInv'
  OBVIOUS
<1>1. /\ call = Idle /\ running # 0 /\ state' = "none" /\ asked' = 0
      /\ unranked' = FALSE
      /\ UNCHANGED <<part, running, imgid, bootedPartition, call, moved, risk, faults>>
  BY DEF ScratchPadClearAll, booted
<1>2. ImageTypeOK /\ SeqDistinct /\ AloneInv /\ BootableAlways /\ BootInv
  BY DEF IInv
<1>3. ImageTypeOK'
  <2>1. state' \in States /\ asked' \in 0 .. 2
    BY <1>1 DEF States
  <2>2. unranked' \in BOOLEAN
    BY <1>1
  <2> QED BY <1>1, <1>2, <2>1, <2>2, TypeFacts, TypeNext
<1>4. SeqDistinct' /\ AloneInv' /\ BootableAlways' /\ BootInv'
  BY <1>1, <1>2, SameTags, KeepsBootInv DEF BootableAlways, Idle
<1>5. CallInv' /\ WriteInv' /\ AskedInv'
  BY <1>1 DEF CallInv, WriteInv, AskedInv, Idle
<1> QED
  BY <1>3, <1>4, <1>5 DEF IInv

\* Before a tag is written, the loader's word and the tags give the partition.
LEMMA BootedFacts ==
  ASSUME IInv, call = Idle, running # 0
  PROVE  BootedPartition \in 1 .. 2 /\ (~moved => BootedPartition = running)
<1>1. ImageTypeOK /\ SeqDistinct /\ BootInv
  BY DEF IInv
<1>2. imgid \in Imgids /\ running \in Partitions
  BY <1>1, TypeFacts, Two
<1>3. BootedPartition \in 1 .. 2
  BY <1>2 DEF BootedPartition, Imgids
<1>4. ASSUME ~moved
      PROVE  BootedPartition = running
  <2>1. /\ CurPartition = running /\ Bootable(running)
        /\ imgid \in {"new", "old"} => Valid(1) /\ Valid(2)
        /\ imgid = "only" => ~Valid(Other(running))
    BY <1>1, <1>4 DEF BootInv, Idle
  <2>2. CASE imgid = "only"
    BY <1>2, <2>1, <2>2, Two DEF BootedPartition, Bootable
  <2>3. CASE imgid \in {"new", "old"}
    BY <2>1, <2>3 DEF BootedPartition, CurPartition, Highest, Lowest
  <2> QED BY <1>2, <2>2, <2>3 DEF Imgids
<1> QED
  BY <1>3, <1>4

LEMMA GetBootedValueInv == IInv /\ GetBootedValue => IInv'
<1> SUFFICES ASSUME IInv, GetBootedValue PROVE IInv'
  OBVIOUS
<1>1. /\ call = Idle /\ running # 0 /\ bootedPartition' = BootedPartition
      /\ UNCHANGED <<part, state, running, imgid, call, moved, risk, asked, unranked, faults>>
  BY DEF GetBootedValue, granted
<1>2. ImageTypeOK /\ SeqDistinct /\ AloneInv /\ BootableAlways /\ BootInv /\ AskedInv
  BY DEF IInv
<1>3. ImageTypeOK'
  <2>1. bootedPartition' \in 0 .. 2
    BY <1>1, BootedFacts
  <2> QED BY <1>1, <1>2, <2>1, TypeFacts, TypeNext
<1>4. SeqDistinct' /\ AloneInv' /\ BootableAlways' /\ BootInv'
  BY <1>1, <1>2, SameTags, KeepsBootInv DEF BootableAlways, Idle
<1>5. Selected' = Selected
  BY <1>1 DEF Selected, Valid, Seq, Highest, Lowest
<1>6. AskedInv'
  BY <1>1, <1>2, <1>5 DEF AskedInv
<1>7. CallInv' /\ WriteInv'
  BY <1>1 DEF CallInv, WriteInv, Idle
<1> QED
  BY <1>3, <1>4, <1>6, <1>7 DEF IInv

LEMMA StutterInv == IInv /\ UNCHANGED vars => IInv'
<1> SUFFICES ASSUME IInv, UNCHANGED vars PROVE IInv'
  OBVIOUS
<1>1. UNCHANGED <<part, state, running, imgid, bootedPartition, call, moved, risk, asked, unranked,
                   faults>>
  BY DEF vars
<1>2. /\ ImageTypeOK /\ SeqDistinct /\ AloneInv /\ BootableAlways /\ BootInv /\ AskedInv
      /\ CallInv /\ WriteInv
  BY DEF IInv
<1>3. ImageTypeOK' /\ SeqDistinct' /\ AloneInv' /\ BootableAlways'
  BY <1>1, <1>2, TypeFacts, TypeNext, SameTags DEF BootableAlways
<1>4. CallInv' /\ WriteInv' /\ NextSeq' = NextSeq
  BY <1>1, <1>2, SameTags DEF CallInv, WriteInv, Valid, Bootable, Other, Reaches
<1>5. Selected' = Selected
  BY <1>1 DEF Selected, Valid, Seq, Highest, Lowest
<1>6. AskedInv'
  BY <1>1, <1>2, <1>5 DEF AskedInv
<1>7. BootInv'
  <2>1. CASE call.at \in {"idle", "seq"}
    BY <1>1, <1>2, <2>1, KeepsBootInv
  <2>2. CASE call.at \notin {"idle", "seq"}
    BY <1>1, <2>2 DEF BootInv
  <2> QED BY <2>1, <2>2
<1> QED
  BY <1>3, <1>4, <1>6, <1>7 DEF IInv

LEMMA NextInv == IInv /\ [Next]_vars => IInv'
<1> SUFFICES ASSUME IInv, [Next]_vars PROVE IInv'
  OBVIOUS
<1>1. CASE Restart
  BY <1>1, RestartInv
<1>2. CASE Recover
  BY <1>2, RecoverInv
<1>3. CASE \E request \in {0} \cup Partitions, size \in Sizes, noReboot \in BOOLEAN :
             Flash(request, size, noReboot)
  BY <1>3, FlashInv
<1>4. CASE Overrun
  BY <1>4, OverrunInv
<1>5. CASE Written
  BY <1>5, WrittenInv
<1>6. CASE WriteFails
  BY <1>6, WriteFailsInv
<1>7. CASE \E req \in Requests, curr \in {state, "none"} : SetBootImageState(req, curr)
  BY <1>7, SetBootImageStateInv
<1>14. CASE \E req \in Requests : SetBootImageStateFails(req)
  BY <1>14, SetBootImageStateFailsInv
<1>8. CASE UpdateSeq
  BY <1>8, UpdateSeqInv
<1>9. CASE UpdateSeqFails
  BY <1>9, UpdateSeqFailsInv
<1>10. CASE ScratchPadClearAll
  BY <1>10, ScratchPadClearAllInv
<1>11. CASE GetBootedValue
  BY <1>11, GetBootedValueInv
<1>12. CASE PowerCut
  BY <1>12, PowerCutInv
<1>13. CASE UNCHANGED vars
  BY <1>13, StutterInv
<1> QED
  BY <1>1, <1>2, <1>3, <1>4, <1>5, <1>6, <1>7, <1>8, <1>9, <1>10, <1>11, <1>12, <1>13, <1>14
  DEF Next

LEMMA Invariance == Spec => []IInv
<1>1. Init => IInv
  BY InitInv
<1>2. IInv /\ [Next]_vars => IInv'
  BY NextInv
<1> QED
  BY <1>1, <1>2, PTL DEF Spec

-----------------------------------------------------------------------------
(* The results.                                                            *)

\* The tags, the boot state and the call are what flashFsKernelImage and
\* kerSysSetBootImageState can make of them.
THEOREM UpdatesTyped == Spec => []ImageTypeOK
<1>1. IInv => ImageTypeOK
  BY DEF IInv
<1> QED
  BY <1>1, Invariance, PTL

\* Two images never have the same sequence number (UpdateImageSequenceNumber).
THEOREM OneIsNewer == Spec => []SeqDistinct
<1>1. IInv => SeqDistinct
  BY DEF IInv
<1> QED
  BY <1>1, Invariance, PTL

\* Wherever the power goes or a write fails, one image can be booted: unless an
\* update finds no room for two, asks for the partition that runs or is Misled, or
\* the renumbering of the only whole image fails (flashFsKernelImage,
\* kerSysSetBootImageState).
THEOREM AlwaysBootable == Spec => []BootableAlways
<1>1. IInv => BootableAlways
  BY DEF IInv
<1> QED
  BY <1>1, Invariance, PTL

\* What kerSysGetBootImageState says is what the boot loader selects, unless the old
\* image is asked for.
LEMMA SelectionTold ==
  ASSUME ImageTypeOK, SeqDistinct, state \in {"new", "new_once"}
  PROVE  GetBootImageState = Selected
<1>1. /\ Seq(1) \in Int /\ (Valid(1) <=> Seq(1) >= 1) /\ (~Valid(1) => Seq(1) = -1)
      /\ Seq(2) \in Int /\ (Valid(2) <=> Seq(2) >= 1) /\ (~Valid(2) => Seq(2) = -1)
  BY PartFacts, Two
<1>2. CASE Valid(1) /\ Valid(2)
  BY <1>1, <1>2 DEF SeqDistinct, GetBootImageState, Selected, Highest
<1>3. CASE ~Valid(1)
  BY <1>3 DEF GetBootImageState, Selected
<1>4. CASE Valid(1) /\ ~Valid(2)
  BY <1>1, <1>4 DEF GetBootImageState, Selected
<1> QED
  BY <1>2, <1>3, <1>4

\* After a request that was granted, the query says what the next start takes, and
\* that is the partition granted if its number could be written.
THEOREM GrantedIsTaken == Spec => []RequestHonoured
<1>1. IInv => RequestHonoured
  <2> SUFFICES ASSUME IInv, call = Idle, asked # 0
               PROVE  GetBootImageState = Selected /\ (unranked \/ Selected = asked)
    BY DEF RequestHonoured
  <2>1. state \in {"new", "new_once"} /\ (unranked \/ Selected = asked)
    BY DEF IInv, AskedInv, Idle
  <2>2. GetBootImageState = Selected
    BY <2>1, SelectionTold DEF IInv
  <2> QED BY <2>1, <2>2
<1> QED
  BY <1>1, Invariance, PTL

\* getBootedValue tells the partition that runs, as long as no tag was written.
THEOREM BootedTold == Spec => BootedRight
<1>1. IInv /\ [Next]_vars =>
        [bootedPartition' \notin {bootedPartition, 0} /\ ~moved => bootedPartition' = running]_vars
  <2> SUFFICES ASSUME IInv, [Next]_vars, bootedPartition' \notin {bootedPartition, 0}, ~moved
               PROVE  bootedPartition' = running
    OBVIOUS
  <2>1. GetBootedValue
    BY DEF Next, vars, booted, Restart, Recover, Flash, Overrun, Written, WriteFails,
           SetBootImageState, SetBootImageStateFails, UpdateSeq, UpdateSeqFails, ScratchPadClearAll, PowerCut
  <2>2. bootedPartition' = BootedPartition /\ call = Idle /\ running # 0
    BY <2>1 DEF GetBootedValue
  <2> QED BY <2>2, BootedFacts
<1> QED
  BY <1>1, Invariance, PTL DEF Spec, BootedRight
=============================================================================
