------------------------ MODULE PictureUpload_proofs ------------------------
(***************************************************************************)
(* What goes out of a picture, for every length of a picture.              *)
(*                                                                         *)
(* The argument: a part is on offer only while the camera's thread waits   *)
(* for it (OfferedInWait).  As long as nothing was given up or lost, the   *)
(* sender is at rest whenever the camera's thread is not waiting, and what *)
(* went out is a function of the part and of where both threads are        *)
(* (InStep).                                                               *)
(***************************************************************************)
EXTENDS PictureUpload, TLAPS

-----------------------------------------------------------------------------
(* What has gone out after p parts. *)
Sent(p) == IF p = 0 THEN <<>> ELSE <<Header>> \o [i \in 1 .. p |-> i - 1]

OfferedInWait == sendFlag => cam = "wait"

ShootsUnsaid == cam = "shoot" => headFlag /\ ~toTcp

Reading ==
    cam \in {"read", "fill"} =>
        /\ tcpc = "top" /\ ~lastFlag
        /\ headFlag <=> part = 0
        /\ part = full => rest
        /\ got = Sent(part)

Sending ==
    cam = "wait" /\ sendFlag =>
        /\ buf = part
        /\ lastFlag <=> part = full
        /\ part = full => rest
        /\ tcpc = "top" => got = Sent(part) /\ (headFlag <=> part = 0)
        /\ tcpc # "top" => ~headFlag
        /\ tcpc = "head" => part = 0 /\ got = <<>>
        /\ tcpc = "frame" => got = IF part = 0 THEN <<Header>> ELSE Sent(part)
        /\ tcpc = "last" => got = Sent(part)
        /\ tcpc \in {"head", "frame", "frameOut"} => ~lastFlag
        /\ tcpc \in {"last", "lastOut"} => lastFlag
        /\ tcpc \in {"frameOut", "lastOut"} => got = Sent(part + 1)

Taking ==
    cam = "next" \/ (cam = "wait" /\ ~sendFlag) =>
        /\ tcpc = "top" /\ ~lastFlag /\ ~headFlag
        /\ part = full => rest /\ ~toTcp
        /\ got = Sent(part + 1)

Done == cam = "clear" => tcpc = "top" /\ got = Whole /\ (rest => ~toTcp)

Quiet == cam \in {"idle", "settle", "failed"} /\ rest => ~toTcp

InStep == clean => Reading /\ Sending /\ Taking /\ Done /\ Quiet

IInv == TypeOK /\ OfferedInWait /\ ShootsUnsaid /\ InStep

-----------------------------------------------------------------------------
(* The sequence that goes out. *)

LEMMA SentFirst == Append(<<Header>>, 0) = Sent(1)
BY DEF Sent

LEMMA SentMore ==
    ASSUME NEW p \in Nat \ {0}
    PROVE  Append(Sent(p), p) = Sent(p + 1)
BY DEF Sent

LEMMA SentAll ==
    ASSUME TypeOK
    PROVE  Whole = Sent(IF rest THEN full + 1 ELSE full)
BY MaxFullAssumption DEF Whole, Sent, TypeOK

-----------------------------------------------------------------------------
(* Every step. *)

LEMMA InitHolds == Init => IInv
<1> SUFFICES ASSUME Init PROVE IInv
  OBVIOUS
<1>1. buf \in Parts /\ full \in 1 .. MaxFull /\ part \in 0 .. full /\ errCnt \in 0 .. ErrLimit
  BY MaxFullAssumption, ErrLimitAssumption DEF Init, Parts, Old, Header
<1>2. got \in Seq(Parts)
  BY DEF Init
<1>3. TypeOK
  BY <1>1, <1>2 DEF Init, TypeOK
<1>4. OfferedInWait /\ ShootsUnsaid /\ InStep
  BY DEF Init, OfferedInWait, ShootsUnsaid, InStep
<1> QED
  BY <1>3, <1>4 DEF IInv

LEMMA TypeStep == TypeOK /\ [Next]_vars => TypeOK'
<1> SUFFICES ASSUME TypeOK, [Next]_vars PROVE TypeOK'
  OBVIOUS
<1> USE MaxFullAssumption, ErrLimitAssumption DEF TypeOK
<1>0. /\ Old \in Parts /\ Mixed \in Parts /\ Header \in Parts
      /\ part \in Parts /\ part \in Nat /\ full \in Nat
  BY DEF Parts, Old, Mixed, Header
<1>1. CASE Notice \/ Skip \/ Begin \/ ShootFails \/ Heard
  BY <1>1 DEF Notice, Skip, Begin, ShootFails, Heard, Others, world, flags
<1>2. CASE FillFails \/ GiveUp
  BY <1>2 DEF FillFails, GiveUp, Others, world
<1>3. CASE Shoot
  <2>1. full' \in 1 .. MaxFull /\ part' \in 0 .. full' /\ buf' \in Parts /\ got' \in Seq(Parts)
    BY <1>0, <1>3 DEF Shoot
  <2> QED
    BY <1>3, <2>1 DEF Shoot, Others, world, flags
<1>4. CASE Empty
  BY <1>0, <1>4 DEF Empty, Others, world, flags
<1>5. CASE Offer
  BY <1>0, <1>5 DEF Offer, Others, world
<1>6. CASE Drop
  BY <1>0, <1>6 DEF Drop, Others, world, flags
<1>7. CASE NextPart \/ AllRead
  BY <1>0, <1>7 DEF NextPart, AllRead, Others, world, flags
<1>8. CASE Cleared \/ ClearFails
  <2>1. CASE ClearFails
    BY <2>1 DEF ClearFails, Others, world, flags
  <2>2. CASE Cleared
    <3>1. errCnt' \in 0 .. ErrLimit
      BY <2>2 DEF Cleared
    <3> QED
      BY <2>2, <3>1 DEF Cleared, Others, world
  <2> QED
    BY <1>8, <2>1, <2>2
<1>9. OneMore \in 0 .. ErrLimit
  BY DEF OneMore
<1>10. CASE Failed
  BY <1>9, <1>10 DEF Failed, Others, world
<1>11. CASE Retry
  <2>1. errCnt' \in 0 .. ErrLimit /\ errFlag' \in BOOLEAN /\ ready' \in BOOLEAN
    BY <1>9, <1>11 DEF Retry
  <2> QED
    BY <1>11, <2>1 DEF Retry, Others, world
<1>12. CASE TakeLast \/ TakeHead \/ TakeFrame \/ FrameSent \/ LastSent \/ SendFails
  BY <1>12 DEF TakeLast, TakeHead, TakeFrame, FrameSent, LastSent, SendFails, camera, world, flags
<1>13. CASE HeadOut \/ Copy
  BY <1>0, <1>13 DEF HeadOut, Copy, camera, world, flags
<1>14. CASE DoorMoves \/ LinkMoves \/ ConnectionMoves \/ UNCHANGED vars
  BY <1>14 DEF DoorMoves, LinkMoves, ConnectionMoves, vars, camera, world, flags
<1> QED
  BY <1>1, <1>2, <1>3, <1>4, <1>5, <1>6, <1>7, <1>8, <1>10, <1>11, <1>12, <1>13, <1>14
     DEF Next, CameraThread, TcpcThread

(* Theorem: every variable of the upload keeps its type, for pictures of    *)
(* any length.                                                             *)
THEOREM TypeOKHolds == Spec => []TypeOK
<1>1. Init => TypeOK
  BY InitHolds DEF IInv
<1> QED
  BY <1>1, TypeStep, PTL DEF Spec

LEMMA OfferStep ==
    ASSUME IInv, [Next]_vars
    PROVE  OfferedInWait' /\ ShootsUnsaid'
<1> USE DEF IInv, TypeOK, OfferedInWait, ShootsUnsaid
<1>1. CASE CameraThread
  BY <1>1 DEF CameraThread, Notice, Skip, Begin, Shoot, ShootFails, Empty, Offer, Drop, FillFails,
              Heard, GiveUp, NextPart, AllRead, Cleared, ClearFails, Failed, Retry,
              Others, world, flags
<1>2. CASE TcpcThread
  BY <1>2 DEF TcpcThread, TakeLast, TakeHead, TakeFrame, Taken, HeadOut, Copy, FrameSent,
              LastSent, SendFails, camera, world, flags
<1>3. CASE DoorMoves \/ LinkMoves \/ ConnectionMoves \/ UNCHANGED vars
  BY <1>3 DEF DoorMoves, LinkMoves, ConnectionMoves, vars, camera, world, flags
<1> QED
  BY <1>1, <1>2, <1>3 DEF Next

(* The steps of the camera's thread. *)
LEMMA CameraStep ==
    ASSUME IInv, CameraThread, clean'
    PROVE  Reading' /\ Sending' /\ Taking' /\ Done' /\ Quiet'
<1>0. TypeOK /\ OfferedInWait /\ ShootsUnsaid /\ InStep /\ part \in Nat /\ full \in Nat \ {0}
  BY DEF IInv, TypeOK
<1> DEFINE Goal == Reading' /\ Sending' /\ Taking' /\ Done' /\ Quiet'
<1> USE DEF Reading, Sending, Taking, Done, Quiet, Others, world, flags
<1>1. CASE Shoot
  <2>1. full' # 0
    BY <1>1, MaxFullAssumption DEF Shoot
  <2>2. cam = "shoot" /\ cam' = "read" /\ part' = 0 /\ got' = <<>>
        /\ tcpc = "top" /\ ~lastFlag
        /\ tcpc' = tcpc /\ lastFlag' = lastFlag /\ headFlag' = headFlag
    BY <1>1, Zenon DEF Shoot
  <2>3. headFlag
    BY <1>0, <2>2 DEF ShootsUnsaid
  <2> QED
    BY <2>1, <2>2, <2>3 DEF Sent
<1>2. CASE Drop \/ GiveUp
  BY <1>2 DEF Drop, GiveUp
<1>3. ASSUME clean, Notice \/ Skip \/ Begin
      PROVE  Goal
  BY <1>0, <1>3 DEF Notice, Skip, Begin, InStep
<1>4. ASSUME clean, ShootFails
      PROVE  Goal
  BY <1>0, <1>4 DEF ShootFails, ShootsUnsaid
<1>5. ASSUME clean, Empty
      PROVE  Goal
  BY <1>0, <1>5 DEF Empty, InStep
<1>6. ASSUME clean, Offer
      PROVE  Goal
  BY <1>0, <1>6 DEF Offer, InStep
<1>7. ASSUME clean, FillFails
      PROVE  Goal
  BY <1>0, <1>7 DEF FillFails
<1>8. ASSUME clean, Heard
      PROVE  Goal
  BY <1>0, <1>8 DEF Heard, InStep
<1>9. ASSUME clean, NextPart
      PROVE  Goal
  <2>1. /\ cam = "next" /\ part < full /\ part' = part + 1
        /\ cam' = IF part + 1 < full \/ rest THEN "read" ELSE "clear"
    BY <1>9 DEF NextPart
  <2>2. /\ full' = full /\ rest' = rest /\ got' = got /\ tcpc' = tcpc
        /\ lastFlag' = lastFlag /\ headFlag' = headFlag /\ toTcp' = toTcp
    BY <1>9 DEF NextPart
  <2>3. tcpc = "top" /\ ~lastFlag /\ ~headFlag /\ got = Sent(part + 1)
    BY <1>0, <1>9, <2>1 DEF InStep
  <2>4. part' # 0 /\ got' = Sent(part') /\ (~(part + 1 < full) => part + 1 = full)
    BY <1>0, <2>1, <2>2, <2>3
  <2>5. CASE part + 1 < full
    <3>1. cam' = "read" /\ part' # full'
      BY <1>0, <2>1, <2>2, <2>5
    <3> QED
      BY <2>2, <2>3, <2>4, <3>1
  <2>6. CASE rest
    <3>1. cam' = "read"
      BY <2>1, <2>6
    <3> QED
      BY <2>2, <2>3, <2>4, <2>6, <3>1
  <2>7. CASE ~(part + 1 < full) /\ ~rest
    <3>1. cam' = "clear" /\ got' = Sent(full)
      BY <2>1, <2>4, <2>7
    <3>2. Whole = Sent(full)
      BY <1>0, <2>7, SentAll
    <3>3. Whole' = Whole
      BY <2>2 DEF Whole
    <3> QED
      BY <2>2, <2>3, <2>7, <3>1, <3>2, <3>3
  <2> QED
    BY <2>5, <2>6, <2>7
<1>10. ASSUME clean, AllRead
       PROVE  Goal
  <2>1. cam = "next" /\ part = full /\ cam' = "clear"
        /\ full' = full /\ rest' = rest /\ got' = got /\ toTcp' = toTcp /\ tcpc' = tcpc
    BY <1>10 DEF AllRead
  <2>2. rest /\ ~toTcp /\ tcpc = "top" /\ got = Sent(full + 1)
    BY <1>0, <1>10, <2>1 DEF InStep
  <2>3. Whole = Sent(full + 1)
    BY <1>0, <2>2, SentAll
  <2>4. Whole' = Whole
    BY <2>1 DEF Whole
  <2> QED
    BY <2>1, <2>2, <2>3, <2>4
<1>11. ASSUME clean, Cleared \/ ClearFails
       PROVE  Goal
  BY <1>0, <1>11 DEF Cleared, ClearFails, InStep
<1>12. ASSUME clean, Failed \/ Retry
       PROVE  Goal
  BY <1>0, <1>12 DEF Failed, Retry, InStep
<1>13. Shoot \/ Drop \/ GiveUp \/ clean
  BY DEF CameraThread, Notice, Skip, Begin, ShootFails, Empty, Offer, FillFails,
         Heard, NextPart, AllRead, Cleared, ClearFails, Failed, Retry
<1> HIDE DEF Reading, Sending, Taking, Done, Quiet, Others, world, flags
<1> QED
  BY <1>1, <1>2, <1>3, <1>4, <1>5, <1>6, <1>7, <1>8, <1>9, <1>10, <1>11, <1>12, <1>13
     DEF CameraThread

(* The steps of the sender, the door, the link and the connection. *)
LEMMA SenderStep ==
    ASSUME IInv, clean',
           TcpcThread \/ DoorMoves \/ LinkMoves \/ ConnectionMoves \/ UNCHANGED vars
    PROVE  Reading' /\ Sending' /\ Taking' /\ Done' /\ Quiet'
<1>0. TypeOK /\ OfferedInWait /\ InStep /\ part \in Nat /\ full \in Nat \ {0}
  BY DEF IInv, TypeOK
<1> DEFINE Goal == Reading' /\ Sending' /\ Taking' /\ Done' /\ Quiet'
<1>1. ~SendFails /\ ~ConnectionMoves
  BY DEF SendFails, ConnectionMoves
<1>2. clean
  BY <1>1 DEF TcpcThread, TakeLast, TakeHead, TakeFrame, HeadOut, Copy, FrameSent, LastSent,
              DoorMoves, LinkMoves, vars
<1>3. Reading /\ Sending /\ Taking /\ Done /\ Quiet
  BY <1>0, <1>2 DEF InStep
<1>4. CASE DoorMoves \/ LinkMoves \/ UNCHANGED vars
  <2>1. UNCHANGED <<cam, full, rest, part, buf, sendFlag, lastFlag, headFlag, toTcp, tcpc, got>>
    BY <1>4 DEF DoorMoves, LinkMoves, vars, camera, flags, world
  <2> QED
    BY <1>3, <2>1 DEF Reading, Sending, Taking, Done, Quiet, Whole
<1>5. ASSUME UNCHANGED camera, sendFlag, cam = "wait", sendFlag'
      PROVE  Sending' => Goal
  <2>1. cam' = cam
    BY <1>5 DEF camera
  <2> QED
    BY <1>5, <2>1 DEF Reading, Taking, Done, Quiet
<1>6. CASE TakeLast \/ TakeHead \/ TakeFrame
  <2>1. /\ sendFlag /\ tcpc = "top" /\ UNCHANGED camera
        /\ sendFlag' = sendFlag /\ lastFlag' = lastFlag
        /\ \/ tcpc' = "last" /\ lastFlag /\ headFlag' = headFlag
           \/ tcpc' = "head" /\ ~lastFlag /\ headFlag /\ ~headFlag'
           \/ tcpc' = "frame" /\ ~lastFlag /\ ~headFlag /\ headFlag' = headFlag
    BY <1>6 DEF TakeLast, TakeHead, TakeFrame, Taken, flags
  <2>2. cam = "wait"
    BY <1>0, <2>1 DEF OfferedInWait
  <2>3. /\ buf = part /\ (lastFlag <=> part = full) /\ (part = full => rest)
        /\ got = Sent(part) /\ (headFlag <=> part = 0)
    BY <1>3, <2>1, <2>2 DEF Sending
  <2>4. part' = part /\ full' = full /\ rest' = rest /\ buf' = buf /\ cam' = cam
    BY <2>1 DEF camera
  <2>5. got' = got
    BY <1>6 DEF TakeLast, TakeHead, TakeFrame
  <2>6. Sent(0) = <<>>
    BY DEF Sent
  <2>7. lastFlag => ~headFlag
    BY <1>0, <2>3
  <2>8. Sending'
    BY <2>1, <2>3, <2>4, <2>5, <2>6, <2>7 DEF Sending
  <2> QED
    BY <1>5, <2>1, <2>2, <2>8
<1>7. CASE HeadOut \/ Copy
  <2>1. UNCHANGED <<camera, flags>> /\ tcpc # "top"
    BY <1>7 DEF HeadOut, Copy
  <2>2. /\ part' = part /\ full' = full /\ rest' = rest /\ buf' = buf /\ cam' = cam
        /\ sendFlag' = sendFlag /\ lastFlag' = lastFlag /\ headFlag' = headFlag
        /\ toTcp' = toTcp
    BY <2>1 DEF camera, flags
  <2>3. CASE cam = "wait" /\ sendFlag
    <3>1. CASE HeadOut
      <4>1. tcpc = "head" /\ tcpc' = "frame" /\ got' = Append(got, Header)
        BY <3>1 DEF HeadOut
      <4>2. part = 0 /\ got' = <<Header>> /\ ~lastFlag /\ ~headFlag
        BY <1>3, <2>3, <4>1 DEF Sending
      <4>3. Sending'
        BY <1>3, <2>2, <2>3, <4>1, <4>2 DEF Sending
      <4> QED
        BY <1>5, <2>1, <2>2, <2>3, <4>3
    <3>2. CASE Copy
      <4>1. /\ tcpc \in {"frame", "last"} /\ got' = Append(got, buf)
            /\ tcpc' = IF tcpc = "frame" THEN "frameOut" ELSE "lastOut"
        BY <3>2 DEF Copy
      <4>2. /\ buf = part /\ (lastFlag <=> part = full) /\ ~headFlag
            /\ tcpc = "frame" => got = (IF part = 0 THEN <<Header>> ELSE Sent(part)) /\ ~lastFlag
            /\ tcpc = "last" => got = Sent(part) /\ lastFlag
        BY <1>3, <2>1, <2>3, <4>1 DEF Sending
      <4>3. part = 0 => ~lastFlag
        BY <1>0, <4>2
      <4>4. got' = Sent(part + 1)
        <5>1. CASE part = 0
          BY <4>1, <4>2, <4>3, <5>1, SentFirst
        <5>2. CASE part # 0
          BY <1>0, <4>1, <4>2, <5>2, SentMore
        <5> QED
          BY <5>1, <5>2
      <4>5. Sending'
        BY <1>3, <2>2, <2>3, <4>1, <4>2, <4>4 DEF Sending
      <4> QED
        BY <1>5, <2>1, <2>2, <2>3, <4>5
    <3> QED
      BY <1>7, <3>1, <3>2
  <2>4. CASE ~(cam = "wait" /\ sendFlag)
    <3>1. cam \notin {"read", "fill", "wait", "next", "clear"}
      BY <1>0, <1>3, <2>1, <2>4 DEF Reading, Taking, Done, TypeOK
    <3> QED
      BY <1>3, <2>2, <3>1 DEF Reading, Sending, Taking, Done, Quiet
  <2> QED
    BY <2>3, <2>4
<1>8. CASE FrameSent \/ LastSent
  <2>1. /\ UNCHANGED camera /\ got' = got /\ headFlag' = headFlag
        /\ ~sendFlag' /\ tcpc' = "top"
        /\ \/ tcpc = "frameOut" /\ lastFlag' = lastFlag /\ toTcp' = toTcp
           \/ tcpc = "lastOut" /\ ~lastFlag' /\ ~toTcp'
    BY <1>8 DEF FrameSent, LastSent
  <2>2. /\ part' = part /\ full' = full /\ rest' = rest /\ buf' = buf /\ cam' = cam
    BY <2>1 DEF camera
  <2>3. CASE cam = "wait" /\ sendFlag
    <3>1. /\ (lastFlag <=> part = full) /\ (part = full => rest) /\ ~headFlag
          /\ got = Sent(part + 1)
          /\ tcpc = "frameOut" => ~lastFlag
      BY <1>3, <2>1, <2>3 DEF Sending
    <3> QED
      BY <2>1, <2>2, <2>3, <3>1 DEF Reading, Sending, Taking, Done, Quiet
  <2>4. CASE ~(cam = "wait" /\ sendFlag)
    <3>1. cam \notin {"read", "fill", "wait", "next", "clear"}
      BY <1>0, <1>3, <2>1, <2>4 DEF Reading, Taking, Done, TypeOK
    <3> QED
      BY <1>3, <2>1, <2>2, <3>1 DEF Reading, Sending, Taking, Done, Quiet
  <2> QED
    BY <2>3, <2>4
<1> QED
  BY <1>1, <1>4, <1>6, <1>7, <1>8 DEF TcpcThread

LEMMA InvHolds == Spec => []IInv
<1>1. IInv /\ [Next]_vars => IInv'
  <2> SUFFICES ASSUME IInv, [Next]_vars PROVE IInv'
    OBVIOUS
  <2>1. TypeOK'
    BY TypeStep DEF IInv
  <2>2. InStep'
    <3> SUFFICES ASSUME clean' PROVE Reading' /\ Sending' /\ Taking' /\ Done' /\ Quiet'
      BY DEF InStep
    <3> QED
      BY CameraStep, SenderStep DEF Next
  <2> QED
    BY <2>1, <2>2, OfferStep DEF IInv
<1> QED
  BY <1>1, InitHolds, PTL DEF Spec

(* Theorem: an undisturbed picture of any length goes out whole             *)
(* (CleanArrivesWhole).                                                    *)
THEOREM CleanArrivesWholeHolds == Spec => []CleanArrivesWhole
<1>1. IInv => CleanArrivesWhole
  BY DEF IInv, InStep, Done, CleanArrivesWhole
<1> QED
  BY <1>1, InvHolds, PTL

(* Theorem: only a disturbed picture, or one without a last part, leaves    *)
(* the flag that silences MQTT behind (SilentOnlyUnheard).                 *)
THEOREM SilentOnlyUnheardHolds == Spec => []SilentOnlyUnheard
<1>1. IInv => SilentOnlyUnheard
  BY DEF IInv, InStep, Quiet, SilentOnlyUnheard
<1> QED
  BY <1>1, InvHolds, PTL
=============================================================================
