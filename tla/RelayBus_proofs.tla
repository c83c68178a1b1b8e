-------------------------- MODULE RelayBus_proofs --------------------------
(***************************************************************************)
(* Proofs about RelayBus for every list of boards, every set of relay      *)
(* words, any number of commands and faults: its types, the absence of     *)
(* cross-talk between boards, and that it implements RelayService.         *)
(***************************************************************************)
EXTENDS RelayBus, TLAPS

\* Every reply on the line carries a word its sender may legitimately drive.
LineSound ==
  \A n \in 1 .. Len(line) : line[n].word \in commanded[line[n].addr]

\* A word about to be written was commanded for the board it goes to, even
\* if an interrupt replaced it after it was latched.
WriteSound == pc = "write" => known[i] \in commanded[SlaveAddr[i]]

\* The word wanted of a board is one of them.
WantedIsLegitimate == \A s \in Slots : desired[s] \in commanded[SlaveAddr[s]]

IInv == /\ TypeOK /\ NoCrossTalk /\ CursorsAgree
        /\ LineSound /\ WriteSound /\ WantedIsLegitimate

-----------------------------------------------------------------------------
\* What stands on the line after a step was there before it, or answers the
\* request just sent with a word the sender may drive.
LEMMA AppendSound ==
  ASSUME NEW l \in Seq(Replies), NEW r \in Replies,
         NEW C \in [Addrs -> SUBSET Words],
         \A n \in 1 .. Len(l) : l[n].word \in C[l[n].addr],
         r.word \in C[r.addr]
  PROVE  /\ Append(l, r) \in Seq(Replies)
         /\ \A n \in 1 .. Len(Append(l, r)) :
              Append(l, r)[n].word \in C[Append(l, r)[n].addr]
OBVIOUS

LEMMA TailSound ==
  ASSUME NEW l \in Seq(Replies), l # <<>>,
         NEW C \in [Addrs -> SUBSET Words],
         \A n \in 1 .. Len(l) : l[n].word \in C[l[n].addr]
  PROVE  /\ Tail(l) \in Seq(Replies) /\ Head(l) \in Replies
         /\ Head(l).word \in C[Head(l).addr]
         /\ \A n \in 1 .. Len(Tail(l)) : Tail(l)[n].word \in C[Tail(l)[n].addr]
<1>1. Head(l) = l[1] /\ 1 \in 1 .. Len(l)
  OBVIOUS
<1>2. \A n \in 1 .. Len(Tail(l)) : Tail(l)[n] = l[n + 1] /\ n + 1 \in 1 .. Len(l)
  OBVIOUS
<1>3. QED
  BY <1>1, <1>2

LEMMA InitIInv == Init => IInv
<1> SUFFICES ASSUME Init PROVE IInv
  OBVIOUS
<1> USE BusAssumption
<1>1. TypeOK
  <2>1. commanded \in [Addrs -> SUBSET Words]
    BY DEF Init, Addrs
  <2>2. QED
    BY <2>1 DEF Init, TypeOK, Places
<1>2. NoCrossTalk
  BY DEF Init, NoCrossTalk, Addrs
<1>3. CursorsAgree /\ LineSound /\ WriteSound
  BY DEF Init, CursorsAgree, LineSound, WriteSound
<1>5. WantedIsLegitimate
  BY DEF Init, WantedIsLegitimate, Addrs
<1>4. QED
  BY <1>1, <1>2, <1>3, <1>5 DEF IInv

LEMMA NextIInv == IInv /\ [Next]_vars => IInv'
<1> SUFFICES ASSUME IInv, [Next]_vars PROVE IInv'
  OBVIOUS
<1> USE BusAssumption
<1>0. /\ TypeOK /\ NoCrossTalk /\ CursorsAgree /\ LineSound /\ WriteSound
      /\ WantedIsLegitimate
      /\ \A s \in Slots : SlaveAddr[s] \in Addrs
  BY DEF IInv, Addrs
<1>1. CASE StartTurn
  BY <1>0, <1>1 DEF StartTurn, IInv, TypeOK, NoCrossTalk, CursorsAgree,
     LineSound, WriteSound, WantedIsLegitimate, Places, busVars, Slots
<1>2. CASE ReadBoard
  <2> DEFINE r == ReplyOf("read", i, actual[SlaveAddr[i]])
  <2>1. i \in Slots /\ r \in Replies /\ r.word \in commanded[r.addr]
    BY <1>0, <1>2 DEF ReadBoard, TypeOK, NoCrossTalk, Slots, ReplyOf, Replies
  <2>2. line' \in Seq(Replies) /\ LineSound'
    <3>0. /\ line \in Seq(Replies) /\ commanded \in [Addrs -> SUBSET Words]
          /\ commanded' = commanded
      BY <1>0, <1>2 DEF TypeOK, ReadBoard
    <3>1. /\ Append(line, r) \in Seq(Replies)
          /\ \A n \in 1 .. Len(Append(line, r)) :
               Append(line, r)[n].word \in commanded[Append(line, r)[n].addr]
      BY <3>0, <2>1, <1>0, AppendSound DEF LineSound
    <3>2. /\ Append(Append(line, r), r) \in Seq(Replies)
          /\ \A n \in 1 .. Len(Append(Append(line, r), r)) :
               Append(Append(line, r), r)[n].word
                 \in commanded[Append(Append(line, r), r)[n].addr]
      BY <3>0, <3>1, <2>1, AppendSound
    <3>3. \/ line' = Append(line, r)
          \/ line' = Append(Append(line, r), r)
          \/ line' = line
      BY <1>2 DEF ReadBoard
    <3>4. QED
      BY <3>0, <3>1, <3>2, <3>3, <1>0 DEF LineSound
  <2>3. TypeOK'
    BY <2>2, <1>0, <1>2 DEF ReadBoard, TypeOK, Places, Fault
  <2>4. (NoCrossTalk /\ CursorsAgree /\ WriteSound /\ WantedIsLegitimate)'
    BY <1>0, <1>2 DEF ReadBoard, NoCrossTalk, CursorsAgree, WriteSound,
       WantedIsLegitimate, TypeOK, Slots
  <2>5. QED
    BY <2>2, <2>3, <2>4 DEF IInv
<1>3. CASE ReadNext
  <2>1. TypeOK'
    BY <1>0, <1>3 DEF ReadNext, TypeOK, Places, Expire, Fault, busVars, CursorsAgree,
       Slots
  <2>2. QED
    BY <2>1, <1>0, <1>3 DEF ReadNext, IInv, TypeOK, NoCrossTalk, CursorsAgree,
       LineSound, WriteSound, WantedIsLegitimate, busVars
<1>4. CASE ReadDone
  BY <1>0, <1>4 DEF ReadDone, IInv, TypeOK, NoCrossTalk, CursorsAgree,
     LineSound, WriteSound, WantedIsLegitimate, Places, busVars
<1>5. CASE SkipBoard
  BY <1>0, <1>5 DEF SkipBoard, IInv, TypeOK, NoCrossTalk, CursorsAgree,
     LineSound, WriteSound, WantedIsLegitimate, busVars
<1>6. CASE LatchBoard
  <2>1. i \in PowerBoards /\ i \in Slots /\ desired[i] \in Words
    BY <1>0, <1>6 DEF LatchBoard, Differs, TypeOK
  <2>2. desired[i] \in commanded[SlaveAddr[i]]
    BY <2>1, <1>0 DEF WantedIsLegitimate
  <2>3. TypeOK'
    BY <2>1, <1>0, <1>6 DEF LatchBoard, TypeOK, Places, busVars, Slots
  <2>4. QED
    BY <2>1, <2>2, <2>3, <1>0, <1>6 DEF LatchBoard, IInv, TypeOK, NoCrossTalk,
       CursorsAgree, LineSound, WriteSound, WantedIsLegitimate, busVars
<1>7. CASE WriteBoard
  <2> DEFINE r == ReplyOf("write", i, known[i])
  <2>1. /\ i \in Slots /\ r \in Replies /\ r.word \in commanded[r.addr]
        /\ known[i] \in Words /\ known[i] \in commanded[SlaveAddr[i]]
        /\ r.addr = SlaveAddr[i]
    BY <1>0, <1>7 DEF WriteBoard, TypeOK, CursorsAgree, WriteSound, ReplyOf, Replies
  <2>2. /\ line \in Seq(Replies) /\ commanded \in [Addrs -> SUBSET Words]
        /\ commanded' = commanded
    BY <1>0, <1>7 DEF TypeOK, WriteBoard
  <2>3. line' \in Seq(Replies) /\ LineSound'
    <3>1. /\ Append(line, r) \in Seq(Replies)
          /\ \A n \in 1 .. Len(Append(line, r)) :
               Append(line, r)[n].word \in commanded[Append(line, r)[n].addr]
      BY <2>1, <2>2, <1>0, AppendSound DEF LineSound
    <3>2. line' = Append(line, r) \/ line' = line
      BY <1>7 DEF WriteBoard, busVars
    <3>3. QED
      BY <2>2, <3>1, <3>2, <1>0 DEF LineSound
  <2>4. \/ actual' = [actual EXCEPT ![SlaveAddr[i]] = known[i]]
        \/ actual' = actual
    BY <1>7 DEF WriteBoard, busVars
  <2>5. TypeOK'
    BY <2>1, <2>3, <2>4, <1>0, <1>7 DEF WriteBoard, TypeOK, Places, Fault
  <2>6. NoCrossTalk'
    BY <2>1, <2>2, <2>4, <1>0, <1>7 DEF WriteBoard, NoCrossTalk, TypeOK
  <2>7. (CursorsAgree /\ WriteSound /\ WantedIsLegitimate)'
    BY <1>0, <1>7 DEF WriteBoard, CursorsAgree, WriteSound, WantedIsLegitimate
  <2>8. QED
    BY <2>3, <2>5, <2>6, <2>7 DEF IInv
<1>8. CASE WriteNext
  <2>1. TypeOK'
    BY <1>0, <1>8 DEF WriteNext, TypeOK, Places, Expire, Fault, busVars,
       CursorsAgree, Slots
  <2>2. QED
    BY <2>1, <1>0, <1>8 DEF WriteNext, IInv, TypeOK, NoCrossTalk, CursorsAgree,
       LineSound, WriteSound, WantedIsLegitimate, busVars
<1>9. CASE EndTurn
  BY <1>0, <1>9 DEF EndTurn, IInv, TypeOK, NoCrossTalk, CursorsAgree,
     LineSound, WriteSound, WantedIsLegitimate, Places, busVars
<1>10. CASE Receive
  <2>1. /\ line' = Tail(line) /\ line # <<>> /\ commanded' = commanded
        /\ commanded \in [Addrs -> SUBSET Words] /\ line \in Seq(Replies)
    BY <1>0, <1>10 DEF Receive, TypeOK
  <2>2. /\ Tail(line) \in Seq(Replies) /\ Head(line) \in Replies
        /\ Head(line).word \in commanded[Head(line).addr]
        /\ \A n \in 1 .. Len(Tail(line)) :
             Tail(line)[n].word \in commanded[Tail(line)[n].addr]
    BY <2>1, <1>0, TailSound DEF LineSound
  <2>3. \A s \in Slots : s \in Credited(Head(line)) =>
          Head(line).word \in Words /\ Head(line).word \in commanded[SlaveAddr[s]]
    BY <2>2 DEF Credited, Replies
  <2>4. /\ known' \in [Slots -> Words]
        /\ \A s \in Slots : known'[s] =
             IF s \in Credited(Head(line)) THEN Head(line).word ELSE known[s]
    BY <2>3, <1>0, <1>10 DEF Receive, TypeOK
  <2>5. TypeOK'
    BY <2>1, <2>2, <2>4, <1>0, <1>10 DEF Receive, TypeOK, threadVars
  <2>6. LineSound'
    BY <2>1, <2>2 DEF LineSound
  <2>7. NoCrossTalk'
    BY <2>3, <2>4, <1>0, <1>10 DEF Receive, NoCrossTalk
  <2>8. WriteSound'
    BY <2>3, <2>4, <1>0, <1>10 DEF Receive, WriteSound, CursorsAgree, threadVars
  <2>9. (CursorsAgree /\ WantedIsLegitimate)'
    BY <1>0, <1>10 DEF Receive, CursorsAgree, WantedIsLegitimate, threadVars
  <2>10. QED
    BY <2>5, <2>6, <2>7, <2>8, <2>9 DEF IInv
<1>11. ASSUME NEW s \in Slots, NEW w \in Words, Command(s, w) PROVE IInv'
  <2>1. /\ SlaveAddr[s] \in Addrs /\ desired' = [desired EXCEPT ![s] = w]
        /\ commanded' = [commanded EXCEPT ![SlaveAddr[s]] = @ \cup {w}]
        /\ UNCHANGED <<known, readCnt, ctlCnt, timer, pc, i, line, actual, faults>>
    BY <1>0, <1>11 DEF Command, threadVars, busVars
  <2>2. TypeOK'
    BY <2>1, <1>0, <1>11 DEF Command, TypeOK
  <2>3. \A a \in Addrs : commanded[a] \subseteq commanded'[a]
    BY <2>1, <1>0 DEF TypeOK
  <2>4. NoCrossTalk'
    BY <2>1, <2>3, <1>0 DEF NoCrossTalk
  <2>5. LineSound'
    <3>0. \A n \in 1 .. Len(line) : line[n] \in Replies
      BY <1>0 DEF TypeOK
    <3>1. \A n \in 1 .. Len(line) : line[n].addr \in Addrs
      BY <3>0 DEF Replies
    <3>2. QED
      BY <3>1, <2>1, <2>3, <1>0 DEF LineSound
  <2>6. (CursorsAgree /\ WriteSound)'
    BY <2>1, <2>3, <1>0 DEF CursorsAgree, WriteSound
  <2>7. WantedIsLegitimate'
    BY <2>1, <2>3, <1>0 DEF WantedIsLegitimate, TypeOK
  <2>8. QED
    BY <2>2, <2>4, <2>5, <2>6, <2>7 DEF IInv
<1>12. ASSUME NEW a \in Addrs, RestartBoard(a) PROVE IInv'
  <2>1. /\ actual' = [actual EXCEPT ![a] = BootWord]
        /\ commanded' = [commanded EXCEPT ![a] = @ \cup {BootWord}]
        /\ UNCHANGED <<desired, known, readCnt, ctlCnt, timer, pc, i, line, commands>>
    BY <1>12 DEF RestartBoard, threadVars
  <2>2. TypeOK'
    BY <2>1, <1>0, <1>12 DEF RestartBoard, TypeOK, Fault
  <2>3. \A b \in Addrs : commanded[b] \subseteq commanded'[b]
    BY <2>1, <1>0 DEF TypeOK
  <2>4. NoCrossTalk'
    BY <2>1, <2>3, <1>0 DEF NoCrossTalk, TypeOK
  <2>5. LineSound'
    <3>0. \A n \in 1 .. Len(line) : line[n] \in Replies
      BY <1>0 DEF TypeOK
    <3>1. \A n \in 1 .. Len(line) : line[n].addr \in Addrs
      BY <3>0 DEF Replies
    <3>2. QED
      BY <3>1, <2>1, <2>3, <1>0 DEF LineSound
  <2>6. (CursorsAgree /\ WriteSound /\ WantedIsLegitimate)'
    BY <2>1, <2>3, <1>0 DEF CursorsAgree, WriteSound, WantedIsLegitimate
  <2>7. QED
    BY <2>2, <2>4, <2>5, <2>6 DEF IInv
<1>13. CASE UNCHANGED vars
  BY <1>0, <1>13 DEF vars, IInv, TypeOK, NoCrossTalk, CursorsAgree, LineSound,
     WriteSound, WantedIsLegitimate
<1>14. QED
  BY <1>1, <1>2, <1>3, <1>4, <1>5, <1>6, <1>7, <1>8, <1>9, <1>10, <1>11, <1>12,
     <1>13 DEF Next, Thread

-----------------------------------------------------------------------------
\* Types: no cursor leaves the list by more than one, no reply or word of an
\* unknown kind ever appears.
THEOREM TypeCorrect == Spec => []TypeOK
<1>1. IInv => TypeOK
  BY DEF IInv
<1>2. QED
  BY <1>1, InitIInv, NextIInv, PTL DEF Spec

\* No cross-talk, for any list: the interrupt's cursors may be stale, yet no
\* reply is credited to another board and no board is driven by another's word.
THEOREM NoCrossTalkHolds == Spec => []NoCrossTalk
<1>1. IInv => NoCrossTalk
  BY DEF IInv
<1>2. QED
  BY <1>1, InitIInv, NextIInv, PTL DEF Spec

\* The interrupt's cursors are those of the request in progress.
THEOREM CursorsAgreeHolds == Spec => []CursorsAgree
<1>1. IInv => CursorsAgree
  BY DEF IInv
<1>2. QED
  BY <1>1, InitIInv, NextIInv, PTL DEF Spec

-----------------------------------------------------------------------------
LEMMA InitRefines == Init => Service!ServiceInit
<1> SUFFICES ASSUME Init PROVE Service!ServiceInit
  OBVIOUS
<1>1. Service!Addrs = Addrs
  BY DEF Addrs, Service!Addrs
<1>2. desired \in [Slots -> Words] /\ actual \in [Addrs -> Words]
  BY BusAssumption DEF Init
<1>3. QED
  BY <1>1, <1>2 DEF Init, Service!ServiceInit

\* A write that reaches a board drives it; a command and a restart are
\* themselves; everything else the bus master does is invisible.
LEMMA StepRefines ==
  IInv /\ [Next]_vars => [Service!ServiceNext]_Service!serviceVars
<1> SUFFICES ASSUME IInv, [Next]_vars
             PROVE  Service!ServiceNext \/ UNCHANGED <<desired, actual, commanded>>
  BY DEF Service!serviceVars
<1>0. TypeOK /\ WriteSound /\ CursorsAgree /\ Service!Addrs = Addrs
  BY DEF IInv, Addrs, Service!Addrs
<1>1. CASE WriteBoard
  <2>1. i \in Slots /\ SlaveAddr[i] \in Addrs
    BY <1>0, <1>1, BusAssumption DEF WriteBoard, CursorsAgree, Addrs
  <2>2. known[i] \in Words /\ known[i] \in commanded[SlaveAddr[i]]
    BY <2>1, <1>0, <1>1 DEF WriteBoard, WriteSound, TypeOK
  <2>3. CASE actual' = [actual EXCEPT ![SlaveAddr[i]] = known[i]]
    <3>1. Service!Drive(SlaveAddr[i], known[i])
      BY <2>2, <2>3, <1>1 DEF WriteBoard, Service!Drive
    <3>2. QED
      BY <3>1, <2>1, <2>2, <1>0 DEF Service!ServiceNext
  <2>4. CASE UNCHANGED busVars
    BY <2>4, <1>1 DEF WriteBoard, busVars
  <2>5. QED
    BY <2>3, <2>4, <1>1 DEF WriteBoard
<1>2. ASSUME NEW s \in Slots, NEW w \in Words, Command(s, w)
      PROVE  Service!ServiceNext
  <2>1. Service!ServiceCommand(s, w)
    BY <1>2 DEF Command, Service!ServiceCommand, busVars
  <2>2. QED
    BY <2>1 DEF Service!ServiceNext
<1>3. ASSUME NEW a \in Addrs, RestartBoard(a) PROVE Service!ServiceNext
  <2>1. Service!Restart(a)
    BY <1>3 DEF RestartBoard, Service!Restart
  <2>2. QED
    BY <2>1, <1>0 DEF Service!ServiceNext
<1>4. CASE \/ StartTurn \/ ReadBoard \/ ReadNext \/ ReadDone \/ SkipBoard
           \/ LatchBoard \/ WriteNext \/ EndTurn \/ Receive \/ UNCHANGED vars
  BY <1>4 DEF StartTurn, ReadBoard, ReadNext, ReadDone, SkipBoard, LatchBoard,
     WriteNext, EndTurn, Receive, vars, busVars, threadVars
<1>5. QED
  BY <1>1, <1>2, <1>3, <1>4 DEF Next, Thread

\* The bus master implements the relay service: polling, lost frames, late
\* replies and rewrites never make a board drive anything but a word that
\* was commanded for it.
THEOREM Implements == Spec => ServiceSpec
<1>1. QED
  BY InitIInv, NextIInv, InitRefines, StepRefines, PTL
  DEF Spec, ServiceSpec, Service!ServiceSpec
-----------------------------------------------------------------------------
(***************************************************************************)
(* A bus on which nothing was lost or late and no board has restarted.     *)
(***************************************************************************)

\* What the gateway believes of an entry's board is what that board drives.
BeliefRight(s) == known[s] = actual[SlaveAddr[s]]

\* While a request is waited for, the line holds the answers to it.
AnswersOnly ==
  /\ pc \notin {"readWait", "writeWait"} => line = <<>>
  /\ pc \in {"readWait", "writeWait"} =>
       \A n \in 1 .. Len(line) :
         /\ line[n].addr = SlaveAddr[i] /\ line[n].word = actual[SlaveAddr[i]]
         /\ line[n].fun = IF pc = "readWait" THEN "read" ELSE "write"

\* A poll has the state of the boards it has passed, and of the present one
\* when its answers are in.
PollSound ==
  /\ pc = "readWait" /\ line = <<>> /\ i \in PowerBoards => BeliefRight(i)
  /\ pc \in {"read", "readWait"} => \A s \in PowerBoards : s < i => BeliefRight(s)
  /\ pc = "writeWait" => BeliefRight(i)

CalmInv == faults = 0 => AnswersOnly /\ PollSound

\* Every belief is right, except of the board whose new word is latched and not
\* yet written.
Trust == \A s \in PowerBoards : BeliefRight(s) \/ (pc = "write" /\ s = i)

LEMMA InitCalm == Init => CalmInv
BY DEF Init, CalmInv, AnswersOnly, PollSound

\* The answers just sent are all that the line holds.
LEMMA OneOrTwo ==
  ASSUME NEW r
  PROVE  /\ \A n \in 1 .. Len(Append(<<>>, r)) : Append(<<>>, r)[n] = r
         /\ \A n \in 1 .. Len(Append(Append(<<>>, r), r)) : Append(Append(<<>>, r), r)[n] = r
         /\ Append(<<>>, r) # <<>> /\ Append(Append(<<>>, r), r) # <<>>
OBVIOUS

LEMMA NextCalm ==
  ASSUME IInv, CalmInv, [Next]_vars, faults' = 0
  PROVE  /\ faults = 0
         /\ AnswersOnly' /\ PollSound'
         /\ Trust => Trust'
<1> USE BusAssumption
<1>0. /\ TypeOK /\ CursorsAgree /\ faults \in Nat
      /\ \A s \in Slots : SlaveAddr[s] \in Addrs
  BY DEF IInv, TypeOK, Addrs
<1>f. ~Fault
  BY <1>0 DEF Fault
<1>c. faults = 0 => AnswersOnly /\ PollSound
  BY DEF CalmInv
<1>t. known \in [Slots -> Words] /\ actual \in [Addrs -> Words] /\ line \in Seq(Replies)
      /\ i \in Nat /\ \A s \in PowerBoards : s \in Slots /\ s \in Nat
  BY <1>0 DEF TypeOK, Slots
<1>1. CASE StartTurn
  <2>1. /\ pc = "loop" /\ pc' \in {"read", "check"} /\ i' = 0 /\ faults = 0
        /\ UNCHANGED <<known, line, actual>>
    BY <1>1 DEF StartTurn, busVars
  <2>2. line' = <<>>
    BY <1>c, <2>1 DEF AnswersOnly
  <2>3. \A s \in PowerBoards : ~(s < 0)
    BY <1>t
  <2>4. AnswersOnly' /\ PollSound'
    BY <2>1, <2>2, <2>3 DEF AnswersOnly, PollSound
  <2>5. Trust => Trust'
    BY <2>1 DEF Trust, BeliefRight
  <2>6. QED
    BY <2>1, <2>4, <2>5
<1>2. CASE ReadBoard
  <2> DEFINE r == ReplyOf("read", i, actual[SlaveAddr[i]])
  <2>1. /\ pc = "read" /\ pc' = "readWait" /\ faults = 0
        /\ line' = Append(line, r) \/ line' = Append(Append(line, r), r)
        /\ UNCHANGED <<known, i, actual>>
    BY <1>2, <1>f DEF ReadBoard
  <2>2. line = <<>>
    BY <1>c, <2>1 DEF AnswersOnly
  <2>3. r.addr = SlaveAddr[i] /\ r.word = actual[SlaveAddr[i]] /\ r.fun = "read"
    BY DEF ReplyOf
  <2> HIDE DEF r
  <2>4. line' # <<>> /\ \A n \in 1 .. Len(line') : line'[n] = r
    BY <2>1, <2>2, OneOrTwo
  <2>5. AnswersOnly'
    BY <2>1, <2>3, <2>4 DEF AnswersOnly
  <2>6. PollSound'
    BY <1>c, <2>1, <2>4 DEF PollSound, BeliefRight
  <2>7. Trust => Trust'
    BY <2>1 DEF Trust, BeliefRight
  <2>8. QED
    BY <2>1, <2>5, <2>6, <2>7
<1>3. CASE ReadNext
  <2>1. /\ pc = "readWait" /\ pc' = "read" /\ i' = i + 1 /\ faults = 0 /\ line = <<>>
        /\ UNCHANGED <<known, line, actual>>
    BY <1>3, <1>f DEF ReadNext, Expire, busVars
  <2>2. AnswersOnly'
    BY <2>1 DEF AnswersOnly
  <2>3. \A s \in PowerBoards : s < i + 1 => BeliefRight(s)
    <3>1. \A s \in PowerBoards : s < i + 1 => s < i \/ s = i
      BY <1>t
    <3>2. QED
      BY <1>c, <2>1, <3>1 DEF PollSound
  <2>4. PollSound'
    BY <2>1, <2>3 DEF PollSound, BeliefRight
  <2>5. Trust => Trust'
    BY <2>1 DEF Trust, BeliefRight
  <2>6. QED
    BY <2>1, <2>2, <2>4, <2>5
<1>4. CASE ReadDone \/ EndTurn \/ SkipBoard
  <2>1. /\ pc \in {"read", "check"} /\ pc' \in {"check", "loop"} /\ faults = 0
        /\ UNCHANGED <<known, line, actual>>
    BY <1>4 DEF ReadDone, EndTurn, SkipBoard, busVars
  <2>2. AnswersOnly' /\ PollSound'
    BY <1>c, <2>1 DEF AnswersOnly, PollSound
  <2>3. Trust => Trust'
    BY <2>1 DEF Trust, BeliefRight
  <2>4. QED
    BY <2>1, <2>2, <2>3
<1>5. CASE LatchBoard
  <2>1. /\ pc = "check" /\ pc' = "write" /\ faults = 0 /\ i' = i
        /\ known' = [known EXCEPT ![i] = desired[i]]
        /\ UNCHANGED <<line, actual>>
    BY <1>5 DEF LatchBoard, busVars
  <2>2. AnswersOnly' /\ PollSound'
    BY <1>c, <2>1 DEF AnswersOnly, PollSound
  <2>3. \A s \in PowerBoards : s # i => known'[s] = known[s]
    BY <1>t, <2>1
  <2>4. Trust => Trust'
    BY <2>1, <2>3 DEF Trust, BeliefRight
  <2>5. QED
    BY <2>1, <2>2, <2>4
<1>6. CASE WriteBoard
  <2> DEFINE r == ReplyOf("write", i, known[i])
  <2>1. /\ pc = "write" /\ pc' = "writeWait" /\ faults = 0
        /\ actual' = [actual EXCEPT ![SlaveAddr[i]] = known[i]]
        /\ line' = Append(line, r)
        /\ UNCHANGED <<known, i>>
    BY <1>6, <1>f DEF WriteBoard
  <2>2. line = <<>> /\ i \in PowerBoards
    BY <1>0, <1>c, <2>1 DEF AnswersOnly, CursorsAgree
  <2>3. r.addr = SlaveAddr[i] /\ r.word = known[i] /\ r.fun = "write"
    BY DEF ReplyOf
  <2> HIDE DEF r
  <2>4. line' # <<>> /\ \A n \in 1 .. Len(line') : line'[n] = r
    BY <2>1, <2>2, OneOrTwo
  <2>5. actual'[SlaveAddr[i]] = known[i]
    BY <1>0, <1>t, <2>1, <2>2
  <2>6. AnswersOnly' /\ PollSound'
    BY <2>1, <2>3, <2>4, <2>5 DEF AnswersOnly, PollSound, BeliefRight
  <2>7. \A s \in PowerBoards : s # i => actual'[SlaveAddr[s]] = actual[SlaveAddr[s]]
    <3>1. \A s \in PowerBoards : s # i => SlaveAddr[s] # SlaveAddr[i]
      BY <1>t, <2>2, AddrAssumption
    <3>2. QED
      BY <1>0, <1>t, <2>1, <3>1
  <2>8. Trust => Trust'
    BY <2>1, <2>5, <2>7 DEF Trust, BeliefRight
  <2>9. QED
    BY <2>1, <2>6, <2>8
<1>7. CASE WriteNext
  <2>1. /\ pc = "writeWait" /\ pc' = "check" /\ faults = 0 /\ line = <<>>
        /\ UNCHANGED <<known, line, actual>>
    BY <1>7, <1>f DEF WriteNext, Expire, busVars
  <2>2. AnswersOnly' /\ PollSound'
    BY <2>1 DEF AnswersOnly, PollSound
  <2>3. Trust => Trust'
    BY <2>1 DEF Trust, BeliefRight
  <2>4. QED
    BY <2>1, <2>2, <2>3
<1>8. CASE Receive
  <2> DEFINE h == Head(line)
  <2>1. /\ line # <<>> /\ line' = Tail(line) /\ faults = 0
        /\ known' = [s \in Slots |-> IF s \in Credited(h) THEN h.word ELSE known[s]]
        /\ UNCHANGED <<readCnt, ctlCnt, pc, i, actual>>
    BY <1>8 DEF Receive, threadVars
  <2>2. pc \in {"readWait", "writeWait"}
    BY <1>c, <2>1 DEF AnswersOnly
  <2>3. /\ h = line[1] /\ 1 \in 1 .. Len(line)
        /\ \A n \in 1 .. Len(Tail(line)) : Tail(line)[n] = line[n + 1] /\ n + 1 \in 1 .. Len(line)
    BY <1>t, <2>1
  <2>4. /\ h.addr = SlaveAddr[i] /\ h.word = actual[SlaveAddr[i]]
        /\ h.fun = IF pc = "readWait" THEN "read" ELSE "write"
    BY <1>c, <2>1, <2>2, <2>3 DEF AnswersOnly
  <2>5. AnswersOnly'
    BY <1>c, <2>1, <2>2, <2>3 DEF AnswersOnly
  <2>6. i \in Slots /\ (pc = "readWait" => readCnt = i) /\ (pc = "writeWait" => ctlCnt = i)
    BY <1>0, <1>t, <2>2 DEF CursorsAgree
  <2> HIDE DEF h
  <2>7. Credited(h) = {s \in PowerBoards : s = i}
    BY <2>2, <2>4, <2>6 DEF Credited
  <2>8. \A s \in Slots : known'[s] = IF s \in PowerBoards /\ s = i THEN actual[SlaveAddr[i]]
                                     ELSE known[s]
    BY <2>1, <2>4, <2>7
  <2>9. \A s \in Slots : BeliefRight(s) => BeliefRight(s)'
    BY <2>1, <2>8 DEF BeliefRight
  <2>10. i \in PowerBoards => BeliefRight(i)'
    BY <2>1, <2>6, <2>8 DEF BeliefRight
  <2>11. pc = "writeWait" => i \in PowerBoards
    BY <1>0 DEF CursorsAgree
  <2>12. PollSound'
    BY <1>c, <1>t, <2>1, <2>2, <2>9, <2>10, <2>11 DEF PollSound, BeliefRight
  <2>13. Trust => Trust'
    BY <1>t, <2>1, <2>9 DEF Trust
  <2>14. QED
    BY <2>1, <2>5, <2>12, <2>13
<1>9. ASSUME NEW s \in Slots, NEW w \in Words, Command(s, w)
      PROVE  /\ faults = 0 /\ AnswersOnly' /\ PollSound'
             /\ Trust => Trust'
  <2>1. faults = 0 /\ UNCHANGED <<known, pc, i, line, actual>>
    BY <1>9 DEF Command, threadVars, busVars
  <2>2. QED
    BY <1>c, <2>1 DEF AnswersOnly, PollSound, Trust, BeliefRight
<1>10. \A a \in Addrs : ~RestartBoard(a)
  BY <1>f DEF RestartBoard
<1>11. CASE UNCHANGED vars
  <2>1. faults = 0 /\ UNCHANGED <<known, pc, i, line, actual>>
    BY <1>11 DEF vars
  <2>2. QED
    BY <1>c, <2>1 DEF AnswersOnly, PollSound, Trust, BeliefRight
<1>12. QED
  BY <1>1, <1>2, <1>3, <1>4, <1>5, <1>6, <1>7, <1>8, <1>9, <1>10, <1>11 DEF Next, Thread

\* The thread has gone through the list.
Polled == pc = "read" /\ i = BoardCount

\* Right beliefs, on a bus that has been calm.
CalmTrust == faults = 0 => Trust

\* A poll has read every board; from its end on, as long as nothing is lost or
\* late and no board restarts, each belief is right except between the latch
\* and the write of a new word.  So a board of which the gateway has the wanted
\* word drives the wanted word: relay_status, though set before the write, is
\* no lie when the bus is calm.
BeliefLasts == [](Polled => []CalmTrust)

\* The safety half of Converges: on a calm bus one poll makes every belief
\* right, and it stays right.
THEOREM BeliefLastsHolds == Spec => BeliefLasts
<1>1. Init => IInv /\ CalmInv
  BY InitIInv, InitCalm
<1>2. IInv /\ CalmInv /\ [Next]_vars => (IInv /\ CalmInv)'
  <2> SUFFICES ASSUME IInv, CalmInv, [Next]_vars PROVE IInv' /\ CalmInv'
    OBVIOUS
  <2>1. IInv'
    BY NextIInv
  <2>2. CalmInv'
    BY NextCalm DEF CalmInv
  <2>3. QED
    BY <2>1, <2>2
<1>3. IInv /\ CalmInv /\ Polled => CalmTrust
  <2> SUFFICES ASSUME IInv, CalmInv, pc = "read", i = BoardCount, faults = 0, NEW s \in PowerBoards
               PROVE  BeliefRight(s)
    BY DEF Polled, CalmTrust, Trust
  <2>1. s < i
    BY BusAssumption DEF Slots
  <2>2. QED
    BY <2>1 DEF CalmInv, PollSound
<1>4. IInv /\ CalmInv /\ CalmTrust /\ [Next]_vars => CalmTrust'
  <2> SUFFICES ASSUME IInv, CalmInv, CalmTrust, [Next]_vars, faults' = 0 PROVE Trust'
    BY DEF CalmTrust
  <2>1. faults = 0 /\ (Trust => Trust')
    BY NextCalm
  <2>2. QED
    BY <2>1 DEF CalmTrust
<1>5. QED
  BY <1>1, <1>2, <1>3, <1>4, PTL DEF Spec, BeliefLasts
=============================================================================
