--------------------------- MODULE Cabinet_proofs ---------------------------
(***************************************************************************)
(* The light and the automatic relays of Cabinet, for every bound on the   *)
(* commands and for every length of the debounce and of the minute.  The   *)
(* argument is about what the word a thread has read can still differ in   *)
(* from the word: the key thread is cut by nobody who switches the light,  *)
(* and a word that differs is one whose write is seen to undo another's.   *)
(***************************************************************************)
EXTENDS Cabinet, TLAPS

\* The light burns as decided, and so it does in the word that the display thread
\* has read and will write back: the key thread does not run in between.
LightKept ==
  LIGHT \notin ServerRelays =>
    /\ LIGHT \in word <=> lit
    /\ oledWord # NONE => (LIGHT \in oledWord <=> LIGHT \in word)

\* Typing, and where each of the two threads holds a word it has read.
Places ==
  /\ word \subseteq Relays
  /\ keyAt \in KeyPlaces
  /\ keyWord = NONE \/ keyWord \subseteq Relays
  /\ oledWord = NONE \/ oledWord \subseteq Relays
  /\ oledWord # NONE => oledAt # 0
  /\ keyWord = NONE <=> keyAt \in {"door", "led", "expire"}
  /\ oledAt \in 0 .. 2
  /\ open \in [AutoRelays -> 0 .. 1]
  /\ served \in [Relays -> {"never", "on", "off"}]
  /\ clobbered \in BOOLEAN

IInv == Places /\ LightKept /\ AutoAsDecided

LEMMA Different ==
  /\ LIGHT # FAN /\ LIGHT # HEAT /\ LIGHT # PLAIN
  /\ FAN # HEAT /\ FAN # PLAIN /\ HEAT # PLAIN
<1> DEFINE relay == <<LIGHT, FAN, HEAT, PLAIN>>
<1>1. \A r, q \in 1 .. 4 : r # q => relay[r] # relay[q]
  BY CabinetAssumption DEF CabinetAssumption
<1>2. relay[1] # relay[2] /\ relay[1] # relay[3] /\ relay[1] # relay[4]
      /\ relay[2] # relay[3] /\ relay[2] # relay[4] /\ relay[3] # relay[4]
  BY <1>1
<1> QED BY <1>2

LEMMA InitIInv == Init => IInv
<1> SUFFICES ASSUME Init PROVE IInv
  OBVIOUS
<1>1. LIGHT \notin word /\ \A r \in AutoRelays : r \notin word
  BY Different DEF Init, AutoRelays
<1>2. Places
  <2>1. word \subseteq Relays
    BY DEF Init, Relays
  <2>2. open \in [AutoRelays -> 0 .. 1] /\ served \in [Relays -> {"never", "on", "off"}]
    BY DEF Init
  <2>3. oledAt \in 0 .. 2 /\ oledAt = 0 /\ keyAt = "door" /\ keyWord = NONE
        /\ oledWord = NONE
    BY DEF Init
  <2>4. clobbered \in BOOLEAN
    BY Zenon DEF Init
  <2> QED BY <2>1, <2>2, <2>3, <2>4, Zenon DEF Places, KeyPlaces
<1> QED BY <1>1, <1>2 DEF Init, IInv, LightKept, AutoAsDecided

\* What a switch of one relay leaves alone.
LEMMA WithKeeps ==
  ASSUME NEW old, NEW r, NEW q, NEW on \in BOOLEAN
  PROVE  /\ r \in With(old, r, on) <=> on
         /\ q # r => (q \in With(old, r, on) <=> q \in old)
BY DEF With

LEMMA WithTyped ==
  ASSUME NEW old, old \subseteq Relays, NEW r \in Relays, NEW on \in BOOLEAN
  PROVE  With(old, r, on) \subseteq Relays /\ With(old, r, on) # NONE
<1>1. With(old, r, on) \subseteq Relays
  BY DEF With
<1> QED BY <1>1, CabinetAssumption DEF CabinetAssumption

\* The key thread's stores of the light.
LEMMA LightStore ==
  ASSUME IInv, NEW on \in BOOLEAN, oledAt = 0, keyWord # NONE,
         Store(keyWord, LIGHT, on), lit' = on,
         UNCHANGED <<oledVars, served>>,
         keyAt' \in {"door", "led"}, keyWord' = NONE
  PROVE  IInv'
<1>1. keyWord \subseteq Relays /\ LIGHT \in Relays
  BY DEF IInv, Places, Relays
<1>2. word' = With(keyWord, LIGHT, on)
  BY DEF Store
<1>3. Places'
  BY <1>1, <1>2, WithTyped DEF IInv, Places, Store, oledVars, KeyPlaces
<1>4. LightKept'
  <2>1. LIGHT \in word' <=> lit'
    BY <1>2, WithKeeps
  <2> QED BY <2>1 DEF IInv, Places, LightKept, oledVars
<1>5. AutoAsDecided'
  <2> SUFFICES ASSUME ~clobbered', NEW r \in AutoRelays, served'[r] = "never"
               PROVE  r \in word' <=> open'[r] = 1
    BY DEF AutoAsDecided
  <2>1. keyWord = word /\ ~clobbered
    BY DEF Store
  <2>2. r # LIGHT
    BY Different DEF AutoRelays
  <2>3. r \in word' <=> r \in word
    BY <1>2, <2>1, <2>2, WithKeeps
  <2> QED BY <2>1, <2>3 DEF IInv, AutoAsDecided, oledVars
<1> QED BY <1>3, <1>4, <1>5 DEF IInv

LEMMA KeyStep == ASSUME IInv, Key PROVE IInv'
<1>1. CASE DoorTurn
  BY <1>1, CabinetAssumption
     DEF CabinetAssumption, DoorTurn, MayKey, IInv, Places, LightKept,
         AutoAsDecided, oledVars, ledVars, KeyPlaces
<1>2. CASE DoorStore
  <2>1. keyWord # NONE
    BY <1>2 DEF DoorStore, MayKey, IInv, Places
  <2> QED BY <1>2, <2>1, LightStore DEF DoorStore, MayKey
<1>3. CASE LedTurn
  BY <1>3, CabinetAssumption
     DEF CabinetAssumption, LedTurn, MayKey, IInv, Places, LightKept,
         AutoAsDecided, oledVars, doorVars, KeyPlaces
<1>4. CASE Expire
  BY <1>4 DEF Expire, MayKey, IInv, Places, LightKept, AutoAsDecided, oledVars,
              doorVars, KeyPlaces
<1>5. CASE OnStore
  <2>1. keyWord # NONE
    BY <1>5 DEF OnStore, MayKey, IInv, Places
  <2> QED BY <1>5, <2>1, LightStore DEF OnStore, MayKey
<1>6. CASE OffStore
  <2>1. keyWord # NONE
    BY <1>6 DEF OffStore, MayKey, IInv, Places
  <2> QED BY <1>6, <2>1, LightStore DEF OffStore, MayKey
<1> QED BY <1>1, <1>2, <1>3, <1>4, <1>5, <1>6 DEF Key

LEMMA OledStep == ASSUME IInv, Oled PROVE IInv'
<1>1. CASE OledTurn
  BY <1>1 DEF OledTurn, IInv, Places, LightKept, AutoAsDecided, keyVars
<1> DEFINE at == oledAt
<1>2. CASE Decide
  <2>1. NextAt \in 0 .. 2
    BY DEF IInv, Places, NextAt, AutoOrder
  <2>2. word # NONE
    BY CabinetAssumption DEF CabinetAssumption, IInv, Places
  <2>3. /\ UNCHANGED <<word, keyVars, open, lit, served, clobbered>>
        /\ \/ oledWord' = word /\ oledAt' = oledAt /\ oledAt # 0
           \/ oledWord' = NONE /\ oledAt' = NextAt
    BY <1>2 DEF Decide
  <2> HIDE DEF at
  <2> QED BY <2>1, <2>2, <2>3
          DEF IInv, Places, LightKept, AutoAsDecided, keyVars
<1>3. CASE Apply
  <2>1. oledWord \subseteq Relays /\ oledAt \in 1 .. 2
    BY <1>3 DEF Apply, IInv, Places
  <2>2. Relay \in AutoRelays /\ Relay \in Relays /\ Relay # LIGHT
    BY <2>1, Different DEF Relay, AutoOrder, AutoRelays, Relays
  <2> DEFINE on == open[Relay] = 0
  <2>3. on \in BOOLEAN
    OBVIOUS
  <2>4. word' = With(oledWord, Relay, on)
    BY <1>3 DEF Apply, Store
  <2>5. open' = [open EXCEPT ![Relay] = 1 - open[Relay]]
    BY <1>3 DEF Apply
  <2>6. Places'
    <3>1. NextAt \in 0 .. 2
      BY DEF IInv, Places, NextAt, AutoOrder
    <3>2. word' \subseteq Relays
      BY <2>1, <2>2, <2>3, <2>4, WithTyped
    <3>3. open' \in [AutoRelays -> 0 .. 1]
      BY <2>2, <2>5 DEF IInv, Places
    <3> QED BY <1>3, <3>1, <3>2, <3>3 DEF Apply, Store, IInv, Places, keyVars
  <2>7. LightKept'
    <3>1. LIGHT \in word' <=> LIGHT \in oledWord
      BY <2>2, <2>3, <2>4, WithKeeps
    <3> QED BY <1>3, <3>1 DEF Apply, IInv, LightKept
  <2>8. AutoAsDecided'
    <3> SUFFICES ASSUME ~clobbered', NEW r \in AutoRelays, served'[r] = "never"
                 PROVE  r \in word' <=> open'[r] = 1
      BY DEF AutoAsDecided
    <3>1. oledWord = word /\ ~clobbered
      BY <1>3 DEF Apply, Store
    <3>2. CASE r = Relay
      <4>1. r \in word' <=> open[Relay] = 0
        BY <2>3, <2>4, <3>2, WithKeeps
      <4>2. open'[r] = 1 - open[Relay] /\ open[Relay] \in 0 .. 1
        BY <2>2, <2>5, <3>2 DEF IInv, Places
      <4> QED BY <4>1, <4>2
    <3>3. CASE r # Relay
      <4>1. r \in word' <=> r \in word
        BY <2>3, <2>4, <3>1, <3>3, WithKeeps
      <4>2. open'[r] = open[r]
        BY <2>5, <3>3 DEF IInv, Places
      <4> QED BY <1>3, <3>1, <4>1, <4>2 DEF Apply, IInv, AutoAsDecided
    <3> QED BY <3>2, <3>3
  <2> QED BY <2>6, <2>7, <2>8 DEF IInv
<1> QED BY <1>1, <1>2, <1>3 DEF Oled

LEMMA RelayCommanded == ASSUME IInv, CommandRelay PROVE IInv'
<1>1. PICK r \in ServerRelays \cup {FAN}, on \in BOOLEAN :
        /\ word' = With(word, r, on)
        /\ served' = [served EXCEPT ![r] = IF on THEN "on" ELSE "off"]
        /\ lit' = IF r = LIGHT THEN on ELSE lit
  BY DEF CommandRelay
<1>2. r \in Relays
  BY CabinetAssumption DEF CabinetAssumption, Relays
<1>3. UNCHANGED <<keyAt, keyWord, open, oledAt, oledWord, clobbered>>
  BY DEF CommandRelay, keyVars, oledVars
<1>4. Places'
  <2>1. word' \subseteq Relays
    BY <1>1, <1>2, WithTyped DEF IInv, Places
  <2>2. served' \in [Relays -> {"never", "on", "off"}]
    BY <1>1, <1>2 DEF IInv, Places
  <2> QED BY <1>3, <2>1, <2>2 DEF IInv, Places
<1>5. LightKept'
  <2> SUFFICES ASSUME LIGHT \notin ServerRelays
               PROVE  /\ LIGHT \in word' <=> lit'
                      /\ oledWord' # NONE => (LIGHT \in oledWord' <=> LIGHT \in word')
    BY DEF LightKept
  <2>1. r # LIGHT
    BY Different
  <2>2. LIGHT \in word' <=> LIGHT \in word
    BY <1>1, <2>1, WithKeeps
  <2> QED BY <1>1, <1>3, <2>1, <2>2 DEF IInv, LightKept
<1>6. AutoAsDecided'
  <2> SUFFICES ASSUME ~clobbered', NEW q \in AutoRelays, served'[q] = "never"
               PROVE  q \in word' <=> open'[q] = 1
    BY DEF AutoAsDecided
  <2>1. q \in Relays
    BY DEF AutoRelays, Relays
  <2>2. q # r /\ served[q] = "never"
    BY <1>1, <1>2, <2>1 DEF IInv, Places
  <2>3. q \in word' <=> q \in word
    BY <1>1, <2>2, WithKeeps
  <2> QED BY <1>3, <2>2, <2>3 DEF IInv, AutoAsDecided
<1> QED BY <1>4, <1>5, <1>6 DEF IInv

LEMMA NextIInv == IInv /\ [Next]_vars => IInv'
<1> SUFFICES ASSUME IInv, [Next]_vars PROVE IInv'
  OBVIOUS
<1>1. CASE Key
  BY <1>1, KeyStep
<1>2. CASE Oled
  BY <1>2, OledStep
<1>3. CASE CommandRelay
  BY <1>3, RelayCommanded
<1>4. CASE CommandLed \/ DoorMoves \/ UNCHANGED vars
  BY <1>4 DEF CommandLed, DoorMoves, vars, keyVars, oledVars, IInv, Places,
              LightKept, AutoAsDecided
<1> QED BY <1>1, <1>2, <1>3, <1>4 DEF Next

\* In every reachable state the light burns as it was last decided, unless the
\* server switches it by its number: key_handle.c's decisions are not undone by
\* the display thread or the callback.
THEOREM LightAsDecidedHolds == Spec => []LightAsDecided
<1>1. IInv => LightAsDecided
  BY DEF IInv, LightKept, LightAsDecided
<1> QED BY InitIInv, NextIInv, <1>1, PTL DEF Spec

\* In every reachable state fan and heater run as the display thread decided in
\* oled_handle.c, as long as the server has not switched them and no write to the
\* relay word has undone another's.
THEOREM AutoAsDecidedHolds == Spec => []AutoAsDecided
<1>1. IInv => AutoAsDecided
  BY DEF IInv
<1> QED BY InitIInv, NextIInv, <1>1, PTL DEF Spec
-----------------------------------------------------------------------------
(* The types.  Only the minute's counter needs an argument: it is looked at   *)
(* while the light burns by command (ledData = 2), and starts from 0 there.   *)

Counts ==
  /\ door \in 0 .. 1 /\ doorOld \in {0, 1, 255} /\ doorCnt \in 0 .. Debounce - 1
  /\ lockFlag \in 0 .. 1
  /\ ledFlag \in 0 .. 1 /\ ledData \in 0 .. 2 /\ ledCnt \in 0 .. LedTurns
  /\ commands \in 0 .. MaxCommands
  /\ ledData = 2 /\ keyAt # "expire" => ledCnt < LedTurns
  /\ keyAt = "onStore" => ledCnt = 0

LEMMA CountsStep == ASSUME Counts, [Next]_vars PROVE Counts'
<1> USE CabinetAssumption DEF CabinetAssumption, Counts
<1>1. CASE Key
  <2>1. CASE DoorTurn
    BY <2>1 DEF DoorTurn, MayKey, Settled, ledVars
  <2>2. CASE DoorStore
    BY <2>2 DEF DoorStore, MayKey, doorVars, ledVars
  <2>3. CASE LedTurn
    BY <2>3 DEF LedTurn, MayKey, doorVars
  <2>4. CASE Expire
    BY <2>4 DEF Expire, MayKey, doorVars
  <2>5. CASE OnStore
    BY <2>5 DEF OnStore, MayKey, doorVars
  <2>6. CASE OffStore
    BY <2>6 DEF OffStore, MayKey, doorVars
  <2> QED BY <1>1, <2>1, <2>2, <2>3, <2>4, <2>5, <2>6 DEF Key
<1>2. CASE Oled
  BY <1>2 DEF Oled, OledTurn, Decide, Apply, doorVars, ledVars, keyVars
<1>3. CASE CommandLed
  BY <1>3 DEF CommandLed, Command, doorVars, keyVars
<1>4. CASE CommandRelay
  BY <1>4 DEF CommandRelay, Command, doorVars, ledVars, keyVars
<1>5. CASE DoorMoves
  BY <1>5 DEF DoorMoves, ledVars, keyVars
<1>6. CASE UNCHANGED vars
  BY <1>6 DEF vars, doorVars, ledVars, keyVars
<1> QED BY <1>1, <1>2, <1>3, <1>4, <1>5, <1>6 DEF Next

Typed == Counts /\ lit \in BOOLEAN

\* The last decision about the light is one.
LEMMA LitStep == ASSUME lit \in BOOLEAN, [Next]_vars PROVE lit' \in BOOLEAN
<1>1. CASE Key
  BY <1>1, Zenon DEF Key, DoorTurn, DoorStore, LedTurn, Expire, OnStore, OffStore
<1>2. CASE Oled
  BY <1>2, Zenon DEF Oled, OledTurn, Decide, Apply
<1>3. CASE CommandRelay
  BY <1>3 DEF CommandRelay
<1>4. CASE CommandLed \/ DoorMoves \/ UNCHANGED vars
  BY <1>4, Zenon DEF CommandLed, DoorMoves, vars
<1> QED BY <1>1, <1>2, <1>3, <1>4 DEF Next

\* Every variable keeps its type: the debounce and the minute end at their
\* limits, and a word read to be changed is a relay word.
THEOREM TypeOKHolds == Spec => []TypeOK
<1>1. ASSUME Init PROVE Typed
  <2>1. Counts
    <3>1. door \in 0 .. 1 /\ doorOld = 255 /\ doorCnt = 0 /\ lockFlag = 0
          /\ ledFlag = 0 /\ ledData = 0 /\ ledCnt = 0 /\ commands = 0 /\ keyAt = "door"
      BY <1>1, Zenon DEF Init
    <3> QED BY <3>1, CabinetAssumption DEF CabinetAssumption, Counts
  <2>2. lit \in BOOLEAN
    BY <1>1, Zenon DEF Init
  <2> QED BY <2>1, <2>2 DEF Typed
<1>2. Typed /\ [Next]_vars => Typed'
  BY CountsStep, LitStep DEF Typed
<1>3. IInv /\ Typed => TypeOK
  <2> SUFFICES ASSUME IInv, Typed PROVE TypeOK
    OBVIOUS
  <2> USE DEF Typed
  <2>1. {lit, clobbered} \subseteq BOOLEAN
    BY Zenon DEF IInv, Places
  <2>2. Len(AutoOrder) = 2
    BY DEF AutoOrder
  <2> QED BY <2>1, <2>2 DEF IInv, Places, Counts, TypeOK
<1> QED BY InitIInv, NextIInv, <1>1, <1>2, <1>3, PTL DEF Spec
=============================================================================
