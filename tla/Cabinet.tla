------------------------------ MODULE Cabinet ------------------------------
(***************************************************************************)
(* Light, fan and heater of the cabinet: three threads write the relay     *)
(* word of the first power board, power_monitoring_relay_data[0].  The key *)
(* thread switches the light with the door and with the server's timed     *)
(* command, the display thread switches fan and heater by temperature and  *)
(* humidity, and the callback of the server's commands sets relays at once *)
(* (RelayBus then brings the word to the board).                           *)
(*                                                                         *)
(* Priorities: key < display < callback.  A thread is cut by a higher one  *)
(* anywhere, also between reading the word and writing it back, which      *)
(* undoes what the other wrote.                                            *)
(***************************************************************************)
EXTENDS Integers, Sequences

CONSTANTS LIGHT, FAN, HEAT,  \* LIGHTING_RELAY, FAN_RELAY, DC7_RELAY
          PLAIN,         \* a relay that only the server switches
          ServerRelays,  \* bound: the relays the server switches by number
          NONE,          \* no word is being changed
          Debounce,      \* samples a door change must last (3)
          LedTurns,      \* turns a commanded light stays on (50*60)
          MaxCommands    \* bound: commands received

Relays == {LIGHT, FAN, HEAT, PLAIN}
AutoOrder == <<FAN, HEAT>>
AutoRelays == {FAN, HEAT}

ASSUME CabinetAssumption ==
  /\ \A r, q \in 1 .. 4 :
       r # q => <<LIGHT, FAN, HEAT, PLAIN>>[r] # <<LIGHT, FAN, HEAT, PLAIN>>[q]
  /\ ServerRelays \subseteq Relays /\ \A word \in SUBSET Relays : word # NONE
  /\ Debounce \in Nat \ {0} /\ LedTurns \in Nat \ {0} /\ MaxCommands \in Nat

VARIABLES
  word,         \* device_data.power_monitoring_relay_data[0], as a set
  door,         \* what the door's pin reads: is it open
  doorOld, doorCnt, \* lock_value_old, lock_value_cnt
  lockFlag,     \* device_data.lock_in_error_flag
  ledFlag, ledData, ledCnt, \* led_flag, led_data_flag, led_1min_cnt
  keyAt, keyWord,   \* where the key thread's turn stands; the word it read
  open,         \* open_fan and open_heat
  oledAt, oledWord, \* the same two of the display thread
  lit,          \* was the light last decided to be on
  served,       \* what the server last commanded of a relay, if anything
  clobbered,    \* has a write undone another thread's
  commands      \* how much of the bound is used

doorVars == <<door, doorOld, doorCnt, lockFlag>>
ledVars == <<ledFlag, ledData, ledCnt>>
keyVars == <<keyAt, keyWord>>
oledVars == <<open, oledAt, oledWord>>
vars == <<word, doorVars, ledVars, keyVars, oledVars, lit, served,
          clobbered, commands>>

KeyPlaces == {"door", "doorStore", "led", "expire", "onStore", "offStore"}

Init ==
  /\ word = {PLAIN}
  /\ door \in 0 .. 1 /\ doorOld = 255 /\ doorCnt = 0 /\ lockFlag = 0
  /\ ledFlag = 0 /\ ledData = 0 /\ ledCnt = 0
  /\ keyAt = "door" /\ keyWord = NONE
  /\ open = [r \in AutoRelays |-> 0] /\ oledAt = 0 /\ oledWord = NONE
  /\ lit = FALSE /\ served = [r \in Relays |-> "never"]
  /\ clobbered = FALSE /\ commands = 0

With(old, r, on) == IF on THEN old \cup {r} ELSE old \ {r}

\* The write of a change to the word as it was read.
Store(read, r, on) ==
  /\ word' = With(read, r, on)
  /\ clobbered' = (clobbered \/ read # word)

-----------------------------------------------------------------------------
(* The key thread, every 20 ms, where no higher thread is at work. *)

\* Mutant: the key thread is not below the display thread.
MayKeyCut(place) == keyAt = place

MayKey(place) == keyAt = place /\ oledAt = 0

\* Mutant: one sample more than the counter has room for.
SettledLate == doorCnt + 1 > Debounce

\* Has the door's pin differed from the door's state in enough samples.
Settled == doorCnt + 1 >= Debounce

DoorTurn ==
  /\ MayKey("door")
  /\ \/ /\ door = doorOld \/ ~Settled
        /\ doorCnt' = (IF door = doorOld THEN 0 ELSE doorCnt + 1)
        /\ keyAt' = "led" /\ UNCHANGED <<doorOld, lockFlag, keyWord>>
     \/ /\ door # doorOld /\ Settled
        /\ doorCnt' = 0 /\ doorOld' = door /\ lockFlag' = door
        /\ keyAt' = "doorStore" /\ keyWord' = word
  /\ UNCHANGED <<word, door, ledVars, oledVars, lit, served,
                 clobbered, commands>>

DoorStore ==
  /\ MayKey("doorStore")
  /\ Store(keyWord, LIGHT, doorOld = 1) /\ lit' = (doorOld = 1)
  /\ keyAt' = "led" /\ keyWord' = NONE
  /\ UNCHANGED <<doorVars, ledVars, oledVars, served, commands>>

\* Mutant: the minute is counted anew in every turn.
LedTurnRestarts ==
  /\ MayKey("led")
  /\ \/ /\ ledFlag = 1 /\ ledData \in 0 .. 1
        /\ keyAt' = (IF ledData = 1 THEN "onStore" ELSE "offStore")
        /\ keyWord' = word /\ ledCnt' = 0
     \/ /\ ledFlag = 1 /\ ledData = 2 /\ ledCnt' = 1
        /\ keyAt' = "door" /\ UNCHANGED keyWord
     \/ ledFlag = 0 /\ keyAt' = "door" /\ UNCHANGED <<keyWord, ledCnt>>
  /\ UNCHANGED <<word, doorVars, ledFlag, ledData, oledVars, lit, served,
                 clobbered, commands>>

\* The server's light: switched on, counted, switched off.
LedTurn ==
  /\ MayKey("led")
  /\ \/ ledFlag = 0 /\ keyAt' = "door" /\ UNCHANGED <<keyWord, ledCnt>>
     \/ ledFlag = 1 /\ ledData = 1 /\ keyAt' = "onStore" /\ keyWord' = word /\ ledCnt' = 0
     \/ /\ ledFlag = 1 /\ ledData = 0 /\ keyAt' = "offStore" /\ keyWord' = word
        /\ UNCHANGED ledCnt
     \/ /\ ledFlag = 1 /\ ledData = 2 /\ UNCHANGED keyWord
        /\ ledCnt' = ledCnt + 1
        /\ keyAt' = (IF ledCnt + 1 >= LedTurns THEN "expire" ELSE "door")
  /\ UNCHANGED <<word, doorVars, ledFlag, ledData, oledVars, lit, served,
                 clobbered, commands>>

Expire ==
  /\ MayKey("expire") /\ keyAt' = "door" /\ ledData' = 0
  /\ UNCHANGED <<word, doorVars, ledFlag, ledCnt, keyWord, oledVars, lit,
                 served, clobbered, commands>>

\* Both also end the command, whatever came since it was looked at.
OnStore ==
  /\ MayKey("onStore") /\ keyAt' = "door"
  /\ Store(keyWord, LIGHT, TRUE) /\ lit' = TRUE
  /\ ledData' = 2 /\ keyWord' = NONE
  /\ UNCHANGED <<doorVars, ledFlag, ledCnt, oledVars, served, commands>>

OffStore ==
  /\ MayKey("offStore") /\ keyAt' = "door"
  /\ Store(keyWord, LIGHT, FALSE) /\ lit' = FALSE
  /\ ledFlag' = 0 /\ keyWord' = NONE
  /\ UNCHANGED <<doorVars, ledData, ledCnt, oledVars, served, commands>>

Key == DoorTurn \/ DoorStore \/ LedTurn \/ Expire \/ OnStore \/ OffStore

-----------------------------------------------------------------------------
(* The display thread, every two seconds if the sensor could be read. *)

OledTurn ==
  /\ oledAt = 0 /\ oledAt' = 1
  /\ UNCHANGED <<word, doorVars, ledVars, keyVars, open, oledWord, lit,
                 served, clobbered, commands>>

Relay == AutoOrder[oledAt]
NextAt == IF oledAt = Len(AutoOrder) THEN 0 ELSE oledAt + 1

\* What temperature and humidity ask: on beyond the upper bound, off below the
\* lower one (5 degrees for the fan), nothing in between.
Climates == {"on", "off", "neither"}
Turned(climate) == climate = (IF open[Relay] = 0 THEN "on" ELSE "off")

Decide ==
  /\ oledAt # 0 /\ oledWord = NONE
  /\ \E climate \in Climates :
       \/ Turned(climate) /\ oledWord' = word /\ UNCHANGED oledAt
       \/ ~Turned(climate) /\ oledAt' = NextAt /\ UNCHANGED oledWord
  /\ UNCHANGED <<word, doorVars, ledVars, keyVars, open, lit, served, clobbered,
                 commands>>

\* Mutant: the heater's relay follows the fan's open_fan.
ApplyNot ==
  /\ oledAt # 0 /\ oledWord # NONE
  /\ Store(oledWord, Relay, open[FAN] = 0)
  /\ open' = [open EXCEPT ![Relay] = 1 - @]
  /\ oledAt' = NextAt /\ oledWord' = NONE
  /\ UNCHANGED <<doorVars, ledVars, keyVars, lit, served, commands>>

Apply ==
  /\ oledAt # 0 /\ oledWord # NONE
  /\ Store(oledWord, Relay, open[Relay] = 0)
  /\ open' = [open EXCEPT ![Relay] = 1 - @]
  /\ oledAt' = NextAt /\ oledWord' = NONE
  /\ UNCHANGED <<doorVars, ledVars, keyVars, lit, served, commands>>

Oled == OledTurn \/ Decide \/ Apply

-----------------------------------------------------------------------------
(* The callback of the server's commands. *)

Command == commands < MaxCommands /\ commands' = commands + 1

\* An off is not followed while the door is open.
CommandLed ==
  /\ Command
  /\ \/ ledFlag' = 1 /\ ledData' = 1
     \/ lockFlag = 0 /\ ledFlag' = 1 /\ ledData' = 0
     \/ lockFlag = 1 /\ UNCHANGED <<ledFlag, ledData>>
  /\ UNCHANGED <<word, doorVars, ledCnt, keyVars, oledVars, lit, served,
                 clobbered>>

\* The fan by its name, and any relay by its number.
CommandRelay ==
  /\ Command
  /\ \E r \in ServerRelays \cup {FAN}, on \in BOOLEAN :
       /\ word' = With(word, r, on)
       /\ served' = [served EXCEPT ![r] = IF on THEN "on" ELSE "off"]
       /\ lit' = (IF r = LIGHT THEN on ELSE lit)
  /\ UNCHANGED <<doorVars, ledVars, keyVars, oledVars, clobbered>>

-----------------------------------------------------------------------------
(* The cabinet itself. *)

DoorMoves ==
  /\ door' = 1 - door
  /\ UNCHANGED <<word, doorOld, doorCnt, lockFlag, ledVars, keyVars,
                 oledVars, lit, served, clobbered, commands>>

Next ==
  \/ Key \/ Oled \/ CommandLed \/ CommandRelay \/ DoorMoves

Spec == Init /\ [][Next]_vars

\* The higher threads sleep in each of their turns, so that the key thread runs
\* again and again; it may be cut short any number of times.
FairSpec == Spec /\ SF_vars(Key) /\ WF_vars(Decide \/ Apply)

-----------------------------------------------------------------------------
\* Every variable keeps its type.
TypeOK ==
  /\ word \subseteq Relays
  /\ door \in 0 .. 1 /\ doorOld \in {0, 1, 255} /\ doorCnt \in 0 .. Debounce - 1
  /\ lockFlag \in 0 .. 1
  /\ ledFlag \in 0 .. 1 /\ ledData \in 0 .. 2 /\ ledCnt \in 0 .. LedTurns
  /\ keyAt \in KeyPlaces /\ (keyWord = NONE \/ keyWord \subseteq Relays)
  /\ keyWord = NONE <=> keyAt \in {"door", "led", "expire"}
  /\ open \in [AutoRelays -> 0 .. 1]
  /\ oledAt \in 0 .. Len(AutoOrder) /\ (oledWord = NONE \/ oledWord \subseteq Relays)
  /\ {lit, clobbered} \subseteq BOOLEAN
  /\ served \in [Relays -> {"never", "on", "off"}] /\ commands \in 0 .. MaxCommands

\* The light burns as it was last decided: the key thread's decisions are never
\* undone, since those who cut it do not switch the light.
LightAsDecided == LIGHT \notin ServerRelays => (LIGHT \in word <=> lit)

\* Fan and heater run as open_fan and open_heat say, unless the server switched
\* them or a thread's write undid another's.
AutoAsDecided ==
  ~clobbered => \A r \in AutoRelays :
    served[r] = "never" => (r \in word <=> open[r] = 1)

\* With the door closed for good and the server silent, the light goes out: at
\* the latest a minute after it was switched on by command.
LightGoesOut ==
  LIGHT \notin ServerRelays =>
    (<>[](door = 0) => <>[](LIGHT \notin word))

\* doc, MQTT protocol, 2.5: a fan the server switched on must be switched off by
\* the server; the display thread does not decide to.
FanIsServers ==
  [][Decide /\ Relay = FAN /\ open[FAN] = 1 /\ oledWord' # NONE
       => served[FAN] # "on"]_vars
=============================================================================
