--------------------------- MODULE PictureUpload ---------------------------
(***************************************************************************)
(* The picture of an opened door on its way to the server.                 *)
(* camera_control_thread reads it from the camera part by part into        *)
(* camera_buf (camera_app) and offers each part to                         *)
(* camera_tcpc_control_thread, which sends it over one TCP connection.     *)
(* The threads share the buffer and five flags and no lock; a part that is *)
(* not taken in a second is given up, also when it is being sent.          *)
(***************************************************************************)
EXTENDS Naturals, Sequences

CONSTANTS MaxFull,     \* parts of N_BYTE bytes in the longest picture
          ErrLimit     \* failures in a row until the camera counts as broken

ASSUME MaxFullAssumption == MaxFull \in Nat \ {0}
ASSUME ErrLimitAssumption == ErrLimit \in Nat \ {0}

VARIABLES door,       \* lock_in_error_flag
          seen,       \* lock_open_close
          cam,        \* where the camera's thread is
          ready,      \* its ret: the camera has answered
          errCnt,     \* camera_err_cnt
          full,       \* cntM
          rest,       \* lastBytes # 0
          part,       \* camera_buf_cnt
          buf,        \* camera_buf: the part it holds
          sendFlag,   \* camera_send_flag
          lastFlag,   \* last_flag
          headFlag,   \* send_num_flag
          toTcp,      \* camera_send_to_tcp_flag: no MQTT reports meanwhile
          errFlag,    \* camera_error_flag
          link,       \* phy_check_flag
          up,         \* the connection is established
          tcpc,       \* where the sending thread is
          got,        \* history: what went out since the picture was taken
          clean       \* history: no part given up, no connection lost

camera == <<seen, cam, ready, errCnt, full, rest, part, buf>>
flags == <<sendFlag, lastFlag, headFlag, toTcp, errFlag>>
world == <<door, link, up>>
vars == <<camera, flags, world, tcpc, got, clean>>

Old == MaxFull + 1       \* of the picture before
Mixed == MaxFull + 2     \* being filled
Header == MaxFull + 3      \* "task:upload,..."
Parts == 0 .. Header

(* A VGA picture is longer than N_BYTE. *)
Init ==
    /\ door = "shut" /\ seen = "unknown"
    /\ cam = "idle" /\ ready \in BOOLEAN /\ errCnt = 0
    /\ full = 1 /\ rest = FALSE /\ part = 0 /\ buf = Old
    /\ sendFlag = FALSE /\ lastFlag = FALSE /\ headFlag = FALSE
    /\ toTcp = FALSE /\ errFlag = FALSE
    /\ link \in BOOLEAN /\ up = FALSE
    /\ tcpc = "top" /\ got = <<>> /\ clean = FALSE

-----------------------------------------------------------------------------
(* camera_control_thread *)
Others == UNCHANGED <<world, tcpc>>

Notice ==
    /\ cam = "idle" /\ ready
    /\ seen # door
    /\ seen' = door
    /\ cam' = "settle"
    /\ Others
    /\ UNCHANGED <<ready, errCnt, full, rest, part, buf, flags, got, clean>>

(* After a second: no picture for a closed door or while one is sent. *)
Skip ==
    /\ cam = "settle"
    /\ toTcp \/ seen # "open"
    /\ cam' = "idle"
    /\ Others
    /\ UNCHANGED <<seen, ready, errCnt, full, rest, part, buf, flags, got, clean>>

Begin ==
    /\ cam = "settle"
    /\ ~toTcp /\ seen = "open"
    /\ headFlag' = TRUE
    /\ cam' = "shoot"
    /\ Others
    /\ UNCHANGED <<seen, ready, errCnt, full, rest, part, buf,
                   sendFlag, lastFlag, toTcp, errFlag, got, clean>>

Shoot ==
    /\ cam = "shoot"
    /\ full' \in 1 .. MaxFull
    /\ rest' \in BOOLEAN
    /\ part' = 0
    /\ buf' = Old
    /\ got' = <<>>
    /\ clean' = (tcpc = "top" /\ ~lastFlag)
    /\ cam' = "read"
    /\ Others
    /\ UNCHANGED <<seen, ready, errCnt, flags>>

ShootFails ==
    /\ cam = "shoot"
    /\ cam' = "failed"
    /\ Others
    /\ UNCHANGED <<seen, ready, errCnt, full, rest, part, buf, flags, got, clean>>

(* memset, and send_get_photo begins to fill the buffer *)
Empty ==
    /\ cam = "read"
    /\ buf' = Mixed
    /\ cam' = "fill"
    /\ Others
    /\ UNCHANGED <<seen, ready, errCnt, full, rest, part, flags, got, clean>>

Offer ==
    /\ cam = "fill" /\ link
    /\ buf' = part
    /\ sendFlag' = TRUE
    /\ lastFlag' = (lastFlag \/ part = full)
    /\ cam' = "wait"
    /\ Others
    /\ UNCHANGED <<seen, ready, errCnt, full, rest, part,
                   headFlag, toTcp, errFlag, got, clean>>

(* Without a link the part is read and dropped. *)
Drop ==
    /\ cam = "fill" /\ ~link
    /\ buf' = part
    /\ clean' = FALSE
    /\ cam' = "next"
    /\ Others
    /\ UNCHANGED <<seen, ready, errCnt, full, rest, part, flags, got>>

FillFails ==
    /\ cam = "fill"
    /\ toTcp' = FALSE
    /\ cam' = "failed"
    /\ Others
    /\ UNCHANGED <<seen, ready, errCnt, full, rest, part, buf,
                   sendFlag, lastFlag, headFlag, errFlag, got, clean>>

Heard ==
    /\ cam = "wait"
    /\ ~sendFlag
    /\ cam' = "next"
    /\ Others
    /\ UNCHANGED <<seen, ready, errCnt, full, rest, part, buf, flags, got, clean>>

GiveUpOnlyHeard ==
    /\ cam = "wait"
    /\ ~sendFlag
    /\ lastFlag' = FALSE
    /\ clean' = FALSE
    /\ cam' = "next"
    /\ Others
    /\ UNCHANGED <<seen, ready, errCnt, full, rest, part, buf,
                   sendFlag, headFlag, toTcp, errFlag, got>>

(* A hundred turns of 10 ms. *)
GiveUp ==
    /\ cam = "wait"
    /\ sendFlag' = FALSE /\ lastFlag' = FALSE
    /\ clean' = FALSE
    /\ cam' = "next"
    /\ Others
    /\ UNCHANGED <<seen, ready, errCnt, full, rest, part, buf,
                   headFlag, toTcp, errFlag, got>>

NextPartTooFar ==
    /\ cam = "next"
    /\ part <= full
    /\ part' = part + 1
    /\ cam' = IF part < full \/ rest THEN "read" ELSE "clear"
    /\ Others
    /\ UNCHANGED <<seen, ready, errCnt, full, rest, buf, flags, got, clean>>

NextPart ==
    /\ cam = "next"
    /\ part < full
    /\ part' = part + 1
    /\ cam' = IF part + 1 < full \/ rest THEN "read" ELSE "clear"
    /\ Others
    /\ UNCHANGED <<seen, ready, errCnt, full, rest, buf, flags, got, clean>>

AllRead ==
    /\ cam = "next"
    /\ part = full
    /\ cam' = "clear"
    /\ Others
    /\ UNCHANGED <<seen, ready, errCnt, full, rest, part, buf, flags, got, clean>>

(* send_photoBuf_cls *)
Cleared ==
    /\ cam = "clear"
    /\ errCnt' = 0 /\ errFlag' = FALSE
    /\ headFlag' = FALSE
    /\ cam' = "idle"
    /\ Others
    /\ UNCHANGED <<seen, ready, full, rest, part, buf,
                   sendFlag, lastFlag, toTcp, got, clean>>

ClearFails ==
    /\ cam = "clear"
    /\ cam' = "failed"
    /\ Others
    /\ UNCHANGED <<seen, ready, errCnt, full, rest, part, buf, flags, got, clean>>

OneMore == IF errCnt < ErrLimit THEN errCnt + 1 ELSE ErrLimit

(* camera_app has failed: reset, and ask for the version. *)
Failed ==
    /\ cam = "failed"
    /\ ready' \in BOOLEAN
    /\ errCnt' = OneMore
    /\ errFlag' = (errFlag \/ OneMore = ErrLimit)
    /\ headFlag' = FALSE
    /\ cam' = "idle"
    /\ Others
    /\ UNCHANGED <<seen, full, rest, part, buf, sendFlag, lastFlag, toTcp, got, clean>>

Retry ==
    /\ cam = "idle" /\ ~ready
    /\ ready' \in BOOLEAN
    /\ errCnt' = IF ready' THEN 0 ELSE OneMore
    /\ errFlag' = (errFlag \/ errCnt' = ErrLimit)
    /\ Others
    /\ UNCHANGED <<seen, cam, full, rest, part, buf,
                   sendFlag, lastFlag, headFlag, toTcp, got, clean>>

-----------------------------------------------------------------------------
(* camera_tcpc on an established socket with a part on offer.  Between a   *)
(* test and the send it leads to nothing waits; send does.                 *)
Taken ==
    /\ tcpc = "top" /\ link /\ up
    /\ sendFlag /\ ~errFlag

TakeLast ==
    /\ Taken /\ lastFlag
    /\ tcpc' = "last"
    /\ UNCHANGED <<camera, flags, world, got, clean>>

TakeHeadAlways ==
    /\ Taken /\ ~lastFlag /\ headFlag
    /\ toTcp' = TRUE
    /\ tcpc' = "head"
    /\ UNCHANGED <<camera, sendFlag, lastFlag, headFlag, errFlag, world, got, clean>>

TakeHead ==
    /\ Taken /\ ~lastFlag /\ headFlag
    /\ headFlag' = FALSE /\ toTcp' = TRUE
    /\ tcpc' = "head"
    /\ UNCHANGED <<camera, sendFlag, lastFlag, errFlag, world, got, clean>>

TakeFrame ==
    /\ Taken /\ ~lastFlag /\ ~headFlag
    /\ tcpc' = "frame"
    /\ UNCHANGED <<camera, flags, world, got, clean>>

HeadOut ==
    /\ tcpc = "head"
    /\ got' = Append(got, Header)
    /\ tcpc' = "frame"
    /\ UNCHANGED <<camera, flags, world, clean>>

(* There is room in the chip and the buffer is copied to it, as it is now. *)
Copy ==
    /\ tcpc \in {"frame", "last"}
    /\ got' = Append(got, buf)
    /\ tcpc' = IF tcpc = "frame" THEN "frameOut" ELSE "lastOut"
    /\ UNCHANGED <<camera, flags, world, clean>>

FrameSent ==
    /\ tcpc = "frameOut"
    /\ sendFlag' = FALSE
    /\ tcpc' = "top"
    /\ UNCHANGED <<camera, lastFlag, headFlag, toTcp, errFlag, world, got, clean>>

LastSentSilently ==
    /\ tcpc = "lastOut"
    /\ sendFlag' = FALSE /\ lastFlag' = FALSE
    /\ tcpc' = "top"
    /\ UNCHANGED <<camera, headFlag, toTcp, errFlag, world, got, clean>>

LastSent ==
    /\ tcpc = "lastOut"
    /\ sendFlag' = FALSE /\ lastFlag' = FALSE /\ toTcp' = FALSE
    /\ tcpc' = "top"
    /\ UNCHANGED <<camera, headFlag, errFlag, world, got, clean>>

(* send returns something else than the length: the camera's thread takes   *)
(* it for sent and goes on.                                                *)
SendFails ==
    /\ tcpc # "top"
    /\ sendFlag' = FALSE /\ lastFlag' = FALSE /\ toTcp' = FALSE
    /\ up' = FALSE
    /\ clean' = FALSE
    /\ tcpc' = "top"
    /\ UNCHANGED <<camera, headFlag, errFlag, door, link, got>>

-----------------------------------------------------------------------------
DoorMoves ==
    /\ door' = IF door = "open" THEN "shut" ELSE "open"
    /\ UNCHANGED <<camera, flags, link, up, tcpc, got, clean>>

LinkMoves ==
    /\ link' = ~link
    /\ UNCHANGED <<camera, flags, door, up, tcpc, got, clean>>

(* The server closes, or the socket is opened and connected again. *)
ConnectionMoves ==
    /\ tcpc = "top"
    /\ up' = ~up
    /\ clean' = FALSE
    /\ UNCHANGED <<camera, flags, door, link, tcpc, got>>

CameraThread ==
    \/ Notice \/ Skip \/ Begin \/ Shoot \/ ShootFails
    \/ Empty \/ Offer \/ Drop \/ FillFails \/ Heard \/ GiveUp
    \/ NextPart \/ AllRead \/ Cleared \/ ClearFails \/ Failed \/ Retry

TcpcThread ==
    \/ TakeLast \/ TakeHead \/ TakeFrame
    \/ HeadOut \/ Copy \/ FrameSent \/ LastSent \/ SendFails

Next == CameraThread \/ TcpcThread \/ DoorMoves \/ LinkMoves \/ ConnectionMoves

(* The camera's thread waits for nobody longer than a second, and has the  *)
(* higher priority of the two.                                             *)
Spec == Init /\ [][Next]_vars /\ WF_vars(CameraThread)

-----------------------------------------------------------------------------
(* Type invariant. *)
TypeOK ==
    /\ door \in {"open", "shut"} /\ seen \in {"open", "shut", "unknown"}
    /\ cam \in {"idle", "settle", "shoot", "read", "fill", "wait", "next", "clear", "failed"}
    /\ {ready, rest, sendFlag, lastFlag, headFlag, toTcp, errFlag, link, up, clean} \subseteq BOOLEAN
    /\ errCnt \in 0 .. ErrLimit /\ full \in 1 .. MaxFull /\ part \in 0 .. full
    /\ buf \in Parts
    /\ tcpc \in {"top", "head", "frame", "last", "frameOut", "lastOut"}
    /\ got \in Seq(Parts)

Whole == <<Header>> \o [i \in 1 .. (IF rest THEN full + 1 ELSE full) |-> i - 1]

(* Property: a picture none of whose parts was given up, on a connection    *)
(* that held, goes out whole: its header once, then every part once, in    *)
(* order, and none overwritten in the shared buffer while it was sent.     *)
CleanArrivesWhole == cam = "clear" /\ clean => got = Whole

(* Property: the upload's flag, which silences the MQTT reports and         *)
(* prevents the next picture, is left standing only by a picture whose     *)
(* parts were not all taken, or that has no last part to clear it.         *)
SilentOnlyUnheard == cam = "idle" /\ toTcp => ~clean \/ ~rest

(* Property: whatever the connection does, the thread comes back from a     *)
(* picture to watch the door.                                              *)
CameraReturns == []<>(cam = "idle")
=============================================================================
