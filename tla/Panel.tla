-------------------------------- MODULE Panel -------------------------------
(***************************************************************************)
(* The board application (src/bsp/stm32f4xx-HAL-BOX/applications/main.c,   *)
(* proto.c): a peer sends commands over a UART; the receive interrupt      *)
(* parses them and releases a semaphore for each frame; the thread         *)
(* mega32u4_uart takes the semaphore, executes the command in the one      *)
(* command slot and replies; settings are left in buffers with a flag, and *)
(* thread_sensor, of higher priority, applies them every 10 ticks.         *)
(*                                                                         *)
(* The commands are one of each kind: RGB_LED acts at once, MOTOR and DZP  *)
(* leave a setting, Dial, traffic_light and GUI_clear draw on the screen.  *)
(* The semaphore is a counter (Semaphore implements CountingSemaphore).    *)
(* thread_sensor preempts mega32u4_uart and not the other way round, so    *)
(* its loop is one step up to the GUI_Delay in Dial_deal.                  *)
(***************************************************************************)
EXTENDS Protocol

CONSTANTS Commands,    \* the commands the peer sends
          Windows,     \* how many replies the peer may be waiting for
          MaxFrames,   \* bound: the frames it sends
          MaxLost      \* bound: the bytes that are lost on the line

RGB_LED == 1
MOTOR == 5
DZP == 6
Dial == 19
traffic_light == 20
GUI_clear == 21

\* How many data bytes a command has; two stand for the pins of RGB_LED, the
\* columns of DZP and the lights of traffic_light.
DataLen(c) == IF c \in {RGB_LED, DZP, traffic_light} THEN 2 ELSE IF c = GUI_clear THEN 0 ELSE 1

ASSUME PanelAssumption ==
    /\ MaxData = 2 /\ MaxFrames \in 0 .. 89
    /\ Commands \subseteq {RGB_LED, MOTOR, DZP, Dial, traffic_light, GUI_clear}
    /\ Windows \subseteq Nat \ {0} /\ MaxLost \in Nat

VARIABLES
    window, frame, pos, frames, waiting,    \* the peer: its frame, bytes sent, replies due
    lost, damaged, damagedBefore,           \* history: bytes lost in all, in this frame, in the last
    value,                                  \* proto_sem
    pc, cmd, used,                          \* mega32u4_uart, the data bytes it has used
    set, flag, Clear_flag,                  \* the buffers of the settings and their flags
    sensor,                                 \* thread_sensor: in rt_thread_delay or in GUI_Delay
    shown, screen,                          \* what pins, motor, matrix and screen show
    found, done                             \* history: the last frame found, the last command executed

peerVars == <<window, frame, pos, frames, waiting, lost, damaged, damagedBefore>>
threadVars == <<pc, cmd, used>>
setVars == <<set, flag, Clear_flag>>
outVars == <<shown, screen>>
vars == <<parserVars, peerVars, value, threadVars, setVars, sensor, outVars, found, done>>

Nothing == [cmd |-> 0, data |-> <<>>]

\* All data bytes of the n-th frame are n, so that a mixture of two shows.
FrameOf(c, n) == [cmd |-> c, data |-> [i \in 1 .. DataLen(c) |-> n]]
Bytes == Frame(frame.cmd, frame.data)

Init ==
    /\ ParserInit
    /\ window \in Windows /\ frame = Nothing /\ pos = 6 /\ frames = 0 /\ waiting = 0
    /\ lost = 0 /\ damaged = FALSE /\ damagedBefore = FALSE
    /\ value = 0
    /\ pc = "take" /\ cmd = 0 /\ used = <<>>
    /\ set = [c \in Commands |-> [i \in 1 .. DataLen(c) |-> 0]]
    /\ flag = [c \in Commands |-> FALSE] /\ Clear_flag = FALSE
    /\ sensor = "delay"
    /\ shown = set /\ screen = "logo"
    /\ found = Nothing /\ done = Nothing

-----------------------------------------------------------------------------
\* The peer begins a frame,
NewFrame(c) ==
    /\ pos >= Len(Bytes)
    /\ frames < MaxFrames /\ waiting < window
    /\ frame' = FrameOf(c, frames + 1) /\ pos' = 0
    /\ frames' = frames + 1 /\ waiting' = waiting + 1
    /\ damaged' = FALSE /\ damagedBefore' = damaged
    /\ UNCHANGED <<parserVars, window, lost, value, threadVars, setVars, sensor, outVars, found, done>>

\* ... sends a byte: rt_hw_serial_isr puts it into the fifo and calls
\* _proto_rx_ind, which reads the fifo empty,
RxByte ==
    /\ pos < Len(Bytes)
    /\ LET b == Bytes[pos + 1] IN
        /\ AnalyzeByte(b)
        /\ value' = IF Finds(b) THEN value + 1 ELSE value
        /\ found' = IF Finds(b) THEN frame ELSE found
    /\ pos' = pos + 1
    /\ UNCHANGED <<window, frame, frames, waiting, lost, damaged, damagedBefore,
                   threadVars, setVars, sensor, outVars, done>>

\* ... or sends one that does not arrive.
LoseByte ==
    /\ pos < Len(Bytes) /\ lost < MaxLost
    /\ pos' = pos + 1
    /\ lost' = lost + 1 /\ damaged' = TRUE
    /\ UNCHANGED <<parserVars, window, frame, frames, waiting, damagedBefore, value,
                   threadVars, setVars, sensor, outVars, found, done>>

\* It stops waiting for replies that will not come.
GiveUp ==
    /\ pos >= Len(Bytes) /\ waiting > 0
    /\ value = 0 /\ pc = "take"
    /\ waiting' = 0
    /\ UNCHANGED <<parserVars, window, frame, pos, frames, lost, damaged, damagedBefore,
                   value, threadVars, setVars, sensor, outVars, found, done>>

-----------------------------------------------------------------------------
\* mega32u4_uart_thread: rt_sem_take,
Take ==
    /\ pc = "take" /\ value > 0
    /\ value' = value - 1
    /\ pc' = "cmd"
    /\ UNCHANGED <<parserVars, peerVars, cmd, used, setVars, sensor, outVars, found, done>>

\* Mutant of ReadCmd: the command that was in the slot is executed once more.
ReadCmdStale ==
    /\ pc = "cmd"
    /\ cmd' = IF cmd = 0 THEN realcmd ELSE cmd
    /\ used' = <<>>
    /\ pc' = "data"
    /\ UNCHANGED <<parserVars, peerVars, value, setVars, sensor, outVars, found, done>>

\* Proto_sensor_cmd_deal: read the slot,
ReadCmd ==
    /\ pc = "cmd"
    /\ cmd' = realcmd /\ used' = <<>>
    /\ pc' = "data"
    /\ UNCHANGED <<parserVars, peerVars, value, setVars, sensor, outVars, found, done>>

\* ... use the data byte by byte from the receive buffer: pins are written,
\* settings are copied,
UseByte ==
    /\ pc = "data" /\ Len(used) < DataLen(cmd)
    /\ LET i == Len(used) + 1
           b == recvbuf[i]
       IN  /\ used' = Append(used, b)
           /\ set' = [set EXCEPT ![cmd][i] = b]
           /\ shown' = IF cmd = RGB_LED THEN [shown EXCEPT ![cmd][i] = b] ELSE shown
    /\ UNCHANGED <<parserVars, peerVars, value, pc, cmd, flag, Clear_flag, sensor, screen,
                   found, done>>

\* Mutant of Raise: the flag is raised before the last byte is copied.
RaiseEarly ==
    /\ pc = "data" /\ Len(used) + 1 >= DataLen(cmd)
    /\ flag' = IF cmd = RGB_LED \/ Len(used) = DataLen(cmd) THEN flag
               ELSE [flag EXCEPT ![cmd] = TRUE]
    /\ pc' = IF Len(used) < DataLen(cmd) THEN "data"
             ELSE IF cmd = GUI_clear THEN "clear" ELSE "reply"
    /\ UNCHANGED <<parserVars, peerVars, value, cmd, used, set, Clear_flag, sensor, outVars,
                   found, done>>

\* ... then the flag is raised,
Raise ==
    /\ pc = "data" /\ Len(used) = DataLen(cmd)
    /\ flag' = IF cmd = RGB_LED THEN flag ELSE [flag EXCEPT ![cmd] = TRUE]
    /\ pc' = IF cmd = GUI_clear THEN "clear" ELSE "reply"
    /\ UNCHANGED <<parserVars, peerVars, value, cmd, used, set, Clear_flag, sensor, outVars,
                   found, done>>

\* ... by GUI_set a second one,
RaiseClear ==
    /\ pc = "clear"
    /\ Clear_flag' = TRUE
    /\ pc' = "reply"
    /\ UNCHANGED <<parserVars, peerVars, value, cmd, used, set, flag, sensor, outVars, found, done>>

\* Mutant of Reply: the semaphore is reset when a command is done.
ReplyResets ==
    /\ pc = "reply"
    /\ waiting' = IF waiting > 0 THEN waiting - 1 ELSE 0
    /\ done' = [cmd |-> cmd, data |-> used]
    /\ pc' = "take"
    /\ value' = 0
    /\ UNCHANGED <<parserVars, window, frame, pos, frames, lost, damaged, damagedBefore,
                   cmd, used, setVars, sensor, outVars, found>>

\* ... and the reply is sent.
Reply ==
    /\ pc = "reply"
    /\ waiting' = IF waiting > 0 THEN waiting - 1 ELSE 0
    /\ done' = [cmd |-> cmd, data |-> used]
    /\ pc' = "take"
    /\ UNCHANGED <<parserVars, window, frame, pos, frames, lost, damaged, damagedBefore,
                   value, cmd, used, setVars, sensor, outVars, found>>

Handler == Take \/ ReadCmd \/ UseByte \/ Raise \/ RaiseClear \/ Reply

-----------------------------------------------------------------------------
\* The settings that are applied, and the flags that remain.
Pending(c) == c \in Commands /\ flag[c]
Shown(cs) == [c \in Commands |-> IF c \in cs /\ flag[c] THEN set[c] ELSE shown[c]]
Lowered(cs) == [c \in Commands |-> flag[c] /\ c \notin cs]

\* traffic_deal, which first restores the background, then GUI_deal.
Drawing == {traffic_light, GUI_clear}
Draw ==
    /\ screen' = IF Pending(GUI_clear) THEN "black"
                 ELSE IF Pending(traffic_light) THEN "lights" ELSE screen
    /\ Clear_flag' = (Clear_flag /\ ~Pending(traffic_light))

\* Mutant of SensorLoop: the flags stay up.
SensorLoopKeepsFlags ==
    /\ sensor = "delay" /\ ~Pending(Dial)
    /\ shown' = Shown({DZP, MOTOR} \cup Drawing)
    /\ Draw
    /\ UNCHANGED <<parserVars, peerVars, value, threadVars, set, flag, sensor, found, done>>

\* thread_sensor_entry without a dial to draw: DZP_deal, MOTOR_deal,
\* traffic_deal, GUI_deal, and rt_thread_delay(10).
SensorLoop ==
    /\ sensor = "delay" /\ ~Pending(Dial)
    /\ shown' = Shown({DZP, MOTOR} \cup Drawing)
    /\ flag' = Lowered({DZP, MOTOR} \cup Drawing)
    /\ Draw
    /\ UNCHANGED <<parserVars, peerVars, value, threadVars, set, sensor, found, done>>

\* The loop up to Dial_deal: dwq_task draws the dial and waits in GUI_Delay.
SensorDial ==
    /\ sensor = "delay" /\ Pending(Dial)
    /\ shown' = Shown({DZP, MOTOR, Dial})
    /\ flag' = Lowered({DZP, MOTOR})
    /\ screen' = "dial"
    /\ sensor' = "dial"
    /\ UNCHANGED <<parserVars, peerVars, value, threadVars, set, Clear_flag, found, done>>

\* The rest of the loop: dial_flag is cleared after the wait.
SensorRest ==
    /\ sensor = "dial"
    /\ shown' = Shown(Drawing)
    /\ flag' = Lowered({Dial} \cup Drawing)
    /\ Draw
    /\ sensor' = "delay"
    /\ UNCHANGED <<parserVars, peerVars, value, threadVars, set, found, done>>

Sensor == SensorLoop \/ SensorDial \/ SensorRest

Next ==
    \/ \E c \in Commands : NewFrame(c)
    \/ RxByte \/ LoseByte \/ GiveUp
    \/ Handler
    \/ Sensor

\* The delays of thread_sensor end, and in between mega32u4_uart runs.
Fairness == WF_vars(Handler) /\ WF_vars(Sensor)

Spec == Init /\ [][Next]_vars /\ Fairness

-----------------------------------------------------------------------------
TypeOK ==
    /\ ParserTypeOK
    /\ frame \in {Nothing} \cup {FrameOf(c, n) : c \in Commands, n \in 1 .. MaxFrames} /\ pos \in 0 .. 8
    /\ value \in 0 .. MaxFrames /\ waiting \in 0 .. window
    /\ pc \in {"take", "cmd", "data", "clear", "reply"}
    /\ cmd \in Commands \cup {0}
    /\ flag \in [Commands -> BOOLEAN]

\* The parser finds a frame only when the last byte of an undamaged frame
\* arrives, and then has its command and data; a lost byte costs the frame it
\* was in and at most the next one.
FramesFound ==
    [][pos < Len(Bytes) /\ pos' = pos + 1 =>
        /\ value' = value + 1 =>
            /\ pos' = Len(Bytes) /\ ~damaged'
            /\ realcmd' = frame.cmd
            /\ \A i \in 1 .. Len(frame.data) : recvbuf'[i] = frame.data[i]
        /\ pos' = Len(Bytes) /\ ~damaged' /\ ~damagedBefore => value' = value + 1]_vars

\* A peer that waits for each reply has every command executed as sent: the
\* slot and the receive buffer, which the interrupt may overwrite, hold the
\* command until the reply, also after lost bytes.
ExecutedAsSent ==
    window = 1 /\ pc = "reply" => cmd = frame.cmd /\ used = frame.data

\* A peer that does not wait loses commands, but never the last one: when
\* there is nothing to do, the last frame that was found has been executed
\* with its own data.  (A damaged frame that follows it may overwrite the data.)
LastFrameWins ==
    /\ lost = 0 \/ window = 1
    /\ value = 0 /\ pc = "take" /\ pos = Len(Bytes) /\ found # Nothing
    => done = found

\* A motor, matrix or traffic light setting is applied whenever its flag is
\* down, although thread_sensor may preempt the copy: no setting is lost or
\* left half copied.
SettingsApplied ==
    \A c \in Commands \cap {MOTOR, DZP, traffic_light} :
        ~flag[c] /\ ~(pc = "data" /\ cmd = c) => shown[c] = set[c]

\* ... and this happens in the end.
SettingsSettle ==
    \A c \in Commands \cap {MOTOR, DZP, traffic_light} :
        flag[c] ~> ~flag[c] /\ shown[c] = set[c]
=============================================================================
